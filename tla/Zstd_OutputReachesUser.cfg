SPECIFICATION Spec
CONSTANTS
  Codecs = {"zstd"}
  Chunks = {3}
  Inputs = {0, 1, 2, 5}
  MaxIn = 10
  Yield = 7
  Header = 1
  EmptyFrame = 2
  UINT32 = 64
INVARIANT
  OutputReachesUser
