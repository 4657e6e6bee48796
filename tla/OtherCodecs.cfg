SPECIFICATION Spec
CONSTANTS
  Chunks = {1, 2, 3}
  Inputs = {0, 1, 2, 5}
  MaxIn = 10
  Blocks = {0, 1, 2, 5}
  Stream = 6
  Beyond = 2
  Yield = 7
  Header = 1
  EmptyFrame = 2
  UINT32 = 64
  Any = {0, 47, 90, 104, 139, 181}
INVARIANTS
  DeliveredIsWritten
  OnlyKnownLosses
  HeadersAreTold
PROPERTY
  CallsReturn
