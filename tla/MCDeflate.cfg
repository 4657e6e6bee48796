SPECIFICATION Spec
CONSTANTS
  Format = "zlib"
  W_SIZE = 9
  MAX_MATCH = 3
  MAX_LAZY = 4
  LIT_BUFSIZE = 4
  BlockOverhead = 1
  Inputs = {0, 3, 7}
  Outputs = {0, 1, 2, 6}
  MaxIn = 20
INVARIANTS
  TypeOK
  InputConserved
  WindowSafe
  StreamWellFormed
  StreamComplete
  LoopsMayStop
PROPERTIES
  RejectedOnlyIfUseless
