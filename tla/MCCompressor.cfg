SPECIFICATION CSpec
CONSTANTS
  Format = "gzip"
  W_SIZE = 9
  MAX_MATCH = 3
  MAX_LAZY = 4
  LIT_BUFSIZE = 4
  BlockOverhead = 1
  Inputs = {0, 5, 8}
  Outputs = {}
  MaxIn = 21
  ChunkSize = 5
INVARIANTS
  CTypeOK
  NoInputDropped
  NoAbort
  FlushDeliversAll
PROPERTIES
  MethodsReturn
  KeepsContract
