SPECIFICATION SSpec
CONSTANTS
  Format = "gzip"
  W_SIZE = 9
  MAX_MATCH = 3
  MAX_LAZY = 4
  LIT_BUFSIZE = 4
  BlockOverhead = 5
  Inputs = {}
  Outputs = {}
  MaxIn = 40
  BufferSize = 24
INVARIANT
  RepeatedCallsKeepData
