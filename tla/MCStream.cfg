SPECIFICATION SSpec
CONSTANTS
  BASE = 13
  NMAX = 6
  MaxByte = 7
  HALF = 16
  Bytes = {0, 3, 7}
  MaxText = 9
  BYTE = 2
  POLY = {0, 3, 5, 7}
  MaxChecked = 6
  MaxCall = 5
  TypeBits = 3
  Values <- MCValues
  Raw <- MCRaw
  MaxItems = 4
  Spans = {0, 1, 3, 5, 9}
  MaxCopied = 10
  WSIZE = 4
  MIN_MATCH = 3
  MAX_MATCH = 4
  Lengths = {3, 4}
  MaxDistance = 5
  UNSIGNED = 64
INVARIANTS
  ChecksAreExact
  NeverWraps
  BitsArrive
  CopiesAreExact
