SPECIFICATION DSpec
CONSTANTS
  Formats = {"gzip"}
  Corrupt = FALSE
  WSIZE = 2
  FastRoom = 3
  CodeBits = {3, 14}
  DistBits = {9}
  LenExtra = {0}
  DistExtra = {13}
  Lengths = {3}
  StoredLens = {3}
  HeaderFlags = {}
  NCODE = 1
  NLEN = 1
  Inputs = {1, 9, 30}
  Outputs = {}
  MaxElements = 3
  MaxIn = 38
  ChunkSize = 2
  OneShotSize = 4
INVARIANT
  NoAbort
