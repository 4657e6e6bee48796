SPECIFICATION Spec
CONSTANTS
  Formats = {"gzip", "zlib"}
  Corrupt = TRUE
  WSIZE = 3
  FastRoom = 3
  CodeBits = {3, 14}
  DistBits = {9}
  LenExtra = {0}
  DistExtra = {13}
  Lengths = {3}
  StoredLens = {3}
  HeaderFlags = {"EXTRA"}
  NCODE = 1
  NLEN = 1
  Inputs = {0, 1, 7}
  Outputs = {2, 4}
  MaxElements = 3
  MaxIn = 24
INVARIANTS
  TypeOK
  InputAccounted
  OutputAccounted
  WindowServesMatches
  FastStaysInInput
