SPECIFICATION DSpec
CONSTANTS
  Formats = {"gzip", "zlib"}
  Corrupt = FALSE
  WSIZE = 3
  FastRoom = 3
  CodeBits = {3}
  DistBits = {9}
  LenExtra = {0}
  DistExtra = {13}
  Lengths = {3}
  StoredLens = {3}
  HeaderFlags = {"EXTRA", "NAME", "HCRC"}
  NCODE = 1
  NLEN = 1
  Inputs = {9, 30}
  Outputs = {}
  MaxElements = 3
  MaxIn = 38
  ChunkSize = 3
  OneShotSize = 4
INVARIANTS
  ValidAccepted
  InputTaken
  AbortsForTwoReasons
PROPERTIES
  MethodsReturn
  KeepsContract
