SPECIFICATION BSpec
CONSTANTS
  Freqs = {0, 1, 2, 4}
  elems = 6
  max_length = 3
  TreeBits = 5
  extra_bits <- MCExtraBits
  slen <- MCStatic
  Lens = {0, 1, 2}
  L_CODES = 8
  D_CODES = 2
  EndCode = 6
  REP = 16
  REPZ = 17
  REPZ_LONG = 18
  RepBits = 1
  ZBits = 1
  LongBits = 1
  bl_order <- MCOrder
  codes = 6
  TableBits = 4
  EndOfBlock = 2
  Roots = {1, 2, 3}
  ENOUGH_LENS = 12
  ENOUGH_DISTS = 12
  FirstSymbols <- MCFirst
  Further <- MCFurther
  lit_bufsize = 3
INVARIANTS
  CodeIsComplete
  CodeIsCheapest
  LengthsArrive
  TablesDecode
  SymbolsArrive
