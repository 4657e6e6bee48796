SPECIFICATION Spec
CONSTANTS
  Words <- MCWords
  MaxIn = 23
  W_SIZE = 13
  MAX_MATCH = 5
  BYTE_BITS = 1
  HASH_BITS = 2
  TOO_FAR = 3
  max_lazy_match = 5
  good_match = 4
  nice_match = 5
  max_chain_length = 4
INVARIANTS
  DictionaryExact
  SearchIsSound
  TextIsKept
PROPERTY
  SymbolsSpellText
