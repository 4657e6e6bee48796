------------------------------- MODULE Blocks -------------------------------
(***************************************************************************)
(* The code of a block from the frequencies of its symbols to the symbols  *)
(* decoded: four components that hand each other a finished table and      *)
(* share no state while they work, so that each behaviour is one of them.  *)
(*                                                                         *)
(*   trees    frequencies to code lengths and codes     (Huffman)          *)
(*   lengths  the lengths, sent with repeat codes       (CodeLengths)      *)
(*   tables   code lengths to decoding tables           (InflateTable)     *)
(*   symbols  literals and matches, as codes and back   (SymbolCodes)      *)
(***************************************************************************)
EXTENDS CodeLengths

CONSTANTS
  Freqs, elems, max_length, TreeBits, extra_bits, slen,          \* Huffman
  codes, TableBits, EndOfBlock, Roots, ENOUGH_LENS, ENOUGH_DISTS, \* InflateTable
  FirstSymbols, Further, lit_bufsize                             \* SymbolCodes

VARIABLES
  part,
  dl, depth, heap, heap_len, heap_max, node, max_code, bl_count, \* Huffman
  overflow, opt_len, static_len, code, pc, asked, repaired,
  type, bits, count, work, table, next, root, curr, drop, used,  \* InflateTable
  huff, sym, len, low, max,
  d_buf, l_buf, dyn_ltree, dyn_dtree, wire, pos, length, offset, \* SymbolCodes
  extra, wanted, text

H == INSTANCE Huffman WITH MAX_BITS <- TreeBits, extra <- extra_bits

T == INSTANCE InflateTable WITH MAX_BITS <- TableBits

S == INSTANCE SymbolCodes WITH Symbols <- FirstSymbols

ASSUME BlockAssumption ==
  /\ H!FreqsAssumption /\ H!ElemsAssumption /\ H!ExtraAssumption
  /\ LensAssumption /\ OrderAssumption /\ SymbolsAssumption
  /\ T!SymbolsAssumption /\ T!RootsAssumption
  /\ S!BufferAssumption /\ S!SymbolsAssumption

----------------------------------------------------------------------------
None == <<>>

\* Variables of one component only, and the shared ones.
HOwn == <<dl, depth, heap, heap_len, heap_max, node, max_code, bl_count,
          overflow, opt_len, static_len, code, asked, repaired>>
COwn == <<ltree, dtree, sent, bl_sent, honest, nlen, ndist, bl_lens, have>>
TOwn == <<type, bits, count, work, table, next, root, curr, drop, used, huff,
          sym, len, low, max>>
SOwn == <<d_buf, l_buf, dyn_ltree, dyn_dtree, wire, pos, length, offset, extra,
          wanted, text>>

HIdle ==
  /\ dl = None /\ depth = None /\ heap = None /\ heap_len = None
  /\ heap_max = None /\ node = None /\ max_code = None /\ bl_count = None
  /\ overflow = None /\ opt_len = None /\ static_len = None /\ code = None
  /\ asked = None /\ repaired = None
CIdle ==
  /\ ltree = None /\ dtree = None /\ sent = None /\ bl_sent = None
  /\ honest = None /\ nlen = None /\ ndist = None /\ bl_lens = None
  /\ have = None
TIdle ==
  /\ type = None /\ bits = None /\ count = None /\ work = None
  /\ table = None /\ next = None /\ root = None /\ curr = None /\ drop = None
  /\ used = None /\ huff = None /\ sym = None /\ len = None /\ low = None
  /\ max = None
SIdle ==
  /\ d_buf = None /\ l_buf = None /\ dyn_ltree = None /\ dyn_dtree = None
  /\ wire = None /\ pos = None /\ length = None /\ offset = None
  /\ extra = None /\ wanted = None /\ text = None

BInit ==
  \/ /\ part = "trees" /\ H!Init /\ CIdle /\ TIdle /\ SIdle
     /\ mode = None /\ lens = None
  \/ /\ part = "lengths" /\ Init /\ HIdle /\ TIdle /\ SIdle
     /\ pc = None
  \/ /\ part = "tables" /\ T!Init /\ HIdle /\ CIdle /\ SIdle
     /\ freq = None /\ mode = None
  \/ /\ part = "symbols" /\ S!Init /\ HIdle /\ CIdle /\ TIdle
     /\ freq = None /\ pc = None /\ lens = None

BNext ==
  /\ UNCHANGED part
  /\ \/ part = "trees" /\ H!Next /\ UNCHANGED <<COwn, TOwn, SOwn, mode, lens>>
     \/ part = "lengths" /\ Next /\ UNCHANGED <<HOwn, TOwn, SOwn, pc>>
     \/ part = "tables" /\ T!Next /\ UNCHANGED <<HOwn, COwn, SOwn, freq, mode>>
     \/ part = "symbols" /\ S!Next /\ UNCHANGED <<HOwn, COwn, TOwn, freq, pc, lens>>

BSpec == BInit /\ [][BNext]_<<part, HOwn, COwn, TOwn, SOwn, freq, pc, mode, lens>>

----------------------------------------------------------------------------
(***************************************************************************)
(* Properties.                                                             *)
(***************************************************************************)

\* build_tree() makes a complete code no longer than allowed for exactly the
\* symbols that occur (two at least), whose codes follow from the lengths
\* alone, while the two halves of heap[] never meet and lose no node.
CodeIsComplete ==
  part = "trees" =>
    /\ H!TypeOK /\ H!HeapHalvesApart
    /\ H!CompleteCode /\ H!Canonical

\* That code is the cheapest there is, the nodes being taken by frequency; a
\* repair of codes that are too long keeps frequent symbols short, and the
\* cost that decides between the kinds of block is exact.
CodeIsCheapest ==
  part = "trees" =>
    /\ H!HeapOrdered /\ H!TakenByFrequency
    /\ H!FrequentIsShort /\ H!Optimal /\ H!CostExact

\* The head of a dynamic block gives the decoder the encoder's code lengths;
\* no symbol is sent that was not counted, no repeat overflows its bits, and
\* no stream makes the decoder write more lengths than it announced.
LengthsArrive ==
  part = "lengths" =>
    /\ TypeOK
    /\ RoundTrip /\ NeverRejected /\ BlLensArrive
    /\ CountsMatch /\ ExtraFits /\ ExactlyFilled

\* The decoding tables read every code that gen_codes() gives those lengths
\* as its symbol, and nothing else as one; lengths that are no complete code
\* are refused, and the tables fill the space they are given without holes.
TablesDecode ==
  part = "tables" =>
    /\ T!TypeOK
    /\ T!AcceptsCompleteCodes /\ T!NextCodeIsMeant /\ T!DecodesWhatWasMeant
    /\ T!NoHoles /\ T!EnoughSpace

\* Literals and matches come out as they were tallied, for every length and
\* every distance; each code is sent as often as it was counted.
SymbolsArrive ==
  part = "symbols" =>
    /\ S!TypeOK
    /\ S!RoundTrip /\ S!ExtraFits /\ S!FrequenciesExact /\ S!FarCodesReal

=============================================================================
