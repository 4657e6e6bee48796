----------------------------- MODULE SymbolCodes -----------------------------
(***************************************************************************)
(* How a block's literals and matches become codes and extra bits and come *)
(* back: _tr_tally() and compress_block() of trees.cpp with their tables,  *)
(* and the tables of inftrees.cpp with the LEN .. DISTEXT modes of         *)
(* inflate().  The Huffman codes themselves are modules Huffman and        *)
(* InflateTable; here a code arrives as it was sent.                       *)
(***************************************************************************)
EXTENDS Integers, FiniteSets, SequencesExt

CONSTANTS
  Symbols,     \* the literals and matches a block may begin with
  Further,     \* those it may go on with
  lit_bufsize  \* size of the symbol buffer

BufferAssumption == lit_bufsize \in Nat \ {0, 1}

LITERALS  == 256
END_BLOCK == 256
MIN_MATCH == 3
MAX_MATCH == 258
MAX_DISTANCE == 32768   \* the largest window, 2 to the MAX_WBITS

\* A symbol: a literal, with distance 0, or a match.
Symbol == [dist : {0}, length : 0 .. LITERALS - 1]
            \cup [dist : 1 .. MAX_DISTANCE, length : MIN_MATCH .. MAX_MATCH]

SymbolsAssumption == Symbols \cup Further \subseteq Symbol

\* C arrays are indexed from 0.
At(table, i) == table[i + 1]

----------------------------------------------------------------------------
(***************************************************************************)
(* The tables of trees.cpp.  The two long ones follow from base and extra  *)
(* bits: the code of a value is the one whose interval holds it.           *)
(***************************************************************************)

extra_lbits ==
  <<0, 0, 0, 0, 0, 0, 0, 0, 1, 1, 1, 1, 2, 2, 2, 2,
    3, 3, 3, 3, 4, 4, 4, 4, 5, 5, 5, 5, 0>>

extra_dbits ==
  <<0, 0, 0, 0, 1, 1, 2, 2, 3, 3, 4, 4, 5, 5, 6, 6,
    7, 7, 8, 8, 9, 9, 10, 10, 11, 11, 12, 12, 13, 13>>

base_length ==
  <<0, 1, 2, 3, 4, 5, 6, 7, 8, 10, 12, 14, 16, 20, 24, 28,
    32, 40, 48, 56, 64, 80, 96, 112, 128, 160, 192, 224, 0>>

base_dist ==
  <<0, 1, 2, 3, 4, 6, 8, 12, 16, 24, 32, 48, 64, 96, 128, 192,
    256, 384, 512, 768, 1024, 1536, 2048, 3072, 4096, 6144, 8192, 12288,
    16384, 24576>>

Within(base, extra, codes, v) ==
  CHOOSE c \in codes : At(base, c) <= v /\ v < At(base, c) + 2 ^ At(extra, c)

\* 258 has a code of its own beside the interval that would hold it.
_length_code ==
  [lc \in 0 .. MAX_MATCH - MIN_MATCH |->
     IF lc = 255 THEN 28 ELSE Within(base_length, extra_lbits, 0 .. 27, lc)]

\* Distances to 255 one by one, the others in steps of 128.
_dist_code ==
  [d \in 0 .. 511 |->
     IF d < 256 THEN Within(base_dist, extra_dbits, 0 .. 29, d)
     ELSE IF d < 258 THEN 0
     ELSE Within(base_dist, extra_dbits, 0 .. 29, (d - 256) * 128)]

d_code_Early(dist) ==
  IF dist <= 256 THEN _dist_code[dist] ELSE _dist_code[256 + (dist \div 128)]

d_code(dist) ==
  IF dist < 256 THEN _dist_code[dist] ELSE _dist_code[256 + (dist \div 128)]

----------------------------------------------------------------------------
(***************************************************************************)
(* The tables of inftrees.cpp: what a code stands for in the decoder.      *)
(***************************************************************************)

lbase ==
  <<3, 4, 5, 6, 7, 8, 9, 10, 11, 13, 15, 17, 19, 23, 27, 31,
    35, 43, 51, 59, 67, 83, 99, 115, 131, 163, 195, 227, 258, 0, 0>>

lext ==
  <<16, 16, 16, 16, 16, 16, 16, 16, 17, 17, 17, 17, 18, 18, 18, 18,
    19, 19, 19, 19, 20, 20, 20, 20, 21, 21, 21, 21, 16, 77, 202>>

dbase ==
  <<1, 2, 3, 4, 5, 7, 9, 13, 17, 25, 33, 49, 65, 97, 129, 193,
    257, 385, 513, 769, 1025, 1537, 2049, 3073, 4097, 6145, 8193, 12289,
    16385, 24577, 0, 0>>

dext ==
  <<16, 16, 16, 16, 17, 17, 18, 18, 19, 19, 20, 20, 21, 21, 22, 22,
    23, 23, 24, 24, 25, 25, 26, 26, 27, 27, 28, 28, 29, 29, 64, 64>>

Entry(base, extra, match, sym) ==
  CASE sym + 1 < match -> [op |-> 0, val |-> sym]
    [] sym >= match    -> [op |-> At(extra, sym - match), val |-> At(base, sym - match)]
    [] OTHER           -> [op |-> 96, val |-> 0]

\* Entries of the literal/length and of the distance table.
LenEntry(sym) == Entry(lbase, lext, 257, sym)

DistEntry(sym) == Entry(dbase, dext, 0, sym)

Flag(op, bit) == (op \div bit) % 2 = 1

----------------------------------------------------------------------------
VARIABLES
  d_buf, l_buf,          \* the symbol buffer
  dyn_ltree, dyn_dtree,  \* bags of codes: their Freq
  wire, pos,             \* what is sent, how much of it was read
  mode,                  \* "tally" in the encoder, then the mode of inflate()
  length, offset, extra, \* the match being decoded
  wanted, text           \* history: symbols tallied, symbols decoded

vars == <<d_buf, l_buf, dyn_ltree, dyn_dtree, wire, pos, mode, length, offset,
          extra, wanted, text>>

decoder == <<length, offset, extra, text>>

Init ==
  /\ d_buf = <<>> /\ l_buf = <<>>
  /\ dyn_ltree = SetToBag({END_BLOCK}) /\ dyn_dtree = EmptyBag
  /\ wire = <<>> /\ pos = 0 /\ mode = "tally"
  /\ length = 0 /\ offset = 0 /\ extra = 0
  /\ wanted = <<>> /\ text = <<>>

last_lit == Len(d_buf)

\* The result of _tr_tally: the block must end.
Full == last_lit = lit_bufsize - 1

----------------------------------------------------------------------------
\* _tr_tally and its macros; what they store is 16 and 8 bits wide.
Tallied(dist) == d_code(dist - 1)

_tr_tally(s) ==
  LET dist == s.dist % 2 ^ 16
      lc   == (IF dist = 0 THEN s.length ELSE s.length - MIN_MATCH) % 2 ^ 8
  IN  /\ d_buf' = Append(d_buf, dist)
      /\ l_buf' = Append(l_buf, lc)
      /\ IF dist = 0
           THEN /\ dyn_ltree' = dyn_ltree (+) SetToBag({lc})
                /\ UNCHANGED dyn_dtree
           ELSE /\ dyn_ltree' = dyn_ltree
                                (+) SetToBag({_length_code[lc] + LITERALS + 1})
                /\ dyn_dtree' = dyn_dtree (+) SetToBag({Tallied(dist)})

Tally ==
  /\ mode = "tally" /\ ~Full
  /\ \E s \in (IF wanted = <<>> THEN Symbols ELSE Further) :
       /\ _tr_tally(s)
       /\ wanted' = Append(wanted, s)
  /\ UNCHANGED <<wire, pos, mode, decoder>>

Code(tree, c) == <<[tree |-> tree, val |-> c]>>

\* send_bits of the extra bits, when there are any.
Extra(v, n) == IF n = 0 THEN <<>> ELSE <<[tree |-> "bits", val |-> v, n |-> n]>>

\* One symbol of compress_block.
Sent_LateDecrement(dist, lc) ==
  IF dist = 0 THEN Code("l", lc)
  ELSE LET lcode == _length_code[lc]
           dcode == d_code(dist - 1)
       IN  Code("l", lcode + LITERALS + 1)
             \o Extra(lc - At(base_length, lcode), At(extra_lbits, lcode))
             \o Code("d", dcode)
             \o Extra(dist - At(base_dist, dcode), At(extra_dbits, dcode))

Sent(dist, lc) ==
  IF dist = 0 THEN Code("l", lc)
  ELSE LET lcode == _length_code[lc]
           dcode == d_code(dist - 1)
       IN  Code("l", lcode + LITERALS + 1)
             \o Extra(lc - At(base_length, lcode), At(extra_lbits, lcode))
             \o Code("d", dcode)
             \o Extra(dist - 1 - At(base_dist, dcode), At(extra_dbits, dcode))

\* What the first lx symbols of the buffer become.
Coded(dists, lengths) ==
  LET coded[lx \in 0 .. Len(dists)] ==
        IF lx = 0 THEN <<>> ELSE coded[lx - 1] \o Sent(dists[lx], lengths[lx])
  IN  coded

\* Of an empty buffer, which ends a stream of no input, only the end is sent.
compress_block ==
  /\ mode = "tally"
  /\ wire' = Coded(d_buf, l_buf)[last_lit] \o Code("l", END_BLOCK)
  /\ mode' = "LEN"
  /\ UNCHANGED <<d_buf, l_buf, dyn_ltree, dyn_dtree, pos, wanted, decoder>>

----------------------------------------------------------------------------
\* The decoder.  Next is what arrives; DROPBITS moves past it.
Arriving == wire[pos + 1]

Drop == pos' = pos + 1 /\ UNCHANGED <<d_buf, l_buf, dyn_ltree, dyn_dtree, wire, wanted>>

LEN ==
  LET here == LenEntry(Arriving.val)
  IN  /\ mode = "LEN" /\ Drop
      /\ length' = here.val
      /\ CASE here.op = 0 ->
                /\ mode' = "LEN"
                /\ text' = Append(text, [dist |-> 0, length |-> here.val])
                /\ UNCHANGED extra
           [] Flag(here.op, 32) ->
                mode' = "TYPE" /\ UNCHANGED <<extra, text>>
           [] here.op # 0 /\ ~Flag(here.op, 32) /\ Flag(here.op, 64) ->
                mode' = "BAD" /\ UNCHANGED <<extra, text>>
           [] OTHER ->
                /\ extra' = here.op % 16
                /\ mode' = "LENEXT"
                /\ UNCHANGED text
      /\ UNCHANGED offset

\* NEEDBITS, BITS and DROPBITS of the extra bits, when there are any.
Bits == IF extra = 0 THEN 0 ELSE Arriving.val

DropExtra ==
  /\ pos' = IF extra = 0 THEN pos ELSE pos + 1
  /\ UNCHANGED <<d_buf, l_buf, dyn_ltree, dyn_dtree, wire, wanted>>

LENEXT ==
  /\ mode = "LENEXT" /\ DropExtra
  /\ length' = length + Bits
  /\ mode' = "DIST"
  /\ UNCHANGED <<offset, extra, text>>

DIST ==
  LET here == DistEntry(Arriving.val)
  IN  /\ mode = "DIST" /\ Drop
      /\ IF Flag(here.op, 64)
           THEN mode' = "BAD" /\ UNCHANGED <<offset, extra>>
           ELSE /\ offset' = here.val
                /\ extra' = here.op % 16
                /\ mode' = "DISTEXT"
      /\ UNCHANGED <<length, text>>

DISTEXT ==
  /\ mode = "DISTEXT" /\ DropExtra
  /\ offset' = offset + Bits
  /\ text' = Append(text, [dist |-> offset', length |-> length])
  /\ mode' = "LEN"
  /\ UNCHANGED <<length, extra>>

Done == mode \in {"TYPE", "BAD"} /\ UNCHANGED vars

Next == Tally \/ compress_block \/ LEN \/ LENEXT \/ DIST \/ DISTEXT \/ Done

Spec == Init /\ [][Next]_vars

----------------------------------------------------------------------------
\* The codes of a tree in what is sent, with their number.
CodesSent(tree) ==
  LET sent == {i \in DOMAIN wire : wire[i].tree = tree}
  IN  [c \in {wire[i].val : i \in sent} |-> Cardinality({i \in sent : wire[i].val = c})]

\* The decoder gets the very symbols the encoder was given, in order, at
\* every point and in full at the end of the block; every code is one the
\* decoder knows.
RoundTrip ==
  /\ mode # "BAD" /\ IsPrefix(text, wanted)
  /\ mode = "TYPE" => text = wanted

\* What is sent as n extra bits is an n-bit number: more would spill into the
\* code that follows.
ExtraFits ==
  \A i \in DOMAIN wire :
    wire[i].tree = "bits" => wire[i].val >= 0 /\ wire[i].val < 2 ^ wire[i].n

\* The trees are built from the counts of _tr_tally, the block is coded by
\* compress_block from the buffer: each code is sent as often as counted.  One
\* that was not counted would have no bits.
FrequenciesExact ==
  mode # "tally" => CodesSent("l") = dyn_ltree /\ CodesSent("d") = dyn_dtree

\* "_dist_code[256] and _dist_code[257] are never used", and 0 is in them.
FarCodesReal ==
  \A i \in DOMAIN d_buf : d_buf[i] > 256 => d_code(d_buf[i] - 1) >= 16

TypeOK ==
  /\ last_lit < lit_bufsize /\ Len(l_buf) = last_lit
  /\ d_buf \in Seq(0 .. MAX_DISTANCE) /\ l_buf \in Seq(0 .. LITERALS - 1)
  /\ BagToSet(dyn_ltree) \subseteq 0 .. 285 /\ BagToSet(dyn_dtree) \subseteq 0 .. 29
  /\ pos \in 0 .. Len(wire) /\ extra \in 0 .. 13
  /\ mode \in {"tally", "LEN", "LENEXT", "DIST", "DISTEXT", "TYPE", "BAD"}
  /\ length \in 0 .. MAX_MATCH /\ offset \in 0 .. MAX_DISTANCE

=============================================================================
