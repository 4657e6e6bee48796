---------------------------- MODULE InflateTable ----------------------------
(***************************************************************************)
(* inflate_table() of src/zlib/inftrees.cpp: from the code lengths of a    *)
(* block to the tables that inflate() looks codes up in, a root table and  *)
(* sub-tables for the codes longer than its index.                         *)
(*                                                                         *)
(* An entry is a literal, the end of the block, a base value, a link to a  *)
(* sub-table, or invalid; val is the symbol, or the place of a sub-table,  *)
(* whose number of index bits is op.                                       *)
(***************************************************************************)
EXTENDS Integers, Sequences, SequencesExt, HuffmanCode

CONSTANTS
  codes,          \* number of symbols
  EndOfBlock,     \* the symbol that ends a block (256)
  Roots,          \* index bits the caller may ask for (9 and 6)
  ENOUGH_LENS, ENOUGH_DISTS   \* space for the tables (852 and 592)

Symbols == 0 .. codes - 1

SymbolsAssumption == codes \in Nat \ {0} /\ EndOfBlock \in Symbols
RootsAssumption == Roots \subseteq 1 .. MAX_BITS

VARIABLES
  type, lens,             \* the arguments
  bits,                   \* index bits asked for, and in the end used
  count,                  \* codes of each length not entered yet
  work,                   \* symbols by length, then in order
  table, next,            \* the tables, and where the one being filled starts
  root, curr, drop, used,
  huff, sym, len, low, max,
  pc

args == <<type, lens>>
tables == <<table, next, root, curr, drop, used>>
codeVars == <<huff, sym, len, low, max>>
vars == <<args, bits, count, work, tables, codeVars, pc>>

Unset == [kind |-> "unset", op |-> 0, bits |-> 0, val |-> 0]
Invalid(b) == [kind |-> "invalid", op |-> 0, bits |-> b, val |-> 0]
Link(b, op, val) == [kind |-> "link", op |-> op, bits |-> b, val |-> val]

\* The lengths of the code for lengths are at most as long as its table's
\* index; the other two may need sub-tables.
Init ==
  /\ type \in {"CODES", "LENS", "DISTS"}
  /\ lens \in [Symbols -> 0 .. MAX_BITS]
  /\ bits \in IF type = "CODES" THEN {MAX_BITS} ELSE Roots
  /\ count = BlCount(lens)
  /\ work = <<>>
  /\ table = [i \in 0 .. 2 ^ (MAX_BITS + 1) - 1 |-> Unset] /\ next = 0
  /\ root = 0 /\ curr = 0 /\ drop = 0 /\ used = 0
  /\ huff = 0 /\ sym = 0 /\ len = 0 /\ low = -1 /\ max = 0
  /\ pc = "begin"

----------------------------------------------------------------------------
(***************************************************************************)
(* The lengths.                                                            *)
(***************************************************************************)

Lengths == {l \in 1 .. MAX_BITS : count[l] # 0}

Longest == CHOOSE l \in Lengths : \A k \in Lengths : k <= l
Shortest == CHOOSE l \in Lengths : \A k \in Lengths : k >= l

\* No symbols at all: a table in which every bit is an error.
NoSymbols ==
  /\ pc = "begin" /\ Lengths = {}
  /\ table' = [table EXCEPT ![0] = Invalid(1), ![1] = Invalid(1)]
  /\ used' = 2
  /\ bits' = 1
  /\ pc' = "done"
  /\ UNCHANGED <<args, count, work, next, root, curr, drop, codeVars>>

\* Codes of length l that are not taken by shorter ones or by those of l.
Left(l) ==
  2 ^ l - MapThenSumSet(LAMBDA k : count[k] * 2 ^ (l - k), 1 .. l)

InvalidLengths_LastOnly ==
  \/ Left(MAX_BITS) < 0
  \/ Left(MAX_BITS) > 0 /\ type = "CODES"

\* Over-subscribed at some length, or incomplete. A single code of one bit
\* may be incomplete.
InvalidLengths ==
  \/ \E l \in 1 .. MAX_BITS : Left(l) < 0
  \/ Left(MAX_BITS) > 0 /\ (type = "CODES" \/ Longest # 1)

Reject ==
  /\ pc = "begin" /\ Lengths # {} /\ InvalidLengths
  /\ pc' = "rejected"
  /\ UNCHANGED <<args, bits, count, work, tables, codeVars>>

\* Symbols sorted by length, by symbol order within each length.
Sorted ==
  LET Of(l) == SelectSeq([i \in 1 .. codes |-> i - 1], LAMBDA n : lens[n] = l)
  IN  FlattenSeq([l \in 1 .. MAX_BITS |-> Of(l)])

Root ==
  LET least == IF bits > Longest THEN Longest ELSE bits
  IN  IF least < Shortest THEN Shortest ELSE least

NotEnough(n) ==
  \/ type = "LENS" /\ n > ENOUGH_LENS
  \/ type = "DISTS" /\ n > ENOUGH_DISTS

\* The size of a table with c index bits.
Entries(c) == 2 ^ c

Start ==
  /\ pc = "begin" /\ Lengths # {} /\ ~InvalidLengths
  /\ max' = Longest /\ root' = Root
  /\ work' = Sorted
  /\ huff' = 0 /\ sym' = 0 /\ len' = Shortest
  /\ next' = 0 /\ curr' = root' /\ drop' = 0 /\ low' = -1
  /\ used' = Entries(root')
  /\ pc' = IF NotEnough(used') THEN "not enough" ELSE "enter"
  /\ UNCHANGED <<args, bits, count, table>>

----------------------------------------------------------------------------
(***************************************************************************)
(* The table.                                                              *)
(***************************************************************************)

\* The smallest symbol that stands for a base value; the one before it ends
\* the block.
match == CASE type = "CODES" -> codes + 1
           [] type = "LENS" -> EndOfBlock + 1
           [] type = "DISTS" -> 0

Kind(n) == IF n + 1 < match THEN "literal" ELSE IF n >= match THEN "base" ELSE "end"

\* The code with its last bits replaced by every value.
Replicated(here) ==
  [i \in DOMAIN table |->
     IF i \in next .. next + 2 ^ curr - 1
        /\ (i - next) % 2 ^ (len - drop) = huff \div 2 ^ drop
     THEN here ELSE table[i]]

\* One more, with the bits of the code in reverse order.
Increment ==
  LET zeros == {p \in 0 .. len - 1 : Bit(huff, p) = 0}
      p == CHOOSE q \in zeros : \A r \in zeros : r <= q
  IN  IF zeros = {} THEN 0 ELSE (huff % 2 ^ p) + 2 ^ p

SubTableBits_One(l, d, left) == l - d

\* Index bits of the table for codes of l bits and more that start alike: as
\* many as make room for the codes of each length that are left.
SubTableBits(l, d, left) ==
  LET After(c) == 2 ^ c - MapThenSumSet(LAMBDA k : left[k + d] * 2 ^ (c - k), l - d .. c)
  IN  CHOOSE c \in l - d .. max - d :
        /\ c + d = max \/ After(c) <= 0
        /\ \A b \in l - d .. c - 1 : After(b) > 0

\* The next code is longer than the root's index and starts another way.
NewTable(l, h) == l > root /\ h % 2 ^ root # low

\* One code is entered. If the next one needs a new sub-table, it is started.
Enter ==
  /\ pc = "enter"
  /\ LET filled == Replicated([kind |-> Kind(work[sym + 1]), op |-> 0,
                               bits |-> len - drop, val |-> work[sym + 1]])
         rest == [count EXCEPT ![len] = @ - 1]
         last == rest[len] = 0 /\ len = max
         l == IF rest[len] = 0 /\ ~last THEN lens[work[sym + 2]] ELSE len
         sub == ~last /\ NewTable(l, Increment)
         c == SubTableBits(l, root, rest)
     IN  /\ huff' = Increment
         /\ sym' = sym + 1
         /\ count' = rest
         /\ len' = l
         /\ drop' = IF sub THEN root ELSE drop
         /\ next' = IF sub THEN next + Entries(curr) ELSE next
         /\ curr' = IF sub THEN c ELSE curr
         /\ used' = IF sub THEN used + Entries(c) ELSE used
         /\ low' = IF sub /\ ~NotEnough(used') THEN Increment % 2 ^ root ELSE low
         /\ table' = IF sub /\ ~NotEnough(used')
                       THEN [filled EXCEPT ![low'] = Link(root, c, next')]
                       ELSE filled
         /\ pc' = IF last THEN "fill"
                  ELSE IF sub /\ NotEnough(used') THEN "not enough" ELSE "enter"
  /\ UNCHANGED <<args, bits, work, root, max>>

\* A single code of one bit leaves one entry.
Rest == huff # 0

FillRest ==
  /\ pc = "fill"
  /\ table' = IF Rest THEN [table EXCEPT ![next + huff] = Invalid(len - drop)]
              ELSE table
  /\ bits' = root
  /\ pc' = "done"
  /\ UNCHANGED <<args, count, work, next, root, curr, drop, used, codeVars>>

Done == pc \in {"done", "rejected", "not enough"} /\ UNCHANGED vars

Next == NoSymbols \/ Reject \/ Start \/ Enter \/ FillRest \/ Done

Spec == Init /\ [][Next]_vars

----------------------------------------------------------------------------
(***************************************************************************)
(* inflate() at modes LEN and DIST, and inflate_fast(): the symbol that    *)
(* the next bits stand for, and how many bits it takes.                    *)
(***************************************************************************)

LookUp(value) ==
  LET here == table[value % 2 ^ bits]
      there == table[here.val + ((value % 2 ^ (here.bits + here.op)) \div 2 ^ here.bits)]
  IN  IF here.kind # "link" THEN here
      ELSE [there EXCEPT !.bits = here.bits + @]

----------------------------------------------------------------------------
(***************************************************************************)
(* Properties.                                                             *)
(***************************************************************************)

TypeOK ==
  /\ pc \in {"enter", "fill"} => next + 2 ^ curr <= used
  /\ used <= Cardinality(DOMAIN table)
  /\ \A l \in 0 .. MAX_BITS : count[l] \in 0 .. codes
  /\ huff \in 0 .. 2 ^ MAX_BITS - 1 /\ low \in -1 .. 2 ^ MAX_BITS - 1
  /\ drop \in 0 .. MAX_BITS /\ curr \in 0 .. MAX_BITS
  /\ pc \in {"begin", "enter", "fill", "done", "rejected", "not enough"}

\* The sets of lengths accepted are those of complete codes, and the two
\* exceptions: no code at all, and one code of one bit for lengths or
\* distances.
AcceptsCompleteCodes ==
  LET lone == \E n \in Symbols : Used(lens) = {n} /\ lens[n] = 1
      valid == Complete(lens) \/ Used(lens) = {} \/ (type # "CODES" /\ lone)
  IN  /\ pc = "done" => valid
      /\ pc = "rejected" => ~valid

\* The code entered next is the one gen_codes() gives to the next symbol, at
\* its length: counting backwards keeps step with counting forwards.
NextCodeIsMeant ==
  pc = "enter" =>
    /\ len = lens[work[sym + 1]]
    /\ huff = gen_codes(lens, BlCount(lens))[work[sym + 1]]

\* What the tables decode is what the encoder's gen_codes() makes of the same
\* lengths: whatever bits follow a code, it is found and its length is taken;
\* bits that start with no code are invalid.
DecodesWhatWasMeant ==
  pc = "done" =>
    LET code == gen_codes(lens, BlCount(lens))
    IN  \A value \in 0 .. 2 ^ MAX_BITS - 1 :
          LET here == LookUp(value)
              meant == {n \in Used(lens) : StartsWith(value, code[n], lens[n])}
          IN  IF meant = {} THEN here.kind = "invalid"
              ELSE /\ meant = {here.val}
                   /\ here.bits = lens[here.val]
                   /\ here.kind = Kind(here.val)

\* The tables fill the space they are said to use, without holes, so that the
\* next one can follow.
NoHoles ==
  pc = "done" => {i \in DOMAIN table : table[i] # Unset} = 0 .. used - 1

\* The space is enough for every valid set of lengths.
EnoughSpace == pc # "not enough"

=============================================================================
