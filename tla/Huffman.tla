------------------------------ MODULE Huffman ------------------------------
(***************************************************************************)
(* build_tree() of src/zlib/trees.cpp with pqdownheap(), gen_bitlen() and  *)
(* gen_codes(): from the frequencies of the symbols of a block to their    *)
(* code lengths and codes.                                                 *)
(*                                                                         *)
(* heap[] is one array used from both ends: heap[1 .. heap_len] is the     *)
(* priority queue, heap[heap_max ..] the nodes taken from it.  dl[n] is    *)
(* the union of the father of a node and its code length, as in ct_data.   *)
(***************************************************************************)
EXTENDS Integers, Sequences, FiniteSets, SequencesExt, HuffmanCode

CONSTANTS
  Freqs,       \* the frequencies a symbol may have
  elems,       \* number of symbols
  max_length,  \* longest code allowed (15; 7 for the bit length tree)
  extra,       \* extra bits that follow each symbol's code
  slen         \* its length in the static tree

HEAP_SIZE == 2 * elems + 1
SMALLEST == 1

Symbols == 0 .. elems - 1
Nodes == 0 .. 2 * elems - 2
Heap == 0 .. HEAP_SIZE - 1

FreqsAssumption == Freqs \subseteq Nat
\* Three symbols at least, codes enough for all of them, and none of the
\* extra bits on the symbols that may be added.
ElemsAssumption ==
  /\ elems \in Nat /\ elems >= 3 /\ elems <= 2 ^ max_length
  /\ max_length \in 1 .. MAX_BITS
ExtraAssumption ==
  /\ extra \in [Symbols -> Nat] /\ \A n \in 0 .. 2 : extra[n] = 0
  /\ slen \in [Symbols -> Nat]

VARIABLES
  freq, dl, depth,             \* of every node: a symbol, or an inner node
  heap, heap_len, heap_max,
  node, max_code,
  bl_count, overflow,
  opt_len, static_len,         \* the cost of the block, and with static codes
  code,
  pc,
  asked, repaired              \* history: the frequencies given, and whether
                               \* some length was too long

nodes == <<freq, dl, depth>>
queue == <<heap, heap_len, heap_max>>
costs == <<opt_len, static_len>>
lengths == <<bl_count, overflow>>
vars == <<nodes, queue, node, max_code, lengths, costs, code, pc, asked,
          repaired>>

Init ==
  /\ asked \in [Symbols -> Freqs]
  /\ freq = [n \in Nodes |-> IF n \in Symbols THEN asked[n] ELSE 0]
  /\ dl = [n \in Nodes |-> 0] /\ depth = [n \in Nodes |-> 0]
  /\ heap = [h \in Heap |-> 0] /\ heap_len = 0 /\ heap_max = HEAP_SIZE
  /\ node = elems /\ max_code = -1
  /\ bl_count = [bits \in 0 .. MAX_BITS |-> 0] /\ overflow = 0
  /\ opt_len = 0 /\ static_len = 0
  /\ code = <<>>
  /\ pc = "collect" /\ repaired = FALSE

----------------------------------------------------------------------------
(***************************************************************************)
(* The priority queue.                                                     *)
(***************************************************************************)

smaller_ByFreq(f, d, n, m) == f[n] <= f[m]

smaller(f, d, n, m) == f[n] < f[m] \/ (f[n] = f[m] /\ d[n] <= d[m])

Sifting == [k : 1 .. HEAP_SIZE - 1, hp : [Heap -> Nodes]]

\* The node at k changes places with the smaller of its sons until it is
\* smaller than both.
pqdownheap(hp, hl, f, d, k) ==
  LET Son(s) ==
        IF 2 * s.k < hl /\ smaller(f, d, s.hp[2 * s.k + 1], s.hp[2 * s.k])
          THEN 2 * s.k + 1 ELSE 2 * s.k
      sift[s \in Sifting] ==
        IF 2 * s.k > hl \/ smaller(f, d, s.hp[s.k], s.hp[Son(s)]) THEN s.hp
        ELSE sift[[k |-> Son(s),
                   hp |-> [s.hp EXCEPT ![s.k] = s.hp[Son(s)], ![Son(s)] = s.hp[s.k]]]]
  IN  sift[[k |-> k, hp |-> hp]]

----------------------------------------------------------------------------
(***************************************************************************)
(* build_tree                                                              *)
(***************************************************************************)

Occurring == SelectSeq([i \in 1 .. elems |-> i - 1], LAMBDA n : freq[n] # 0)

\* All symbols that occur become leaves, in their order.
CollectLeaves ==
  /\ pc = "collect"
  /\ LET leaves == Occurring
     IN  /\ heap_len' = Len(leaves)
         /\ heap' = [h \in Heap |-> IF h \in 1 .. Len(leaves) THEN leaves[h] ELSE heap[h]]
         /\ max_code' = IF leaves = <<>> THEN -1 ELSE Last(leaves)
  /\ pc' = "force"
  /\ UNCHANGED <<nodes, heap_max, node, lengths, costs, code, asked, repaired>>

ForcedCost_Free == 0

\* A symbol that is added costs nothing in the end.
ForcedCost == 1

Forced == IF max_code < 2 THEN max_code + 1 ELSE 0

\* There must be two codes at least.
ForceCode ==
  /\ pc = "force" /\ heap_len < 2
  /\ heap' = [heap EXCEPT ![heap_len + 1] = Forced]
  /\ heap_len' = heap_len + 1
  /\ max_code' = IF max_code < 2 THEN max_code + 1 ELSE max_code
  /\ freq' = [freq EXCEPT ![Forced] = 1]
  /\ opt_len' = opt_len - ForcedCost
  /\ static_len' = static_len - slen[Forced]
  /\ UNCHANGED <<dl, depth, heap_max, node, lengths, code, pc, asked, repaired>>

Heapify ==
  /\ pc = "force" /\ heap_len >= 2
  /\ LET from[n \in 1 .. heap_len] ==
           IF n > heap_len \div 2 THEN heap
           ELSE pqdownheap(from[n + 1], heap_len, freq, depth, n)
     IN  heap' = from[1]
  /\ pc' = "combine"
  /\ UNCHANGED <<nodes, heap_len, heap_max, node, max_code, lengths, costs, code,
                 asked, repaired>>

\* pqremove: the last node of the queue takes the place of the first.
Removed ==
  pqdownheap([heap EXCEPT ![SMALLEST] = heap[heap_len]], heap_len - 1, freq, depth,
             SMALLEST)

\* The two least frequent nodes get a common father.
Combine ==
  /\ pc = "combine" /\ heap_len >= 2
  /\ LET n == heap[SMALLEST]
         rest == Removed
         m == rest[SMALLEST]
         taken == [rest EXCEPT ![heap_max - 1] = n, ![heap_max - 2] = m,
                               ![SMALLEST] = node]
     IN  /\ freq' = [freq EXCEPT ![node] = freq[n] + freq[m]]
         /\ depth' = [depth EXCEPT ![node] =
                        (IF depth[n] >= depth[m] THEN depth[n] ELSE depth[m]) + 1]
         /\ dl' = [dl EXCEPT ![n] = node, ![m] = node]
         /\ heap' = pqdownheap(taken, heap_len - 1, freq', depth', SMALLEST)
  /\ heap_len' = heap_len - 1
  /\ heap_max' = heap_max - 2
  /\ node' = node + 1
  /\ UNCHANGED <<max_code, lengths, costs, code, pc, asked, repaired>>

TakeRoot ==
  /\ pc = "combine" /\ heap_len < 2
  /\ heap' = [heap EXCEPT ![heap_max - 1] = heap[SMALLEST]]
  /\ heap_max' = heap_max - 1
  /\ pc' = "bitlen"
  /\ UNCHANGED <<nodes, heap_len, node, max_code, lengths, costs, code, asked, repaired>>

----------------------------------------------------------------------------
(***************************************************************************)
(* gen_bitlen                                                              *)
(***************************************************************************)

Cost(length, n) == freq[n] * (length + extra[n])

IsLeaf(n) == n <= max_code

\* The nodes from the root down: each is one longer than its father, but no
\* longer than allowed.
FirstPass(root) ==
  FoldLeft(
    LAMBDA s, h :
      LET n == heap[h]
          bits == s.dl[s.dl[n]] + 1
          cut == IF bits > max_length THEN max_length ELSE bits
      IN  [dl |-> [s.dl EXCEPT ![n] = cut],
           overflow |-> IF bits > max_length THEN s.overflow + 1 ELSE s.overflow,
           bl_count |-> IF IsLeaf(n) THEN [s.bl_count EXCEPT ![cut] = @ + 1]
                        ELSE s.bl_count,
           opt |-> IF IsLeaf(n) THEN s.opt + Cost(cut, n) ELSE s.opt,
           static |-> IF IsLeaf(n) THEN s.static + Cost(slen[n], n) ELSE s.static],
    [dl |-> [dl EXCEPT ![heap[root]] = 0], overflow |-> 0,
     bl_count |-> [bits \in 0 .. MAX_BITS |-> 0], opt |-> opt_len,
     static |-> static_len],
    [i \in 1 .. HEAP_SIZE - 1 - root |-> root + i])

BitLengths ==
  /\ pc = "bitlen"
  /\ LET s == FirstPass(heap_max)
     IN  /\ dl' = s.dl /\ bl_count' = s.bl_count /\ overflow' = s.overflow
         /\ opt_len' = s.opt /\ static_len' = s.static
         /\ pc' = IF s.overflow = 0 THEN "codes" ELSE "repair"
         /\ repaired' = (s.overflow # 0)
  /\ UNCHANGED <<freq, depth, queue, node, max_code, code, asked>>

\* The first length above that a leaf can be moved down from.
Movable == CHOOSE bits \in 1 .. max_length - 1 :
             /\ bl_count[bits] # 0
             /\ \A b \in bits + 1 .. max_length - 1 : bl_count[b] = 0

Moved_Alone(count, bits) ==
  [b \in DOMAIN count |->
     count[b] - (IF b = bits THEN 1 ELSE 0) + (IF b = bits + 1 THEN 1 ELSE 0)]

\* A leaf moves one down, with an overflow item as its brother.
Moved(count, bits) ==
  [b \in DOMAIN count |->
     count[b] - (IF b = bits THEN 1 ELSE 0) + (IF b = bits + 1 THEN 2 ELSE 0)
              - (IF b = max_length THEN 1 ELSE 0)]

MoveLeaf ==
  /\ pc = "repair" /\ overflow > 0
  /\ bl_count' = Moved(bl_count, Movable)
  /\ overflow' = overflow - 2
  /\ UNCHANGED <<nodes, queue, node, max_code, costs, code, pc, asked, repaired>>

\* The leaves among the nodes taken, least frequent first.
LeavesTaken_BySymbol == Occurring

LeavesTaken ==
  SelectSeq([i \in 1 .. HEAP_SIZE - heap_max |-> heap[HEAP_SIZE - i]], IsLeaf)

\* The longest lengths go to the least frequent leaves.
Reassign ==
  /\ pc = "repair" /\ overflow <= 0
  /\ LET leaves == LeavesTaken
         \* how many leaves have a length of at least bits
         From(bits) == MapThenSumSet(LAMBDA b : bl_count[b], bits .. max_length)
         New(i) == CHOOSE bits \in 1 .. max_length :
                     i > From(bits + 1) /\ i <= From(bits)
         of == [n \in ToSet(leaves) |-> New(CHOOSE i \in DOMAIN leaves : leaves[i] = n)]
     IN  /\ dl' = [n \in Nodes |-> IF n \in DOMAIN of THEN of[n] ELSE dl[n]]
         /\ opt_len' = opt_len + MapThenSumSet(
                         LAMBDA n : (of[n] - dl[n]) * freq[n], DOMAIN of)
  /\ pc' = "codes"
  /\ UNCHANGED <<freq, depth, queue, node, max_code, lengths, static_len, code,
                 asked, repaired>>

len == [n \in 0 .. max_code |-> IF freq[n] = 0 THEN 0 ELSE dl[n]]

GenCodes ==
  /\ pc = "codes"
  /\ code' = gen_codes(len, bl_count)
  /\ pc' = "done"
  /\ UNCHANGED <<nodes, queue, node, max_code, lengths, costs, asked, repaired>>

Done == pc = "done" /\ UNCHANGED vars

Next ==
  \/ CollectLeaves \/ ForceCode \/ Heapify \/ Combine \/ TakeRoot
  \/ BitLengths \/ MoveLeaf \/ Reassign \/ GenCodes \/ Done

Spec == Init /\ [][Next]_vars

----------------------------------------------------------------------------
(***************************************************************************)
(* Properties.                                                             *)
(***************************************************************************)

TypeOK ==
  /\ heap \in [Heap -> Nodes]
  /\ dl \in [Nodes -> Nodes]
  /\ node \in elems .. 2 * elems - 1 /\ max_code \in -1 .. elems - 1
  /\ \A bits \in 0 .. MAX_BITS : bl_count[bits] \in 0 .. elems

\* The two ends of the heap array never meet, and together they hold every
\* node that exists exactly once: none is lost or taken twice while nodes
\* move from the queue to the other end.
HeapHalvesApart ==
  /\ heap_len < heap_max
  /\ pc = "combine" =>
       LET places == 1 .. heap_len \cup heap_max .. HEAP_SIZE - 1
       IN  /\ \A p, q \in places : heap[p] = heap[q] => p = q
           /\ {heap[p] : p \in places} =
                {n \in Symbols : freq[n] # 0} \cup elems .. node - 1

\* The queue is a heap whenever a node is taken from it.
HeapOrdered ==
  pc = "combine" =>
    \A p \in 2 .. heap_len :
      smaller(freq, depth, heap[p \div 2], heap[p])

\* The nodes taken lie in the order of their frequencies, on which the
\* repair of too long codes relies.
TakenByFrequency ==
  \A p \in heap_max .. HEAP_SIZE - 2 : freq[heap[p]] >= freq[heap[p + 1]]

\* The lengths are those of a complete code, no longer than allowed, for the
\* symbols that occur and those added to make two.
CompleteCode ==
  pc = "done" =>
    /\ Complete(len)
    /\ \A n \in Used(len) : len[n] <= max_length
    /\ {n \in Symbols : asked[n] # 0} \subseteq Used(len)
    /\ Cardinality(Used(len)) > 2 => {n \in Symbols : asked[n] # 0} = Used(len)

\* A more frequent symbol never has a longer code, also after a repair.
FrequentIsShort ==
  pc = "done" =>
    \A n, m \in Used(len) : asked[n] > asked[m] => len[n] <= len[m]

\* Codes go by length and then by symbol, each after the end of the one
\* before: so that lengths alone tell the decoder, and no code begins another.
Canonical ==
  pc = "done" =>
    LET Value(n) == bi_reverse(code[n], len[n]) * 2 ^ (MAX_BITS - len[n])
    IN  \A n, m \in Used(len) :
          len[n] < len[m] \/ (len[n] = len[m] /\ n < m) =>
            Value(n) + 2 ^ (MAX_BITS - len[n]) <= Value(m)

\* The cost used to choose between the kinds of block is exact: what the
\* symbols of the block take, without those that were added.
CostExact ==
  pc = "done" =>
    /\ opt_len = MapThenSumSet(LAMBDA n : asked[n] * (len[n] + extra[n]), Used(len))
    /\ static_len = MapThenSumSet(LAMBDA n : asked[n] * (slen[n] + extra[n]), Symbols)

\* The shapes a complete code of k symbols can have: lengths in falling order.
Shapes == [k \in 2 .. elems |->
  {s \in [1 .. k -> 1 .. k - 1] :
     /\ \A i \in 1 .. k - 1 : s[i] >= s[i + 1]
     /\ MapThenSumSet(LAMBDA i : 2 ^ (k - s[i]), 1 .. k) = 2 ^ k}]

\* Without a repair the code is one of the best there are, and among those one
\* whose longest code is shortest: nodes of equal frequency are taken by depth.
Optimal ==
  pc = "done" /\ ~repaired /\ Cardinality({n \in Symbols : asked[n] # 0}) >= 2 =>
    LET rising == LeavesTaken
        Total(s) == MapThenSumSet(LAMBDA i : s[i] * asked[rising[i]], DOMAIN rising)
        total == MapThenSumSet(LAMBDA n : asked[n] * len[n], Used(len))
    IN  \A s \in Shapes[Len(rising)] :
          total < Total(s) \/ (total = Total(s) /\ len[rising[1]] <= s[1])

=============================================================================
