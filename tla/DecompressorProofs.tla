-------------------------- MODULE DecompressorProofs --------------------------
(***************************************************************************)
(* Proofs about Inflate, and about Decompressor that drives it.            *)
(*                                                                         *)
(* For every window size, every length of codes and spans, and streams     *)
(* valid or not.  IndInv is inductive: the accounting of bits rests on     *)
(* HeldIsLess and FieldsAreWhole, that of output on the symbol in          *)
(* progress, that a valid stream is accepted on both of them and on the    *)
(* window, whose contents follow from the totals.                          *)
(*                                                                         *)
(* For every chunk size above zero and streams in pieces of any size: a    *)
(* method that returns has taken its input, the wrapper's assertion fails  *)
(* on a valid stream for two reasons only, and the interface keeps the     *)
(* decompression contract.  IndInv says where the output is; LoopsInOrder  *)
(* adds why a call ended, which is what the loops go by.                   *)
(***************************************************************************)
EXTENDS Decompressor, TLAPS


----------------------------------------------------------------------------
(***************************************************************************)
(* The engine.                                                             *)
(***************************************************************************)
\* NEEDBITS pulls just enough whole bytes.
LEMMA WholeBytes ==
  ASSUME NEW a \in Nat, NEW n \in Nat, a < n
  PROVE  /\ (n - a + 7) \div 8 \in Nat
         /\ a + 8 * ((n - a + 7) \div 8) - n \in 0 .. 7
OBVIOUS

\* Aligning drops less than a byte.
LEMMA Alignment ==
  ASSUME NEW b \in Nat
  PROVE  /\ b - (b % 8) \in Nat
         /\ (b - (b % 8)) % 8 = 0
         /\ b - (b % 8) <= b
OBVIOUS

\* The fields of the symbol in progress.
LEMMA SymbolTypes ==
  ASSUME SymbolFits
  PROVE  /\ sym.code \in 0 .. 15 /\ sym.lenext \in 0 .. 5
         /\ sym.dist \in 0 .. 15 /\ sym.distext \in 0 .. 13
         /\ sym.length \in Nat /\ sym.distance \in 0 .. WSIZE
BY DEF SymbolFits, Symbol

\* The number of bits a mode asks for is small.
LEMMA NeededBits ==
  ASSUME TypeOK, SymbolFits
  PROVE  Needed \in 0 .. 32
<1>1. Needed \in {0, 3, 14, 16, 32, sym.code, sym.lenext, sym.dist, sym.distext}
  BY DEF Needed
<1> QED
  BY <1>1, SymbolTypes

\* What NEEDBITS and DROPBITS take is what becomes of the stream's position
\* and the accumulator, which is left with less than a byte.
LEMMA Taken ==
  ASSUME TypeOK, HeldIsLess, pc = "run", NEW n \in Nat, n = Needed,
         TakeBits(n)
  PROVE  /\ avail_in' \in 0 .. avail_in /\ bits' \in 0 .. 7 /\ pos' \in Nat
         /\ pos' + bits' = pos + bits + 8 * (avail_in - avail_in')
<1>1. Aligned \in Nat /\ Aligned <= bits /\ avail_in \in Nat /\ pos \in Nat
      /\ bits \in Nat
  BY Alignment DEF TypeOK, Aligned
<1>2. CASE Aligned >= n
  BY <1>1, <1>2 DEF TakeBits, Pulled, Enough, HeldIsLess
<1>3. CASE Aligned < n
  BY <1>1, <1>3, WholeBytes DEF TakeBits, Pulled, Enough
<1> QED
  BY <1>1, <1>2, <1>3

\* INITBITS clears nothing that was not asked for.
LEMMA TakenField ==
  ASSUME TypeOK, HeldIsLess, FieldsAreWhole, pc = "run",
         mode \in Fields \cup {"STORED"}, NEW n \in {16, 32}, n = Needed,
         TakeField(n)
  PROVE  /\ avail_in' \in 0 .. avail_in /\ bits' = 0 /\ pos' \in Nat
         /\ pos' + bits' = pos + bits + 8 * (avail_in - avail_in')
<1>1. Aligned \in Nat /\ Aligned <= bits /\ avail_in \in Nat /\ pos \in Nat
      /\ bits \in Nat /\ Aligned % 8 = 0
  BY Alignment DEF TypeOK, Aligned, FieldsAreWhole, Fields
<1>2. Aligned <= n
  BY <1>1 DEF HeldIsLess
<1>3. Pulled(n) \in Nat /\ Aligned + 8 * Pulled(n) = n
  BY <1>1, <1>2 DEF Pulled
<1> QED
  BY <1>1, <1>3 DEF TakeField, Enough

\* Fields that the flags leave out take nothing, and nothing is held.
LEMMA OptionalField ==
  ASSUME TypeOK, HeldIsLess, FieldsAreWhole, pc = "run", mode \in Fields,
         NEW n \in {0, 16, 32}, n = Needed,
         IF n = 0 THEN UNCHANGED <<avail_in, bits, pos>> ELSE TakeField(n)
  PROVE  /\ avail_in' \in 0 .. avail_in /\ bits' = 0 /\ pos' \in Nat
         /\ pos' + bits' = pos + bits + 8 * (avail_in - avail_in')
<1>1. CASE n = 0
  <2>1. bits = 0
    BY <1>1 DEF TypeOK, HeldIsLess, FieldsAreWhole
  <2> QED
    BY <1>1, <2>1 DEF TypeOK
<1>2. CASE n # 0
  BY <1>2, TakenField
<1> QED
  BY <1>1, <1>2

\* When there is less input than needed, all of it goes into the accumulator,
\* and that is still less than needed.
LEMMA TakenAll ==
  ASSUME TypeOK, HeldIsLess, pc = "run", NEW n \in 0 .. 32, n = Needed,
         ~Enough(n)
  PROVE  /\ Aligned + 8 * avail_in \in 0 .. 31 /\ Aligned + 8 * avail_in < n
         /\ Aligned <= bits
         /\ mode \in Fields /\ FieldsAreWhole => Aligned % 8 = 0
<1>1. Aligned \in Nat /\ Aligned <= bits /\ avail_in \in Nat /\ bits \in Nat
  BY Alignment DEF TypeOK, Aligned
<1>2. Aligned < n
  BY <1>1 DEF Enough, Pulled
<1>3. Aligned + 8 * avail_in < n
  BY <1>1, <1>2 DEF Enough, Pulled
<1>4. mode \in Fields /\ FieldsAreWhole => Aligned % 8 = 0
  BY DEF Fields, FieldsAreWhole, Aligned
<1> QED
  BY <1>1, <1>2, <1>3, <1>4

\* What inflate() decodes next is a symbol, and a valid stream's match reaches
\* back no further than the output does.
LEMMA SymbolsFit ==
  ASSUME TypeOK, NEW behind \in Nat, NextSymbol(behind)
  PROVE  /\ sym' \in Symbol /\ elements' \in Nat
         /\ sym'.code >= 1
         /\ \/ sym'.kind = "literal" /\ sym'.length = 1
            \/ sym'.kind = "end" /\ sym'.length = 0
            \/ sym'.kind = "match" /\ sym'.length \in Lengths
                 /\ sym'.distance >= 1
         /\ sym'.kind # "match" =>
              sym'.lenext = 0 /\ sym'.dist = 0 /\ sym'.distext = 0
         /\ ~Corrupt => sym'.distance <= behind
<1>1. elements' \in Nat
  BY DEF TypeOK, NextSymbol
<1>2. CASE sym' \in EndOfBlock
  <2>1. PICK c \in CodeBits : sym' = [NoSym EXCEPT !.kind = "end", !.code = c]
    BY <1>2 DEF EndOfBlock
  <2>2. sym' = [kind |-> "end", code |-> c, lenext |-> 0, dist |-> 0,
                distext |-> 0, length |-> 0, distance |-> 0]
    BY <2>1 DEF NoSym
  <2> QED
    BY <1>1, <2>2, CodeAssumption, SizeAssumption DEF Symbol
<1>3. CASE sym' \in Literals
  <2>1. PICK c \in CodeBits :
          sym' = [NoSym EXCEPT !.kind = "literal", !.code = c, !.length = 1]
    BY <1>3 DEF Literals
  <2>2. sym' = [kind |-> "literal", code |-> c, lenext |-> 0, dist |-> 0,
                distext |-> 0, length |-> 1, distance |-> 0]
    BY <2>1 DEF NoSym
  <2> QED
    BY <1>1, <2>2, CodeAssumption, SizeAssumption DEF Symbol
<1>4. CASE sym' \in Matches(behind)
  BY <1>1, <1>4, CodeAssumption, SizeAssumption, FormatAssumption
     DEF Matches, Symbol, MIN
<1> QED
  BY <1>2, <1>3, <1>4 DEF NextSymbol

\* The same of the code lengths.
LEMMA CodeLengthsFit ==
  ASSUME NEW n \in Nat, NextCodeLength(n)
  PROVE  sym' \in Symbol /\ sym'.code >= 1 /\ sym'.length \in 1 .. NLEN - n
<1>1. PICK c \in CodeBits, l \in 1 .. NLEN - n :
        sym' = [NoSym EXCEPT !.kind = "lengths", !.code = c, !.length = l]
  BY Zenon DEF NextCodeLength
<1>2. sym' = [kind |-> "lengths", code |-> c, lenext |-> 0, dist |-> 0,
              distext |-> 0, length |-> l, distance |-> 0]
  BY <1>1 DEF NoSym
<1> QED
  BY <1>1, <1>2, CodeAssumption, SizeAssumption DEF Symbol

\* updatewindow() keeps the window in order.
LEMMA WindowUpdated ==
  ASSUME TypeOK, WindowInOrder, NEW copy \in Nat, updatewindow(copy),
         total' = total + copy, mode' = mode
  PROVE  /\ wsize' \in {0, WSIZE} /\ whave' \in 0 .. WSIZE
         /\ wnext' \in 0 .. WSIZE - 1 /\ window' \in [0 .. WSIZE - 1 -> Int]
         /\ WindowInOrder'
<1> DEFINE dist == MIN(WSIZE - wnext, copy)
           rest == copy - dist
<1>1. /\ WSIZE \in Nat \ {0} /\ wnext \in 0 .. WSIZE - 1
      /\ whave \in 0 .. WSIZE /\ total \in Nat
      /\ window \in [0 .. WSIZE - 1 -> Int]
  BY SizeAssumption DEF TypeOK
<1>2. CASE copy >= WSIZE
  BY <1>1, <1>2 DEF updatewindow, WindowInOrder, Ending, MIN
<1>3. CASE copy < WSIZE /\ rest > 0
  <2>1. /\ wnext' = rest /\ whave' = WSIZE /\ wsize' = WSIZE
        /\ dist = WSIZE - wnext /\ rest = copy + wnext - WSIZE
        /\ rest \in 1 .. wnext /\ rest < WSIZE
    BY <1>1, <1>3 DEF updatewindow, MIN
  <2>2. window' = [i \in 0 .. WSIZE - 1 |->
                     IF i \in wnext .. wnext + dist - 1
                       THEN (total + copy) - copy + (i - wnext)
                     ELSE IF i < rest THEN (total + copy) - rest + i
                     ELSE window[i]]
    <3>1. ~(copy >= WSIZE)
      BY <1>1, <1>3
    <3> QED
      BY <3>1, Zenon DEF updatewindow
  <2> HIDE DEF dist, rest
  <2>3. ASSUME NEW i \in 0 .. WSIZE - 1
        PROVE  window'[i] = IF i >= wnext THEN total + i - wnext
                            ELSE IF i < rest THEN total + copy - rest + i
                            ELSE window[i]
    BY <1>1, <2>1, <2>2
  <2>4. window' \in [0 .. WSIZE - 1 -> Int]
    BY <1>1, <2>1, <2>2
  <2>5. ~Ending => total + copy >= WSIZE
    BY <1>1, <2>1 DEF WindowInOrder, MIN
  <2>6. ASSUME ~Ending, NEW i \in 0 .. WSIZE - 1
        PROVE  /\ i < rest => window'[i] = total + copy - rest + i
               /\ i >= rest => window'[i] = total + copy - rest - WSIZE + i
    <3>1. i < wnext => window[i] = total - wnext + i
      BY <2>6 DEF WindowInOrder
    <3> QED
      BY <1>1, <2>1, <2>3, <3>1
  <2> QED
    BY <1>1, <2>1, <2>4, <2>5, <2>6 DEF WindowInOrder, Ending, MIN
<1>4. CASE copy < WSIZE /\ ~(rest > 0)
  <2>1. /\ dist = copy /\ rest = 0 /\ wnext + copy <= WSIZE
        /\ wnext' = (IF wnext + copy = WSIZE THEN 0 ELSE wnext + copy)
        /\ whave' = (IF whave < WSIZE THEN whave + copy ELSE whave)
        /\ wsize' = WSIZE
    BY <1>1, <1>4 DEF updatewindow, MIN
  <2>2. window' = [i \in 0 .. WSIZE - 1 |->
                     IF i \in wnext .. wnext + dist - 1
                       THEN (total + copy) - copy + (i - wnext)
                     ELSE IF i < rest THEN (total + copy) - rest + i
                     ELSE window[i]]
    <3>1. ~(copy >= WSIZE)
      BY <1>1, <1>4
    <3> QED
      BY <3>1, Zenon DEF updatewindow
  <2> HIDE DEF dist, rest
  <2>3. ASSUME NEW i \in 0 .. WSIZE - 1
        PROVE  window'[i] = IF i >= wnext /\ i < wnext + copy
                              THEN total + i - wnext ELSE window[i]
    BY <1>1, <2>1, <2>2
  <2>4. window' \in [0 .. WSIZE - 1 -> Int]
    BY <1>1, <2>1, <2>2
  <2>5. whave' \in 0 .. WSIZE /\ (whave' < WSIZE => wnext' = whave')
        /\ wnext' \in 0 .. WSIZE - 1
    BY <1>1, <2>1 DEF WindowInOrder
  <2>6. ~Ending => whave' = MIN(total + copy, WSIZE)
    BY <1>1, <2>1 DEF WindowInOrder, MIN
  <2>7. ASSUME ~Ending, NEW i \in 0 .. WSIZE - 1
        PROVE  /\ i < wnext' => window'[i] = total + copy - wnext' + i
               /\ i >= wnext' /\ whave' = WSIZE =>
                    window'[i] = total + copy - wnext' - WSIZE + i
    <3>1. /\ i < wnext => window[i] = total - wnext + i
          /\ i >= wnext /\ whave = WSIZE =>
               window[i] = total - wnext - WSIZE + i
          /\ whave < WSIZE => wnext = whave
      BY <2>7 DEF WindowInOrder
    <3> QED
      BY <1>1, <2>1, <2>3, <3>1
  <2> QED
    BY <1>1, <2>1, <2>4, <2>5, <2>6, <2>7 DEF WindowInOrder, Ending, MIN
<1> QED
  BY <1>1, <1>2, <1>3, <1>4

\* inf_leave: the totals, the window and the end of the call.
LEMMA Left ==
  ASSUME TypeOK, WindowInOrder, CallInProgress, pc = "run", mode' = mode,
         NEW r \in {"OK", "STREAM_END", "DATA_ERROR"}, Leave(r),
         avail_in' \in Nat, in_used - avail_in' \in Nat
  PROVE  /\ wsize' \in {0, WSIZE} /\ whave' \in 0 .. WSIZE
         /\ wnext' \in 0 .. WSIZE - 1 /\ window' \in [0 .. WSIZE - 1 -> Int]
         /\ WindowInOrder'
         /\ avail_out' = avail_out /\ in' = in /\ out' = out
         /\ total' = total + (out - avail_out) /\ out - avail_out \in Nat
         /\ in_used' = in_used - avail_in'
         /\ pc' \in {"idle", "abort"}
         /\ ret' \in {"OK", "STREAM_END", "DATA_ERROR", "BUF_ERROR"}
<1>1. out - avail_out \in Nat
  BY DEF TypeOK, CallInProgress
<1>2. CASE wsize # 0 \/ (out # avail_out /\ mode # "BAD")
  BY <1>1, <1>2, WindowUpdated DEF Leave, Return
<1>3. CASE ~(wsize # 0 \/ (out # avail_out /\ mode # "BAD"))
  <2>1. UNCHANGED <<wsize, whave, wnext, window>>
    BY <1>3 DEF Leave, circular
  <2>2. ~Ending => out - avail_out = 0
    BY <1>3, <1>1 DEF Ending, TypeOK, WindowInOrder
  <2>3. total' = total + (out - avail_out) /\ total \in Nat
    BY DEF Leave, TypeOK
  <2>4. WindowInOrder'
    <3>1. ~Ending => total' = total
      BY <2>2, <2>3, <1>1
    <3> QED
      BY <3>1, <2>1 DEF WindowInOrder, Ending
  <2> QED
    BY <1>1, <2>1, <2>3, <2>4 DEF Leave, Return, TypeOK
<1> QED
  BY <1>2, <1>3

\* Bits that go from the input through the accumulator to the position.
LEMMA InputKept ==
  ASSUME TypeOK, BitsAccounted, pc \in {"run", "fast"},
         pc' \in {"run", "fast"}, in_used' = in_used,
         avail_in' \in Nat, bits' \in Nat, pos' \in Nat,
         pos' + bits' = pos + bits + 8 * (avail_in - avail_in')
  PROVE  BitsAccounted'
<1>1. avail_in \in Nat /\ bits \in Nat /\ pos \in Nat /\ in_used \in Nat
  BY DEF TypeOK
<1>2. 8 * (in_used - avail_in) - bits = pos
  BY DEF BitsAccounted, Consumed, Dead
<1>3. \A a, b, p \in Nat : p + b = pos + bits + 8 * (avail_in - a) =>
                            8 * (in_used - a) - b = p
  BY <1>1, <1>2
<1>4. 8 * (in_used' - avail_in') - bits' = pos'
  BY <1>3, Zenon
<1> QED
  BY <1>4 DEF BitsAccounted, Consumed, Dead

\* A step of the mode switch that takes bits and leaves less than a byte.
LEMMA BitsTaken ==
  ASSUME TypeOK, BitsAccounted, pc = "run", pc' = "run", in_used' = in_used,
         avail_in' \in 0 .. avail_in, bits' \in 0 .. 7, pos' \in Nat,
         pos' + bits' = pos + bits + 8 * (avail_in - avail_in'),
         mode' \in Fields => bits' = 0
  PROVE  BitsAccounted' /\ HeldIsLess' /\ FieldsAreWhole'
<1>1. BitsAccounted'
  <2>1. avail_in' \in Nat /\ bits' \in Nat
    OBVIOUS
  <2> QED
    BY <2>1, InputKept
<1>2. HeldIsLess'
  BY DEF HeldIsLess
<1>3. FieldsAreWhole'
  BY DEF FieldsAreWhole
<1> QED
  BY <1>1, <1>2, <1>3

\* A step of the mode switch that stays within the spans.
LEMMA CallGoesOn ==
  ASSUME TypeOK, CallInProgress, pc = "run", pc' = "run",
         in' = in, out' = out, avail_in' \in 0 .. avail_in,
         avail_out' \in 0 .. avail_out, mode' \notin {"LENGTH", "DONE"}
  PROVE  CallInProgress'
BY DEF TypeOK, CallInProgress

\* A step of the mode switch that takes no bits.
LEMMA BitsKept ==
  ASSUME TypeOK, BitsAccounted, HeldIsLess, pc = "run", pc' = "run",
         Needed = 0, UNCHANGED <<in_used, avail_in, bits, pos>>,
         mode' \notin Fields
  PROVE  BitsAccounted' /\ HeldIsLess' /\ FieldsAreWhole'
<1>1. bits \in 0 .. 7
  BY DEF TypeOK, HeldIsLess
<1>2. /\ avail_in' \in 0 .. avail_in /\ pos' \in Nat
      /\ pos' + bits' = pos + bits + 8 * (avail_in - avail_in')
  BY DEF TypeOK
<1> QED
  BY <1>1, <1>2, BitsTaken

\* What a call has taken is part of what the caller passed.
LEMMA InputUsed ==
  ASSUME TypeOK, BitsAccounted, pc \in {"run", "fast"}
  PROVE  in_used - avail_in \in Nat
BY DEF TypeOK, BitsAccounted, Consumed, Dead

\* The account of the output while a call runs.
LEMMA OutputSoFar ==
  ASSUME OutputAccounted, mode # "BAD", pc \in {"run", "fast"}
  PROVE  total + (out - avail_out) + Remaining = due
BY DEF OutputAccounted, Dead

\* The spans of a running call.
LEMMA Spans ==
  ASSUME TypeOK, CallInProgress, pc \in {"run", "fast"}
  PROVE  /\ avail_in \in 0 .. in /\ avail_out \in 0 .. out
         /\ out - avail_out \in Nat
BY DEF TypeOK, CallInProgress

\* A match is copied piece by piece.
LEMMA CopyFits ==
  ASSUME TypeOK, CallInProgress, pc = "run", Back <= whave
  PROVE  CopyLength \in 0 .. length /\ CopyLength <= avail_out
BY Spans DEF TypeOK, Back, CopyLength, MIN

\* What a mode needs does not change while the stream's element stays.
LEMMA NeededKept ==
  ASSUME UNCHANGED <<mode, flags, last, nread, sym, wrap>>
  PROVE  Needed' = Needed
BY DEF Needed

\* A call that ends has taken what the position and the accumulator show, ...
LEMMA CallEndsBits ==
  ASSUME TypeOK, BitsAccounted, pc = "run", pc' \in {"idle", "abort"},
         in_used' = in_used - avail_in', avail_in' \in Nat, bits' \in Nat,
         pos' \in Nat,
         pos' + bits' = pos + bits + 8 * (avail_in - avail_in')
  PROVE  BitsAccounted'
<1>1. avail_in \in Nat /\ bits \in Nat /\ pos \in Nat /\ in_used \in Nat
  BY DEF TypeOK
<1>2. 8 * (in_used - avail_in) - bits = pos
  BY DEF BitsAccounted, Consumed, Dead
<1>3. \A a, b, p \in Nat : p + b = pos + bits + 8 * (avail_in - a) =>
                            8 * (in_used - a) - b = p
  BY <1>1, <1>2
<1>4. 8 * (in_used - avail_in') - bits' = pos'
  BY <1>3, Zenon
<1> QED
  BY <1>4 DEF BitsAccounted, Consumed, Dead

\* ... and leaves the element it could not finish to the next one.
LEMMA CallEnds ==
  ASSUME IndInv, pc = "run", NEW r \in {"OK", "STREAM_END", "DATA_ERROR"},
         Leave(r), UNCHANGED <<mode, last, offset, nread, flags, wrap, sym,
                               elements, due>>,
         length' \in Nat, length' # length => mode = "EXTRA",
         avail_in' \in 0 .. avail_in, bits' \in 0 .. 31, pos' \in Nat,
         pc' \in {"idle", "abort"} /\ in_used' = in_used - avail_in' =>
           BitsAccounted',
         HeldIsLess', FieldsAreWhole',
         mode = "DONE" \/ (mode = "LENGTH" /\ wrap = "zlib") => bits' = 0
  PROVE  IndInv'
<1>1. /\ TypeOK /\ BitsAccounted /\ OutputAccounted /\ ValidAccepted
      /\ SymbolFits /\ ReachesOutput /\ WindowInOrder /\ CallInProgress
  BY DEF IndInv, Phases
<1>2. avail_in' \in Nat /\ in_used - avail_in' \in Nat
  <2>1. in_used - avail_in \in Nat /\ avail_in \in Nat /\ in_used \in Nat
    BY <1>1, InputUsed DEF TypeOK
  <2>2. \A a \in 0 .. avail_in : a \in Nat /\ in_used - a \in Nat
    BY <2>1
  <2> QED
    BY <2>2, Zenon
<1>3. /\ wsize' \in {0, WSIZE} /\ whave' \in 0 .. WSIZE
      /\ wnext' \in 0 .. WSIZE - 1 /\ window' \in [0 .. WSIZE - 1 -> Int]
      /\ WindowInOrder'
      /\ avail_out' = avail_out /\ in' = in /\ out' = out
      /\ total' = total + (out - avail_out) /\ out - avail_out \in Nat
      /\ in_used' = in_used - avail_in'
      /\ pc' \in {"idle", "abort"}
      /\ ret' \in {"OK", "STREAM_END", "DATA_ERROR", "BUF_ERROR"}
  BY <1>1, <1>2, Left
<1>4. TypeOK'
  <2>1. /\ mode' = mode /\ last' = last /\ offset' = offset /\ nread' = nread
        /\ flags' = flags /\ wrap' = wrap /\ elements' = elements
        /\ due' = due /\ sym' = sym
    OBVIOUS
  <2>2. total' \in Nat
    <3>1. total \in Nat
      BY <1>1 DEF TypeOK
    <3> QED
      BY <1>3, <3>1
  <2>3. in_used' \in Nat
    BY <1>2, <1>3
  <2>4. bits' \in 0 .. 47
    OBVIOUS
  <2> QED
    BY <1>1, <1>2, <1>3, <2>1, <2>2, <2>3, <2>4 DEF TypeOK
<1>5. BitsAccounted'
  BY <1>3
<1>6. OutputAccounted'
  <2>1. mode # "BAD" => total + (out - avail_out) + Remaining = due
    BY <1>1, OutputSoFar
  <2>2. mode # "EXTRA" => length' = length
    OBVIOUS
  <2>3. Remaining' = Remaining
    BY <2>2 DEF Remaining
  <2>4. mode # "BAD" => total' + Remaining' = due'
    BY <1>3, <2>1, <2>3
  <2> QED
    BY <1>3, <2>4 DEF OutputAccounted, Dead
<1>7. SymbolFits'
  BY <1>1 DEF SymbolFits
<1>8. ReachesOutput' /\ ValidAccepted'
  <2>1. mode # "EXTRA" => length' = length
    OBVIOUS
  <2> QED
    BY <1>1, <2>1 DEF ReachesOutput, ValidAccepted
<1>9. CallInProgress'
  BY <1>3 DEF CallInProgress
<1> QED
  BY <1>3, <1>4, <1>5, <1>6, <1>7, <1>8, <1>9 DEF IndInv, Phases

\* A mode that asks for nothing finds less than a byte held.
LEMMA LittleHeld ==
  ASSUME TypeOK, HeldIsLess, pc # "fast", Needed = 0
  PROVE  bits \in 0 .. 7
<1>1. bits \in 0 .. 47
  BY DEF TypeOK
<1>2. bits <= 7 \/ bits < 0
  BY DEF HeldIsLess
<1> QED
  BY <1>1, <1>2

\* The extra bits of a length or distance are pulled by single bytes.
LEMMA Refilled ==
  ASSUME NEW a \in 0 .. 30, NEW k \in 0 .. 13
  PROVE  /\ Refill(a, k) \in {0, 1, 2}
         /\ a + 8 * Refill(a, k) - k \in 0 .. 30
         /\ a <= 29 => a + 8 * Refill(a, k) - k <= 29
         /\ Refill(a, k) = 2 => a + 8 < k
BY DEF Refill

\* Headers: whole bytes, read with the accumulator empty in between.
LEMMA HeadersKeepInv ==
  ASSUME IndInv, Head \/ Flags \/ HeaderField \/ ExtraLength \/ Extra \/
         String \/ NeedDict
  PROVE  IndInv'
<1>0. /\ TypeOK /\ BitsAccounted /\ OutputAccounted /\ ValidAccepted
      /\ HeldIsLess /\ SymbolFits /\ ReachesOutput /\ WindowInOrder
      /\ FieldsAreWhole /\ CallInProgress
  BY DEF IndInv, Phases
<1> USE <1>0
<1>1. CASE Head
  <2>1. pc = "run" /\ mode \in Fields /\ 16 = Needed /\ TakeField(16)
    BY <1>1 DEF Head, Needed, Fields
  <2>2. avail_in' \in 0 .. avail_in /\ bits' = 0 /\ pos' \in Nat
    BY <2>1, TakenField
  <2>3. pos' + bits' = pos + bits + 8 * (avail_in - avail_in')
    BY <2>1, TakenField
  <2>4. pc' = "run" /\ in_used' = in_used
    BY <1>1 DEF Head, Proceed
  <2>5. BitsAccounted' /\ HeldIsLess' /\ FieldsAreWhole'
    BY <2>1, <2>2, <2>3, <2>4, BitsTaken
  <2>6. TypeOK'
    BY <1>1, <2>2 DEF TypeOK, Head, Proceed, Reject, counts, circular
  <2>7. OutputAccounted'
    BY <1>1, <2>2
       DEF OutputAccounted, TypeOK, Remaining, Dead, SymbolFits, Head, Proceed,
           Reject, counts, circular
  <2>8. ReachesOutput' /\ ValidAccepted'
    BY <1>1, <2>2, SymbolTypes
       DEF ReachesOutput, ValidAccepted, TypeOK, SymbolFits, Head, Proceed,
           Reject, counts, circular
  <2>9. SymbolFits'
    BY <1>1, <2>2, SizeAssumption, SymbolTypes
       DEF SymbolFits, TypeOK, Head, Proceed, Reject, counts, circular
  <2>10. WindowInOrder'
    BY <1>1, <2>2
       DEF WindowInOrder, Ending, TypeOK, Head, Proceed, Reject, counts,
           circular
  <2>11. CallInProgress'
    BY <1>1, <2>1, <2>2, <2>4, CallGoesOn
       DEF TypeOK, Head, Proceed, Reject, counts, circular
  <2> QED
    BY <2>5, <2>6, <2>7, <2>8, <2>9, <2>10, <2>11 DEF IndInv, Phases
<1>2. CASE Flags
  <2>1. pc = "run" /\ mode \in Fields /\ 16 = Needed /\ TakeField(16)
    BY <1>2 DEF Flags, Needed, Fields
  <2>2. avail_in' \in 0 .. avail_in /\ bits' = 0 /\ pos' \in Nat
    BY <2>1, TakenField
  <2>3. pos' + bits' = pos + bits + 8 * (avail_in - avail_in')
    BY <2>1, TakenField
  <2>4. pc' = "run" /\ in_used' = in_used
    BY <1>2 DEF Flags, Proceed
  <2>5. BitsAccounted' /\ HeldIsLess' /\ FieldsAreWhole'
    BY <2>1, <2>2, <2>3, <2>4, BitsTaken
  <2>6. TypeOK'
    BY <1>2, <2>2 DEF TypeOK, Flags, Proceed, Reject, counts, circular
  <2>7. OutputAccounted'
    BY <1>2, <2>2
       DEF OutputAccounted, TypeOK, Remaining, Dead, SymbolFits, Flags,
           Proceed, Reject, counts, circular
  <2>8. ReachesOutput' /\ ValidAccepted'
    BY <1>2, <2>2, SymbolTypes
       DEF ReachesOutput, ValidAccepted, TypeOK, SymbolFits, Flags, Proceed,
           Reject, counts, circular
  <2>9. SymbolFits'
    BY <1>2, <2>2, SizeAssumption, SymbolTypes
       DEF SymbolFits, TypeOK, Flags, Proceed, Reject, counts, circular
  <2>10. WindowInOrder'
    BY <1>2, <2>2
       DEF WindowInOrder, Ending, TypeOK, Flags, Proceed, Reject, counts,
           circular
  <2>11. CallInProgress'
    BY <1>2, <2>1, <2>2, <2>4, CallGoesOn
       DEF TypeOK, Flags, Proceed, Reject, counts, circular
  <2> QED
    BY <2>5, <2>6, <2>7, <2>8, <2>9, <2>10, <2>11 DEF IndInv, Phases
<1>3. CASE HeaderField
  <2>1. pc = "run" /\ mode \in Fields /\ Needed \in {0, 16, 32}
        /\ IF Needed = 0 THEN UNCHANGED <<avail_in, bits, pos>>
                           ELSE TakeField(Needed)
    BY <1>3 DEF HeaderField, Needed, Fields
  <2>2. avail_in' \in 0 .. avail_in /\ bits' = 0 /\ pos' \in Nat
    BY <2>1, OptionalField
  <2>3. pos' + bits' = pos + bits + 8 * (avail_in - avail_in')
    BY <2>1, OptionalField
  <2>4. pc' = "run" /\ in_used' = in_used
    BY <1>3 DEF HeaderField, Proceed
  <2>5. BitsAccounted' /\ HeldIsLess' /\ FieldsAreWhole'
    BY <2>1, <2>2, <2>3, <2>4, BitsTaken
  <2>6. TypeOK'
    <3>1. /\ mode' \in {"OS", "EXLEN", "TYPE", "BAD", "DICT"} /\ pc' = "run"
          /\ UNCHANGED <<avail_out, in_used, last, total, in, out, sym, elements,
                         due, ret, flags, wrap, length, offset, nread, wsize,
                         whave, wnext, window>>
      BY <1>3 DEF HeaderField, Proceed, Reject, counts, circular
    <3> QED
      BY <2>2, <3>1 DEF TypeOK
  <2>7. OutputAccounted'
    BY <1>3, <2>2
       DEF OutputAccounted, TypeOK, Remaining, Dead, SymbolFits, HeaderField,
           Proceed, Reject, counts, circular
  <2>8. ReachesOutput' /\ ValidAccepted'
    BY <1>3, <2>2, SymbolTypes
       DEF ReachesOutput, ValidAccepted, TypeOK, SymbolFits, HeaderField,
           Proceed, Reject, counts, circular
  <2>9. SymbolFits'
    BY <1>3, <2>2, SizeAssumption, SymbolTypes
       DEF SymbolFits, TypeOK, HeaderField, Proceed, Reject, counts, circular
  <2>10. WindowInOrder'
    BY <1>3, <2>2
       DEF WindowInOrder, Ending, TypeOK, HeaderField, Proceed, Reject, counts,
           circular
  <2>11. CallInProgress'
    <3>1. /\ mode' \notin {"LENGTH", "DONE"} /\ in' = in /\ out' = out
          /\ avail_out' \in 0 .. avail_out
      BY <1>3 DEF TypeOK, HeaderField, Proceed, Reject, counts, circular
    <3> QED
      BY <2>1, <2>2, <2>4, <3>1, CallGoesOn DEF IndInv, Phases
  <2> QED
    BY <2>5, <2>6, <2>7, <2>8, <2>9, <2>10, <2>11 DEF IndInv, Phases
<1>4. CASE ExtraLength
  <2>1. pc = "run" /\ mode \in Fields /\ Needed \in {0, 16, 32}
        /\ IF Needed = 0 THEN UNCHANGED <<avail_in, bits, pos>>
                           ELSE TakeField(Needed)
    BY <1>4 DEF ExtraLength, Needed, Fields
  <2>2. avail_in' \in 0 .. avail_in /\ bits' = 0 /\ pos' \in Nat
    BY <2>1, OptionalField
  <2>3. pos' + bits' = pos + bits + 8 * (avail_in - avail_in')
    BY <2>1, OptionalField
  <2>4. pc' = "run" /\ in_used' = in_used
    BY <1>4 DEF ExtraLength, Proceed
  <2>5. BitsAccounted' /\ HeldIsLess' /\ FieldsAreWhole'
    BY <2>1, <2>2, <2>3, <2>4, BitsTaken
  <2>6. TypeOK'
    BY <1>4, <2>2 DEF TypeOK, ExtraLength, Proceed, Reject, counts, circular
  <2>7. OutputAccounted'
    BY <1>4, <2>2
       DEF OutputAccounted, TypeOK, Remaining, Dead, SymbolFits, ExtraLength,
           Proceed, Reject, counts, circular
  <2>8. ReachesOutput' /\ ValidAccepted'
    BY <1>4, <2>2, SymbolTypes
       DEF ReachesOutput, ValidAccepted, TypeOK, SymbolFits, ExtraLength,
           Proceed, Reject, counts, circular
  <2>9. SymbolFits'
    BY <1>4, <2>2, SizeAssumption, SymbolTypes
       DEF SymbolFits, TypeOK, ExtraLength, Proceed, Reject, counts, circular
  <2>10. WindowInOrder'
    BY <1>4, <2>2
       DEF WindowInOrder, Ending, TypeOK, ExtraLength, Proceed, Reject, counts,
           circular
  <2>11. CallInProgress'
    BY <1>4, <2>1, <2>2, <2>4, CallGoesOn
       DEF TypeOK, ExtraLength, Proceed, Reject, counts, circular
  <2> QED
    BY <2>5, <2>6, <2>7, <2>8, <2>9, <2>10, <2>11 DEF IndInv, Phases
<1>5. CASE Extra
  <2> DEFINE copy == IF "EXTRA" \in flags THEN MIN(length, avail_in) ELSE 0
  <2>1. /\ pc = "run" /\ mode = "EXTRA"
        /\ avail_in' = avail_in - copy /\ pos' = pos + 8 * copy
        /\ UNCHANGED <<bits, offset, nread, flags, wrap>>
        /\ \/ /\ copy < length /\ length' = length - copy /\ Leave("OK")
              /\ UNCHANGED <<mode, last, sym, elements, due>>
           \/ length' = 0 /\ Proceed("NAME")
    BY <1>5 DEF Extra
  <2>2. copy \in 0 .. avail_in /\ avail_in \in Nat /\ pos \in Nat
        /\ length \in Nat
    BY DEF TypeOK, MIN
  <2>3. bits = 0
    <3>1. bits % 8 = 0 /\ Needed = 0
      BY <2>1 DEF FieldsAreWhole, Fields, Needed
    <3>2. bits \in 0 .. 7
      BY <2>1, <3>1, LittleHeld
    <3> QED
      BY <3>1, <3>2
  <2> HIDE DEF copy
  <2>4. /\ avail_in' \in 0 .. avail_in /\ avail_in' \in Nat /\ pos' \in Nat
        /\ bits' = 0
    <3>1. \A c \in 0 .. avail_in : /\ avail_in - c \in 0 .. avail_in
                                   /\ avail_in - c \in Nat /\ pos + 8 * c \in Nat
      BY <2>2
    <3> QED
      BY <2>1, <2>2, <2>3, <3>1
  <2>5. pos' + bits' = pos + bits + 8 * (avail_in - avail_in')
    <3>1. \A c \in 0 .. avail_in :
            (pos + 8 * c) + 0 = pos + 0 + 8 * (avail_in - (avail_in - c))
      BY <2>2
    <3> QED
      BY <2>1, <2>2, <2>3, <3>1
  <2>6. CASE /\ copy < length /\ length' = length - copy /\ Leave("OK")
             /\ UNCHANGED <<mode, last, sym, elements, due>>
    <3>1. bits' \in 0 .. 31 /\ bits' \in Nat
      BY <2>4
    <3>2. pc' \in {"idle", "abort"} /\ in_used' = in_used - avail_in' =>
            BitsAccounted'
      BY <2>1, <2>4, <2>5, <3>1, CallEndsBits
    <3>3. HeldIsLess' /\ FieldsAreWhole'
      BY <2>4 DEF HeldIsLess, FieldsAreWhole
    <3>4. length' \in Nat
      <4>1. \A c \in 0 .. avail_in : c < length => length - c \in Nat
        BY <2>2
      <4> QED
        BY <2>2, <2>6, <4>1
    <3> QED
      BY <2>1, <2>4, <2>6, <3>1, <3>2, <3>3, <3>4, CallEnds
  <2>7. CASE length' = 0 /\ Proceed("NAME")
    <3>1. /\ pc' = "run" /\ mode' = "NAME" /\ length' = 0
          /\ UNCHANGED <<avail_out, in_used, last, total, circular, in, out, sym,
                         elements, due, ret>>
      BY <2>1, <2>7 DEF Proceed
    <3>2. BitsAccounted' /\ HeldIsLess' /\ FieldsAreWhole'
      <4>1. bits' \in 0 .. 7
        BY <2>4
      <4> QED
        BY <2>1, <2>4, <2>5, <3>1, <4>1, BitsTaken
    <3>3. TypeOK'
      <4>1. bits' \in 0 .. 47
        BY <2>4
      <4> QED
        BY <2>1, <2>4, <3>1, <4>1 DEF TypeOK, circular
    <3>4. OutputAccounted'
      BY <2>1, <3>1 DEF OutputAccounted, Remaining, Dead
    <3>5. ReachesOutput' /\ ValidAccepted' /\ SymbolFits'
      BY <2>1, <3>1 DEF ReachesOutput, ValidAccepted, SymbolFits
    <3>6. WindowInOrder'
      BY <2>1, <3>1 DEF WindowInOrder, Ending, circular
    <3>7. CallInProgress'
      BY <2>1, <2>4, <3>1, CallGoesOn DEF TypeOK
    <3> QED
      BY <3>2, <3>3, <3>4, <3>5, <3>6, <3>7 DEF IndInv, Phases
  <2> QED
    BY <2>1, <2>6, <2>7
<1>6. CASE String
  <2>1. /\ pc = "run" /\ mode \in {"NAME", "COMMENT"}
        /\ UNCHANGED <<bits, length, offset, nread, flags, wrap>>
    BY <1>6 DEF String, counts
  <2>2. avail_in \in Nat /\ pos \in Nat /\ length = 0
    BY <2>1 DEF TypeOK, SymbolFits
  <2>3. PICK k \in 0 .. avail_in :
          /\ avail_in' = avail_in - k /\ pos' = pos + 8 * k
          /\ \/ Leave("OK") /\ UNCHANGED <<mode, last, sym, elements, due>>
             \/ \E next \in {"COMMENT", "HCRC"} : Proceed(next)
    <3>1. CASE /\ avail_in' = 0 /\ pos' = pos + 8 * avail_in /\ Leave("OK")
               /\ UNCHANGED <<mode, last, sym, elements, due>>
      <4>1. avail_in' = avail_in - avail_in /\ avail_in \in 0 .. avail_in
        BY <2>2, <3>1
      <4> QED
        BY <3>1, <4>1
    <3>2. CASE \E k \in 1 .. avail_in :
                 /\ avail_in' = avail_in - k /\ pos' = pos + 8 * k
                 /\ Proceed(IF mode = "NAME" THEN "COMMENT" ELSE "HCRC")
      <4>1. PICK k \in 1 .. avail_in :
                 /\ avail_in' = avail_in - k /\ pos' = pos + 8 * k
                 /\ Proceed(IF mode = "NAME" THEN "COMMENT" ELSE "HCRC")
        BY <3>2
      <4>2. k \in 0 .. avail_in
        BY <2>2
      <4> QED
        BY <4>1, <4>2
    <3>3. CASE /\ Proceed(IF mode = "NAME" THEN "COMMENT" ELSE "HCRC")
               /\ UNCHANGED <<avail_in, pos>>
      <4>1. /\ avail_in' = avail_in - 0 /\ pos' = pos + 8 * 0
            /\ 0 \in 0 .. avail_in
        BY <2>2, <3>3
      <4> QED
        BY <3>3, <4>1
    <3> QED
      BY <1>6, <3>1, <3>2, <3>3 DEF String
  <2>4. bits = 0
    <3>1. bits % 8 = 0 /\ Needed = 0
      BY <2>1 DEF FieldsAreWhole, Fields, Needed
    <3>2. bits \in 0 .. 7
      BY <2>1, <3>1, LittleHeld
    <3> QED
      BY <3>1, <3>2
  <2>5. /\ avail_in' \in 0 .. avail_in /\ avail_in' \in Nat /\ pos' \in Nat
        /\ bits' = 0
    <3>1. \A c \in 0 .. avail_in : /\ avail_in - c \in 0 .. avail_in
                                   /\ avail_in - c \in Nat /\ pos + 8 * c \in Nat
      BY <2>2
    <3> QED
      BY <2>1, <2>3, <2>4, <3>1
  <2>6. pos' + bits' = pos + bits + 8 * (avail_in - avail_in')
    <3>1. \A c \in 0 .. avail_in :
            (pos + 8 * c) + 0 = pos + 0 + 8 * (avail_in - (avail_in - c))
      BY <2>2
    <3> QED
      BY <2>1, <2>3, <2>4, <3>1
  <2>7. CASE Leave("OK") /\ UNCHANGED <<mode, last, sym, elements, due>>
    <3>1. bits' \in 0 .. 31 /\ bits' \in Nat
      BY <2>5
    <3>2. pc' \in {"idle", "abort"} /\ in_used' = in_used - avail_in' =>
            BitsAccounted'
      BY <2>1, <2>5, <2>6, <3>1, CallEndsBits
    <3>3. HeldIsLess' /\ FieldsAreWhole'
      BY <2>5 DEF HeldIsLess, FieldsAreWhole
    <3>4. length' \in Nat
      BY <2>1, <2>2
    <3> QED
      BY <2>1, <2>5, <2>7, <3>1, <3>2, <3>3, <3>4, CallEnds
  <2>8. CASE \E next \in {"COMMENT", "HCRC"} : Proceed(next)
    <3>1. /\ pc' = "run" /\ mode' \in {"COMMENT", "HCRC"}
          /\ UNCHANGED <<avail_out, in_used, last, total, circular, in, out, sym,
                         elements, due, ret>>
      BY <2>1, <2>8 DEF Proceed
    <3>2. BitsAccounted' /\ HeldIsLess' /\ FieldsAreWhole'
      <4>1. bits' \in 0 .. 7
        BY <2>5
      <4> QED
        BY <2>1, <2>5, <2>6, <3>1, <4>1, BitsTaken
    <3>3. TypeOK'
      <4>1. bits' \in 0 .. 47
        BY <2>5
      <4> QED
        BY <2>1, <2>5, <3>1, <4>1 DEF TypeOK, circular
    <3>4. OutputAccounted'
      BY <2>1, <3>1 DEF OutputAccounted, Remaining, Dead
    <3>5. ReachesOutput' /\ ValidAccepted' /\ SymbolFits'
      BY <2>1, <2>2, <3>1 DEF ReachesOutput, ValidAccepted, SymbolFits
    <3>6. WindowInOrder'
      BY <2>1, <3>1 DEF WindowInOrder, Ending, circular
    <3>7. CallInProgress'
      BY <2>1, <2>5, <3>1, CallGoesOn DEF TypeOK
    <3> QED
      BY <3>2, <3>3, <3>4, <3>5, <3>6, <3>7 DEF IndInv, Phases
  <2> QED
    BY <2>3, <2>7, <2>8
<1>7. CASE NeedDict
  <2>1. /\ pc = "run" /\ mode = "DICT" /\ pc' = "abort" /\ ret' = "NEED_DICT"
        /\ in_used' = in_used - avail_in
        /\ UNCHANGED <<avail_in, avail_out, mode, last, bits, total, counts,
                       circular, in, out, stream>>
    BY <1>7 DEF NeedDict, Return
  <2>2. in_used - avail_in \in Nat
    BY <2>1, InputUsed
  <2>3. TypeOK'
    BY <2>1, <2>2 DEF TypeOK, counts, circular, stream
  <2>4. HeldIsLess'
    BY <2>1 DEF HeldIsLess, Needed
  <2>5. BitsAccounted' /\ OutputAccounted' /\ ValidAccepted'
    BY <2>1 DEF BitsAccounted, OutputAccounted, ValidAccepted, Dead
  <2>6. SymbolFits' /\ ReachesOutput' /\ FieldsAreWhole'
    BY <2>1 DEF SymbolFits, ReachesOutput, FieldsAreWhole, Fields, counts, stream
  <2>7. WindowInOrder'
    BY <2>1 DEF WindowInOrder, Ending, circular
  <2>8. CallInProgress'
    BY <2>1 DEF CallInProgress
  <2> QED
    BY <2>3, <2>4, <2>5, <2>6, <2>7, <2>8 DEF IndInv, Phases
<1> QED
  BY <1>1, <1>2, <1>3, <1>4, <1>5, <1>6, <1>7

\* Block headers, stored blocks and the lengths of dynamic codes.
LEMMA BlocksKeepInv ==
  ASSUME IndInv, BlockType \/ LastBlockDone \/ Stored \/ Copy \/ Copied \/
         Table \/ LenLens \/ CodeTable \/ CodeLens \/ Tables
  PROVE  IndInv'
<1>0. /\ TypeOK /\ BitsAccounted /\ OutputAccounted /\ ValidAccepted
      /\ HeldIsLess /\ SymbolFits /\ ReachesOutput /\ WindowInOrder
      /\ FieldsAreWhole /\ CallInProgress
  BY DEF IndInv, Phases
<1> USE <1>0
<1>1. CASE BlockType
  <2>1. pc = "run" /\ 3 = Needed /\ TakeBits(3)
    BY <1>1 DEF BlockType, Needed
  <2>2. avail_in' \in 0 .. avail_in /\ bits' \in 0 .. 7 /\ pos' \in Nat
    BY <2>1, Taken
  <2>3. pos' + bits' = pos + bits + 8 * (avail_in - avail_in')
    BY <2>1, Taken
  <2>4. /\ pc' = "run" /\ in_used' = in_used /\ mode' \notin Fields
        /\ mode' \in {"STORED", "TABLE", "LEN", "BAD"}
        /\ mode' = "BAD" => Corrupt
        /\ last' \in BOOLEAN
        /\ UNCHANGED <<avail_out, in_used, total, counts, circular, in, out,
                       flags, wrap, due, ret>>
    BY <1>1 DEF BlockType, Fields
  <2>5. BitsAccounted' /\ HeldIsLess' /\ FieldsAreWhole'
    BY <2>1, <2>2, <2>3, <2>4, BitsTaken
  <2>6. /\ sym' \in Symbol /\ elements' \in Nat
        /\ mode' = "LEN" => NextSymbol(due)
    <3>1. CASE NextSymbol(due)
      BY <1>1, <3>1, SymbolsFit DEF TypeOK
    <3>2. CASE ~NextSymbol(due)
      BY <1>1, <3>2 DEF BlockType, TypeOK, SymbolFits
    <3> QED
      BY <3>1, <3>2
  <2>7. TypeOK'
    BY <2>2, <2>4, <2>6 DEF TypeOK, counts, circular
  <2>8. mode = "TYPE"
    BY <1>1 DEF BlockType
  <2>9. OutputAccounted'
    BY <2>1, <2>4, <2>8 DEF OutputAccounted, TypeOK, Remaining, Dead, SymbolFits,
       counts
  <2>10. ReachesOutput' /\ ValidAccepted'
    BY <2>4, <2>6, SymbolsFit DEF ReachesOutput, ValidAccepted, TypeOK
  <2>11. SymbolFits'
    BY <2>4, <2>6, <2>8, SymbolsFit DEF SymbolFits, TypeOK, counts
  <2>12. WindowInOrder'
    BY <2>4, <2>8 DEF WindowInOrder, Ending, circular
  <2>13. CallInProgress'
    BY <2>1, <2>2, <2>4, CallGoesOn DEF TypeOK
  <2> QED
    BY <2>5, <2>7, <2>9, <2>10, <2>11, <2>12, <2>13 DEF IndInv, Phases
<1>2. CASE LastBlockDone
  <2>1. /\ pc = "run" /\ mode = "TYPE" /\ pc' = "run" /\ mode' = "CHECK"
        /\ bits' = bits - (bits % 8) /\ pos' = pos + (bits % 8)
        /\ UNCHANGED <<avail_in, counts, flags, wrap, avail_out, in_used, last,
                       total, circular, in, out, sym, elements, due, ret>>
    BY <1>2 DEF LastBlockDone, Proceed
  <2>2. bits \in 0 .. 7
    <3>1. Needed = 0
      BY <1>2 DEF LastBlockDone, Needed
    <3> QED
      BY <2>1, <3>1, LittleHeld
  <2>3. avail_in' \in 0 .. avail_in /\ bits' = 0 /\ pos' \in Nat
    BY <2>1, <2>2 DEF TypeOK
  <2>4. pos' + bits' = pos + bits + 8 * (avail_in - avail_in')
    BY <2>1, <2>2 DEF TypeOK
  <2>5. BitsAccounted' /\ HeldIsLess' /\ FieldsAreWhole'
    BY <2>1, <2>3, <2>4, BitsTaken
  <2>6. TypeOK'
    BY <2>1, <2>3 DEF TypeOK, counts, circular
  <2>7. OutputAccounted'
    BY <2>1 DEF OutputAccounted, Remaining, Dead
  <2>8. ReachesOutput' /\ ValidAccepted'
    BY <2>1 DEF ReachesOutput, ValidAccepted
  <2>9. SymbolFits'
    BY <2>1 DEF SymbolFits, counts
  <2>10. WindowInOrder'
    BY <2>1 DEF WindowInOrder, Ending, circular
  <2>11. CallInProgress'
    BY <2>1, <2>3, CallGoesOn DEF TypeOK
  <2> QED
    BY <2>5, <2>6, <2>7, <2>8, <2>9, <2>10, <2>11 DEF IndInv, Phases
<1>3. CASE Stored
  <2>1. pc = "run" /\ mode = "STORED" /\ 32 = Needed /\ TakeField(32)
    BY <1>3 DEF Stored, Needed
  <2>2. avail_in' \in 0 .. avail_in /\ bits' = 0 /\ pos' \in Nat
    BY <2>1, TakenField
  <2>3. pos' + bits' = pos + bits + 8 * (avail_in - avail_in')
    BY <2>1, TakenField
  <2>4. /\ pc' = "run" /\ mode' \notin Fields /\ mode' \in {"COPY", "BAD"}
        /\ mode' = "BAD" => Corrupt /\ length' = 0
        /\ length' \in Nat /\ due' = due + length' /\ length = 0
        /\ UNCHANGED <<avail_out, in_used, last, total, offset, nread, circular,
                       in, out, flags, wrap, sym, elements, ret>>
    <3>1. length = 0 /\ due \in Nat
      BY <2>1 DEF SymbolFits, TypeOK
    <3>2. \/ mode' = "COPY" /\ length' \in StoredLens
          \/ Corrupt /\ mode' = "BAD" /\ length' = length
      BY <1>3 DEF Stored
    <3>3. length' \in Nat
      <4>1. StoredLens \subseteq Nat /\ length \in Nat
        BY <3>1, SizeAssumption
      <4>2. length' \in StoredLens \/ length' = length
        BY <3>2, Zenon
      <4> QED
        BY <4>1, <4>2, Zenon
    <3>4. due' = due + length'
      <4>1. due' = due + length' - length
        BY <1>3 DEF Stored
      <4> QED
        BY <3>1, <3>3, <4>1
    <3> QED
      BY <1>3, <3>1, <3>2, <3>3, <3>4 DEF Stored, Fields
  <2>5. BitsAccounted' /\ HeldIsLess' /\ FieldsAreWhole'
    BY <2>1, <2>2, <2>3, <2>4, BitsTaken
  <2>6. TypeOK'
    <3>1. due \in Nat
      BY DEF TypeOK
    <3>2. \A a \in Nat : due + a \in Nat
      BY <3>1
    <3>3. due' \in Nat
      BY <2>4, <3>2
    <3>4. /\ mode' \in {"COPY", "BAD"} /\ length' \in Nat /\ pc' = "run"
          /\ UNCHANGED <<avail_out, in_used, last, total, offset, nread,
                         circular, in, out, flags, wrap, sym, elements, ret>>
      BY <2>4
    <3>5. avail_in' \in Nat /\ bits' = 0 /\ pos' \in Nat
      BY <2>2 DEF TypeOK
    <3> QED
      BY <3>3, <3>4, <3>5 DEF TypeOK, circular
  <2>7. OutputAccounted'
    BY <2>1, <2>4 DEF OutputAccounted, TypeOK, Remaining, Dead
  <2>8. ReachesOutput' /\ ValidAccepted'
    BY <2>4 DEF ReachesOutput, ValidAccepted
  <2>9. SymbolFits'
    BY <2>4 DEF SymbolFits
  <2>10. WindowInOrder'
    BY <2>1, <2>4 DEF WindowInOrder, Ending, circular
  <2>11. CallInProgress'
    BY <2>1, <2>2, <2>4, CallGoesOn DEF TypeOK
  <2> QED
    BY <2>5, <2>6, <2>7, <2>8, <2>9, <2>10, <2>11 DEF IndInv, Phases
<1>4. CASE Copy
  <2> DEFINE copy == MIN(MIN(length, avail_in), avail_out)
  <2>1. /\ pc = "run" /\ mode = "COPY"
        /\ UNCHANGED <<mode, last, bits, offset, nread, flags, wrap, sym,
                       elements, due>>
        /\ \/ UNCHANGED <<avail_in, length, pos>> /\ Leave("OK")
           \/ /\ avail_in' = avail_in - copy /\ avail_out' = avail_out - copy
              /\ length' = length - copy /\ pos' = pos + 8 * copy
              /\ UNCHANGED <<in_used, total, circular, in, out, pc, ret>>
    BY <1>4 DEF Copy
  <2>2. /\ copy \in 0 .. avail_in /\ copy \in 0 .. avail_out
        /\ copy \in 0 .. length
        /\ avail_in \in Nat /\ avail_out \in Nat /\ pos \in Nat /\ length \in Nat
        /\ due \in Nat /\ total \in Nat /\ out \in Nat
    BY DEF TypeOK, MIN
  <2> HIDE DEF copy
  <2>3. bits \in 0 .. 7
    <3>1. Needed = 0
      BY <2>1 DEF Needed
    <3> QED
      BY <2>1, <3>1, LittleHeld
  <2>4. CASE UNCHANGED <<avail_in, length, pos>> /\ Leave("OK")
    <3>1. /\ avail_in' \in 0 .. avail_in /\ avail_in' \in Nat /\ pos' \in Nat
          /\ bits' \in 0 .. 31 /\ bits' \in Nat
          /\ pos' + bits' = pos + bits + 8 * (avail_in - avail_in')
      BY <2>1, <2>2, <2>3, <2>4
    <3>2. pc' \in {"idle", "abort"} /\ in_used' = in_used - avail_in' =>
            BitsAccounted'
      BY <2>1, <3>1, CallEndsBits
    <3>3. HeldIsLess' /\ FieldsAreWhole'
      BY <2>1, <2>3 DEF HeldIsLess, FieldsAreWhole, Fields
    <3> QED
      BY <2>1, <2>2, <2>4, <3>1, <3>2, <3>3, CallEnds
  <2>5. CASE /\ avail_in' = avail_in - copy /\ avail_out' = avail_out - copy
             /\ length' = length - copy /\ pos' = pos + 8 * copy
             /\ UNCHANGED <<in_used, total, circular, in, out, pc, ret>>
    <3>1. /\ avail_in' \in 0 .. avail_in /\ avail_in' \in Nat /\ pos' \in Nat
          /\ avail_out' \in 0 .. avail_out /\ avail_out' \in Nat
          /\ length' \in Nat
      <4>1. \A c \in 0 .. length :
              c \in 0 .. avail_in /\ c \in 0 .. avail_out =>
                /\ avail_in - c \in 0 .. avail_in /\ avail_in - c \in Nat
                /\ avail_out - c \in 0 .. avail_out /\ avail_out - c \in Nat
                /\ length - c \in Nat /\ pos + 8 * c \in Nat
        BY <2>2
      <4> QED
        BY <2>2, <2>5, <4>1
    <3>2. pos' + bits' = pos + bits + 8 * (avail_in - avail_in')
      <4>1. \A c \in 0 .. avail_in : (pos + 8 * c) + bits
                           = pos + bits + 8 * (avail_in - (avail_in - c))
        BY <2>2, <2>3
      <4> QED
        BY <2>1, <2>2, <2>5, <4>1
    <3>3. BitsAccounted' /\ HeldIsLess' /\ FieldsAreWhole'
      <4>1. /\ pc' = "run" /\ in_used' = in_used /\ bits' \in 0 .. 7
            /\ mode' \notin Fields
        BY <2>1, <2>3, <2>5 DEF Fields
      <4> QED
        BY <2>1, <3>1, <3>2, <4>1, BitsTaken
    <3>4. TypeOK'
      BY <2>1, <2>5, <3>1 DEF TypeOK, circular
    <3>5. OutputAccounted'
      <4>1. total + (out - avail_out) + length = due
        BY <2>1, OutputSoFar DEF Remaining
      <4>2. \A c \in 0 .. length :
              total + (out - (avail_out - c)) + (length - c) = due
        BY <2>2, <4>1
      <4>3. total' + (out' - avail_out') + length' = due'
        BY <2>1, <2>2, <2>5, <4>2
      <4>4. Remaining' = length' /\ pc' = "run"
        BY <2>1, <2>5 DEF Remaining
      <4> QED
        BY <4>3, <4>4 DEF OutputAccounted
    <3>6. ReachesOutput' /\ ValidAccepted' /\ SymbolFits'
      BY <2>1 DEF ReachesOutput, ValidAccepted, SymbolFits
    <3>7. WindowInOrder'
      BY <2>1, <2>5 DEF WindowInOrder, Ending, circular
    <3>8. CallInProgress'
      BY <2>1, <2>5, <3>1, CallGoesOn
    <3> QED
      BY <3>3, <3>4, <3>5, <3>6, <3>7, <3>8 DEF IndInv, Phases
  <2> QED
    BY <2>1, <2>4, <2>5
<1>5. CASE Copied
  <2>1. pc = "run" /\ Needed = 0 /\ pc' = "run" /\ mode' \notin Fields
        /\ UNCHANGED <<in_used, avail_in, bits, pos>>
    BY <1>5 DEF Copied, Proceed, Needed, Fields
  <2>5. BitsAccounted' /\ HeldIsLess' /\ FieldsAreWhole'
    BY <2>1, BitsKept
  <2>6. TypeOK'
    BY <1>5 DEF TypeOK, Copied, Proceed, Reject, counts, circular
  <2>7. OutputAccounted'
    BY <1>5
       DEF OutputAccounted, TypeOK, Remaining, Dead, SymbolFits, Copied,
           Proceed, Reject, counts, circular
  <2>8. ReachesOutput' /\ ValidAccepted'
    BY <1>5, SymbolTypes
       DEF ReachesOutput, ValidAccepted, TypeOK, SymbolFits, Copied, Proceed,
           Reject, counts, circular
  <2>9. SymbolFits'
    BY <1>5, SizeAssumption, SymbolTypes
       DEF SymbolFits, TypeOK, Copied, Proceed, Reject, counts, circular
  <2>10. WindowInOrder'
    BY <1>5
       DEF WindowInOrder, Ending, TypeOK, Copied, Proceed, Reject, counts,
           circular
  <2>11. CallInProgress'
    BY <1>5, <2>1, CallGoesOn
       DEF TypeOK, Copied, Proceed, Reject, counts, circular
  <2> QED
    BY <2>5, <2>6, <2>7, <2>8, <2>9, <2>10, <2>11 DEF IndInv, Phases
<1>6. CASE Table
  <2>1. pc = "run" /\ 14 = Needed /\ TakeBits(14)
    BY <1>6 DEF Table, Needed
  <2>2. avail_in' \in 0 .. avail_in /\ bits' \in 0 .. 7 /\ pos' \in Nat
    BY <2>1, Taken
  <2>3. pos' + bits' = pos + bits + 8 * (avail_in - avail_in')
    BY <2>1, Taken
  <2>4. pc' = "run" /\ in_used' = in_used /\ mode' \notin Fields
    BY <1>6 DEF Table, Proceed, Fields
  <2>5. BitsAccounted' /\ HeldIsLess' /\ FieldsAreWhole'
    BY <2>1, <2>2, <2>3, <2>4, BitsTaken
  <2>6. TypeOK'
    BY <1>6, <2>2 DEF TypeOK, Table, Proceed, Reject, counts, circular
  <2>7. OutputAccounted'
    BY <1>6, <2>2
       DEF OutputAccounted, TypeOK, Remaining, Dead, SymbolFits, Table,
           Proceed, Reject, counts, circular
  <2>8. ReachesOutput' /\ ValidAccepted'
    BY <1>6, <2>2, SymbolTypes
       DEF ReachesOutput, ValidAccepted, TypeOK, SymbolFits, Table, Proceed,
           Reject, counts, circular
  <2>9. SymbolFits'
    BY <1>6, <2>2, SizeAssumption, SymbolTypes
       DEF SymbolFits, TypeOK, Table, Proceed, Reject, counts, circular
  <2>10. WindowInOrder'
    BY <1>6, <2>2
       DEF WindowInOrder, Ending, TypeOK, Table, Proceed, Reject, counts,
           circular
  <2>11. CallInProgress'
    BY <1>6, <2>1, <2>2, <2>4, CallGoesOn
       DEF TypeOK, Table, Proceed, Reject, counts, circular
  <2> QED
    BY <2>5, <2>6, <2>7, <2>8, <2>9, <2>10, <2>11 DEF IndInv, Phases
<1>7. CASE LenLens
  <2>1. pc = "run" /\ 3 = Needed /\ TakeBits(3)
    BY <1>7 DEF LenLens, Needed
  <2>2. avail_in' \in 0 .. avail_in /\ bits' \in 0 .. 7 /\ pos' \in Nat
    BY <2>1, Taken
  <2>3. pos' + bits' = pos + bits + 8 * (avail_in - avail_in')
    BY <2>1, Taken
  <2>4. pc' = "run" /\ in_used' = in_used /\ mode' \notin Fields
    BY <1>7 DEF LenLens, Proceed, Fields
  <2>5. BitsAccounted' /\ HeldIsLess' /\ FieldsAreWhole'
    BY <2>1, <2>2, <2>3, <2>4, BitsTaken
  <2>6. TypeOK'
    BY <1>7, <2>2 DEF TypeOK, LenLens, Proceed, Reject, counts, circular
  <2>7. OutputAccounted'
    BY <1>7, <2>2
       DEF OutputAccounted, TypeOK, Remaining, Dead, SymbolFits, LenLens,
           Proceed, Reject, counts, circular
  <2>8. ReachesOutput' /\ ValidAccepted'
    BY <1>7, <2>2, SymbolTypes
       DEF ReachesOutput, ValidAccepted, TypeOK, SymbolFits, LenLens, Proceed,
           Reject, counts, circular
  <2>9. SymbolFits'
    BY <1>7, <2>2, SizeAssumption, SymbolTypes
       DEF SymbolFits, TypeOK, LenLens, Proceed, Reject, counts, circular
  <2>10. WindowInOrder'
    BY <1>7, <2>2
       DEF WindowInOrder, Ending, TypeOK, LenLens, Proceed, Reject, counts,
           circular
  <2>11. CallInProgress'
    BY <1>7, <2>1, <2>2, <2>4, CallGoesOn
       DEF TypeOK, LenLens, Proceed, Reject, counts, circular
  <2> QED
    BY <2>5, <2>6, <2>7, <2>8, <2>9, <2>10, <2>11 DEF IndInv, Phases
<1>8. CASE CodeTable
  <2>1. /\ pc = "run" /\ mode = "LENLENS" /\ Needed = 0 /\ pc' = "run"
        /\ mode' \notin Fields /\ mode' \in {"CODELENS", "BAD"} /\ nread' = 0
        /\ mode' = "CODELENS" => NextCodeLength(0)
        /\ mode' = "BAD" => Corrupt /\ sym' = sym
        /\ UNCHANGED <<avail_in, avail_out, in_used, last, bits, length, offset,
                       total, circular, in, out, flags, wrap, elements, pos,
                       due, ret>>
    BY <1>8, SizeAssumption DEF CodeTable, strm, Needed, Fields
  <2>2. BitsAccounted' /\ HeldIsLess' /\ FieldsAreWhole'
    BY <2>1, BitsKept
  <2>3. sym' \in Symbol
    BY <2>1, CodeLengthsFit DEF SymbolFits
  <2>4. TypeOK'
    BY <2>1 DEF TypeOK, circular
  <2>5. OutputAccounted'
    BY <2>1 DEF OutputAccounted, Remaining, Dead
  <2>6. ReachesOutput' /\ ValidAccepted'
    BY <2>1 DEF ReachesOutput, ValidAccepted
  <2>7. SymbolFits'
    BY <2>1, <2>3, CodeLengthsFit, SizeAssumption DEF SymbolFits
  <2>8. WindowInOrder'
    BY <2>1 DEF WindowInOrder, Ending, circular
  <2>9. CallInProgress'
    BY <2>1, CallGoesOn DEF TypeOK
  <2> QED
    BY <2>2, <2>4, <2>5, <2>6, <2>7, <2>8, <2>9 DEF IndInv, Phases
<1>9. CASE CodeLens
  <2>1. /\ pc = "run" /\ mode = "CODELENS" /\ nread < NLEN
        /\ sym.code = Needed /\ TakeBits(sym.code)
    BY <1>9 DEF CodeLens, Needed
  <2>2. avail_in' \in 0 .. avail_in /\ bits' \in 0 .. 7 /\ pos' \in Nat
    BY <2>1, SymbolTypes, Taken
  <2>3. pos' + bits' = pos + bits + 8 * (avail_in - avail_in')
    BY <2>1, SymbolTypes, Taken
  <2>4. nread' \in 1 .. NLEN
    <3>1. nread' = nread + sym.length
      BY <1>9 DEF CodeLens
    <3>2. sym.length \in 1 .. NLEN - nread /\ nread \in Nat
      BY <2>1 DEF SymbolFits, TypeOK
    <3> QED
      BY <3>1, <3>2, SizeAssumption
  <2>5. /\ pc' = "run" /\ mode' \notin Fields /\ mode' \in {"CODELENS", "BAD"}
        /\ mode' = "BAD" => Corrupt /\ sym' = sym
        /\ mode' = "CODELENS" /\ nread' < NLEN => NextCodeLength(nread')
        /\ mode' = "CODELENS" /\ ~(nread' < NLEN) => sym' = sym
        /\ UNCHANGED <<avail_out, in_used, last, length, offset, total,
                       circular, in, out, flags, wrap, elements, due, ret>>
    BY <1>9 DEF CodeLens, Fields
  <2>6. sym' \in Symbol
    BY <2>4, <2>5, CodeLengthsFit DEF SymbolFits
  <2>7. BitsAccounted' /\ HeldIsLess' /\ FieldsAreWhole'
    BY <2>1, <2>2, <2>3, <2>5, BitsTaken
  <2>8. TypeOK'
    BY <2>2, <2>4, <2>5 DEF TypeOK, circular
  <2>9. OutputAccounted'
    BY <2>1, <2>5 DEF OutputAccounted, Remaining, Dead
  <2>10. ReachesOutput' /\ ValidAccepted'
    BY <2>5 DEF ReachesOutput, ValidAccepted
  <2>11. SymbolFits'
    <3>1. mode' = "CODELENS" /\ nread' < NLEN =>
            sym'.code >= 1 /\ sym'.length \in 1 .. NLEN - nread'
      BY <2>4, <2>5, CodeLengthsFit
    <3> QED
      BY <2>1, <2>4, <2>5, <2>6, <3>1 DEF SymbolFits
  <2>12. WindowInOrder'
    BY <2>1, <2>5 DEF WindowInOrder, Ending, circular
  <2>13. CallInProgress'
    BY <2>1, <2>2, <2>5, CallGoesOn DEF TypeOK
  <2> QED
    BY <2>7, <2>8, <2>9, <2>10, <2>11, <2>12, <2>13 DEF IndInv, Phases
<1>10. CASE Tables
  <2>1. /\ pc = "run" /\ mode = "CODELENS" /\ Needed = 0 /\ pc' = "run"
        /\ mode' \notin Fields /\ mode' \in {"LEN", "BAD"}
        /\ mode' = "LEN" => NextSymbol(due)
        /\ mode' = "BAD" => Corrupt /\ sym' = sym /\ elements' = elements
        /\ UNCHANGED <<avail_in, avail_out, in_used, last, bits, length, offset,
                       nread, total, circular, in, out, flags, wrap, pos, due,
                       ret>>
    BY <1>10, SizeAssumption DEF Tables, strm, counts, Needed, Fields
  <2>2. BitsAccounted' /\ HeldIsLess' /\ FieldsAreWhole'
    BY <2>1, BitsKept
  <2>3. sym' \in Symbol /\ elements' \in Nat
    BY <2>1, SymbolsFit DEF SymbolFits, TypeOK
  <2>4. TypeOK'
    BY <2>1, <2>3 DEF TypeOK, circular
  <2>5. OutputAccounted'
    BY <2>1 DEF OutputAccounted, Remaining, Dead
  <2>6. ReachesOutput' /\ ValidAccepted'
    BY <2>1, SymbolsFit DEF ReachesOutput, ValidAccepted, TypeOK
  <2>7. SymbolFits'
    BY <2>1, <2>3, SymbolsFit DEF SymbolFits, TypeOK
  <2>8. WindowInOrder'
    BY <2>1 DEF WindowInOrder, Ending, circular
  <2>9. CallInProgress'
    BY <2>1, CallGoesOn DEF TypeOK
  <2> QED
    BY <2>2, <2>4, <2>5, <2>6, <2>7, <2>8, <2>9 DEF IndInv, Phases
<1> QED
  BY <1>1, <1>2, <1>3, <1>4, <1>5, <1>6, <1>7, <1>8, <1>9, <1>10

\* Literals and matches, one code at a time: a match that would reach before
\* the output is not in a valid stream, and the window has all it can reach.
LEMMA CodesKeepInv ==
  ASSUME IndInv, Len \/ LenExt \/ Dist \/ DistExt \/ Match \/ Lit
  PROVE  IndInv'
<1>0. /\ TypeOK /\ BitsAccounted /\ OutputAccounted /\ ValidAccepted
      /\ HeldIsLess /\ SymbolFits /\ ReachesOutput /\ WindowInOrder
      /\ FieldsAreWhole /\ CallInProgress
  BY DEF IndInv, Phases
<1> USE <1>0
<1>1. CASE Len
  <2>1. pc = "run" /\ mode = "LEN" /\ sym.code = Needed /\ TakeBits(sym.code)
    BY <1>1 DEF Len, Needed
  <2>2. avail_in' \in 0 .. avail_in /\ bits' \in 0 .. 7 /\ pos' \in Nat
    BY <2>1, SymbolTypes, Taken
  <2>3. pos' + bits' = pos + bits + 8 * (avail_in - avail_in')
    BY <2>1, SymbolTypes, Taken
  <2>4. /\ pc' = "run" /\ mode' \notin Fields
        /\ mode' \in {"LIT", "LENEXT", "TYPE", "BAD"}
        /\ mode' = "LIT" => sym.kind = "literal"
        /\ mode' = "LENEXT" => sym.kind = "match"
        /\ mode' = "TYPE" => sym.kind = "end"
        /\ mode' = "BAD" => Corrupt
        /\ sym' = sym /\ length' = sym.length /\ due' = due + sym.length
        /\ UNCHANGED <<avail_out, in_used, last, offset, nread, total, circular,
                       in, out, flags, wrap, elements, ret>>
    BY <1>1 DEF Len, Fields, SymbolFits
  <2>5. /\ sym.length \in Nat /\ length = 0
        /\ sym.kind = "literal" => sym.length = 1
        /\ sym.kind = "end" => sym.length = 0
        /\ sym.kind = "match" => sym.length >= 1 /\ sym.distance >= 1
    BY <2>1, SymbolTypes, SizeAssumption DEF SymbolFits
  <2>6. BitsAccounted' /\ HeldIsLess' /\ FieldsAreWhole'
    BY <2>1, <2>2, <2>3, <2>4, BitsTaken
  <2>7. TypeOK'
    BY <2>2, <2>4, <2>5 DEF TypeOK, circular
  <2>8. OutputAccounted'
    BY <2>1, <2>4, <2>5 DEF OutputAccounted, TypeOK, Remaining, Dead
  <2>9. ReachesOutput' /\ ValidAccepted'
    BY <2>1, <2>4, <2>5, SymbolTypes DEF ReachesOutput, ValidAccepted, TypeOK
  <2>10. SymbolFits'
    BY <2>4, <2>5 DEF SymbolFits
  <2>11. WindowInOrder'
    BY <2>1, <2>4 DEF WindowInOrder, Ending, circular
  <2>12. CallInProgress'
    BY <2>1, <2>2, <2>4, CallGoesOn DEF TypeOK
  <2> QED
    BY <2>6, <2>7, <2>8, <2>9, <2>10, <2>11, <2>12 DEF IndInv, Phases
<1>2. CASE LenExt
  <2>1. pc = "run" /\ sym.lenext = Needed /\ TakeBits(sym.lenext)
    BY <1>2 DEF LenExt, Needed
  <2>2. avail_in' \in 0 .. avail_in /\ bits' \in 0 .. 7 /\ pos' \in Nat
    BY <2>1, SymbolTypes, Taken
  <2>3. pos' + bits' = pos + bits + 8 * (avail_in - avail_in')
    BY <2>1, SymbolTypes, Taken
  <2>4. pc' = "run" /\ in_used' = in_used /\ mode' \notin Fields
    BY <1>2 DEF LenExt, Proceed, Fields
  <2>5. BitsAccounted' /\ HeldIsLess' /\ FieldsAreWhole'
    BY <2>1, <2>2, <2>3, <2>4, BitsTaken
  <2>6. TypeOK'
    BY <1>2, <2>2 DEF TypeOK, LenExt, Proceed, Reject, counts, circular
  <2>7. OutputAccounted'
    BY <1>2, <2>2
       DEF OutputAccounted, TypeOK, Remaining, Dead, SymbolFits, LenExt,
           Proceed, Reject, counts, circular
  <2>8. ReachesOutput' /\ ValidAccepted'
    BY <1>2, <2>2, SymbolTypes
       DEF ReachesOutput, ValidAccepted, TypeOK, SymbolFits, LenExt, Proceed,
           Reject, counts, circular
  <2>9. SymbolFits'
    BY <1>2, <2>2, SizeAssumption, SymbolTypes
       DEF SymbolFits, TypeOK, LenExt, Proceed, Reject, counts, circular
  <2>10. WindowInOrder'
    BY <1>2, <2>2
       DEF WindowInOrder, Ending, TypeOK, LenExt, Proceed, Reject, counts,
           circular
  <2>11. CallInProgress'
    BY <1>2, <2>1, <2>2, <2>4, CallGoesOn
       DEF TypeOK, LenExt, Proceed, Reject, counts, circular
  <2> QED
    BY <2>5, <2>6, <2>7, <2>8, <2>9, <2>10, <2>11 DEF IndInv, Phases
<1>3. CASE Dist
  <2>1. pc = "run" /\ sym.dist = Needed /\ TakeBits(sym.dist)
    BY <1>3 DEF Dist, Needed
  <2>2. avail_in' \in 0 .. avail_in /\ bits' \in 0 .. 7 /\ pos' \in Nat
    BY <2>1, SymbolTypes, Taken
  <2>3. pos' + bits' = pos + bits + 8 * (avail_in - avail_in')
    BY <2>1, SymbolTypes, Taken
  <2>4. pc' = "run" /\ in_used' = in_used /\ mode' \notin Fields
    BY <1>3 DEF Dist, Proceed, Fields
  <2>5. BitsAccounted' /\ HeldIsLess' /\ FieldsAreWhole'
    BY <2>1, <2>2, <2>3, <2>4, BitsTaken
  <2>6. TypeOK'
    BY <1>3, <2>2 DEF TypeOK, Dist, Proceed, Reject, counts, circular
  <2>7. OutputAccounted'
    BY <1>3, <2>2
       DEF OutputAccounted, TypeOK, Remaining, Dead, SymbolFits, Dist, Proceed,
           Reject, counts, circular
  <2>8. ReachesOutput' /\ ValidAccepted'
    BY <1>3, <2>2, SymbolTypes
       DEF ReachesOutput, ValidAccepted, TypeOK, SymbolFits, Dist, Proceed,
           Reject, counts, circular
  <2>9. SymbolFits'
    BY <1>3, <2>2, SizeAssumption, SymbolTypes
       DEF SymbolFits, TypeOK, Dist, Proceed, Reject, counts, circular
  <2>10. WindowInOrder'
    BY <1>3, <2>2
       DEF WindowInOrder, Ending, TypeOK, Dist, Proceed, Reject, counts,
           circular
  <2>11. CallInProgress'
    BY <1>3, <2>1, <2>2, <2>4, CallGoesOn
       DEF TypeOK, Dist, Proceed, Reject, counts, circular
  <2> QED
    BY <2>5, <2>6, <2>7, <2>8, <2>9, <2>10, <2>11 DEF IndInv, Phases
<1>4. CASE DistExt
  <2>1. pc = "run" /\ sym.distext = Needed /\ TakeBits(sym.distext)
    BY <1>4 DEF DistExt, Needed
  <2>2. avail_in' \in 0 .. avail_in /\ bits' \in 0 .. 7 /\ pos' \in Nat
    BY <2>1, SymbolTypes, Taken
  <2>3. pos' + bits' = pos + bits + 8 * (avail_in - avail_in')
    BY <2>1, SymbolTypes, Taken
  <2>4. pc' = "run" /\ in_used' = in_used /\ mode' \notin Fields
    BY <1>4 DEF DistExt, Proceed, Fields
  <2>5. BitsAccounted' /\ HeldIsLess' /\ FieldsAreWhole'
    BY <2>1, <2>2, <2>3, <2>4, BitsTaken
  <2>6. TypeOK'
    BY <1>4, <2>2, SymbolTypes
       DEF TypeOK, DistExt, Proceed, Reject, counts, circular
  <2>7. OutputAccounted'
    BY <1>4, <2>2
       DEF OutputAccounted, TypeOK, Remaining, Dead, SymbolFits, DistExt,
           Proceed, Reject, counts, circular
  <2>8. ReachesOutput' /\ ValidAccepted'
    BY <1>4, <2>2, SymbolTypes
       DEF ReachesOutput, ValidAccepted, TypeOK, SymbolFits, DistExt, Proceed,
           Reject, counts, circular
  <2>9. SymbolFits'
    BY <1>4, <2>2, SizeAssumption, SymbolTypes
       DEF SymbolFits, TypeOK, DistExt, Proceed, Reject, counts, circular
  <2>10. WindowInOrder'
    BY <1>4, <2>2
       DEF WindowInOrder, Ending, TypeOK, DistExt, Proceed, Reject, counts,
           circular
  <2>11. CallInProgress'
    BY <1>4, <2>1, <2>2, <2>4, CallGoesOn
       DEF TypeOK, DistExt, Proceed, Reject, counts, circular
  <2> QED
    BY <2>5, <2>6, <2>7, <2>8, <2>9, <2>10, <2>11 DEF IndInv, Phases
<1>5. CASE Match
  <2>1. /\ pc = "run" /\ mode = "MATCH" /\ Needed = 0 /\ pc' = "run"
        /\ mode' \notin Fields /\ mode' \in {"MATCH", "LEN", "BAD"}
        /\ UNCHANGED <<avail_in, in_used, last, bits, offset, nread, total,
                       circular, in, out, flags, wrap, pos, due, ret>>
    BY <1>5 DEF Match, Needed, Fields
  <2>2. BitsAccounted' /\ HeldIsLess' /\ FieldsAreWhole'
    BY <2>1, BitsKept
  <2>3. length >= 1 /\ length \in Nat /\ offset >= 1 /\ offset \in 0 .. WSIZE
    BY <2>1 DEF SymbolFits, TypeOK
  <2>4. total + (out - avail_out) + length = due
    BY <2>1, OutputSoFar DEF Remaining
  <2>5. /\ avail_in \in 0 .. in /\ avail_out \in 0 .. out
        /\ out - avail_out \in Nat
    BY <2>1, Spans
  <2>6. CASE Back > whave
    <3>1. mode' = "BAD" /\ UNCHANGED <<avail_out, length, sym, elements>>
      BY <1>5, <2>6 DEF Match
    <3>2. Corrupt
      <4>1. ~Corrupt => offset <= total + (out - avail_out)
        BY <2>1, <2>3, <2>4, <2>5 DEF ReachesOutput, TypeOK
      <4>2. whave = MIN(total, WSIZE)
        BY <2>1 DEF WindowInOrder, Ending
      <4> QED
        BY <2>3, <2>5, <2>6, <4>1, <4>2, SizeAssumption DEF Back, MIN, TypeOK
    <3>3. TypeOK'
      BY <2>1, <3>1 DEF TypeOK, circular
    <3>4. OutputAccounted' /\ ReachesOutput' /\ ValidAccepted'
      BY <3>1, <3>2 DEF OutputAccounted, ReachesOutput, ValidAccepted
    <3>5. SymbolFits'
      BY <2>1, <3>1 DEF SymbolFits
    <3>6. WindowInOrder'
      BY <2>1, <3>1 DEF WindowInOrder, Ending, circular
    <3>7. CallInProgress'
      BY <2>1, <3>1, CallGoesOn DEF TypeOK
    <3> QED
      BY <2>2, <3>3, <3>4, <3>5, <3>6, <3>7 DEF IndInv, Phases
  <2>7. CASE ~(Back > whave)
    <3>1. /\ avail_out' = avail_out - CopyLength
          /\ length' = length - CopyLength
          /\ length' = 0 => mode' = "LEN" /\ NextSymbol(due)
          /\ length' # 0 => UNCHANGED <<mode, sym, elements>>
      BY <1>5, <2>7 DEF Match
    <3>2. CopyLength \in 0 .. length /\ CopyLength <= avail_out
      <4>1. Back <= whave
        BY <2>3, <2>5, <2>7 DEF Back, TypeOK
      <4> QED
        BY <2>1, <4>1, CopyFits
    <3>3. /\ length' \in 0 .. length /\ length' \in Nat
          /\ avail_out' \in 0 .. avail_out /\ avail_out' \in Nat
      <4>1. \A c \in 0 .. length :
              c <= avail_out => /\ length - c \in 0 .. length
                               /\ length - c \in Nat
                               /\ avail_out - c \in 0 .. avail_out
                               /\ avail_out - c \in Nat
        BY <2>3, <2>5
      <4> QED
        BY <3>1, <3>2, <4>1
    <3>12. total + (out - avail_out') + length' = due
      <4>1. \A c \in 0 .. length :
              total + (out - (avail_out - c)) + (length - c) = due
        BY <2>3, <2>4, <2>5 DEF TypeOK
      <4> QED
        BY <3>1, <3>2, <4>1
    <3>4. sym' \in Symbol /\ elements' \in Nat
      BY <3>1, SymbolsFit DEF SymbolFits, TypeOK
    <3>5. \/ mode' = "LEN" /\ length' = 0
          \/ mode' = "MATCH" /\ length' >= 1
      <4>1. CASE length' = 0
        BY <3>1, <4>1, Zenon
      <4>2. CASE length' # 0
        <5>1. length' >= 1
          BY <3>3, <4>2
        <5> QED
          BY <2>1, <3>1, <4>2, <5>1
      <4> QED
        BY <4>1, <4>2
    <3>6. TypeOK'
      BY <2>1, <2>5, <3>3, <3>4 DEF TypeOK, circular
    <3>7. OutputAccounted'
      <4>1. Remaining' = length'
        BY <3>5 DEF Remaining
      <4>2. total' + (out' - avail_out') + Remaining' = due'
        BY <2>1, <3>12, <4>1
      <4> QED
        BY <2>1, <4>2 DEF OutputAccounted
    <3>8. ReachesOutput' /\ ValidAccepted'
      <4>1. mode' = "LEN" => NextSymbol(due)
        BY <2>1, <3>1
      <4>2. ~Corrupt /\ mode' = "LEN" => sym'.distance <= due
        BY <4>1, SymbolsFit DEF TypeOK
      <4>3. ~Corrupt => offset <= due - length'
        <5>1. \A k \in 0 .. length : offset <= due - length =>
                                        offset <= due - k
          BY <2>3 DEF TypeOK
        <5>2. ~Corrupt => offset <= due - length
          BY <2>1 DEF ReachesOutput
        <5> QED
          BY <3>3, <5>1, <5>2
      <4> QED
        BY <2>1, <3>5, <4>2, <4>3 DEF ReachesOutput, ValidAccepted
    <3>9. SymbolFits'
      <4>1. CASE length' = 0
        <5>1. mode' = "LEN" /\ NextSymbol(due)
          BY <3>1, <4>1
        <5>2. /\ sym'.code >= 1
              /\ \/ sym'.kind = "literal" /\ sym'.length = 1
                 \/ sym'.kind = "end" /\ sym'.length = 0
                 \/ sym'.kind = "match" /\ sym'.length \in Lengths
                      /\ sym'.distance >= 1
              /\ sym'.kind # "match" =>
                   sym'.lenext = 0 /\ sym'.dist = 0 /\ sym'.distext = 0
          BY <5>1, SymbolsFit DEF TypeOK
        <5> QED
          BY <3>4, <4>1, <5>1, <5>2 DEF SymbolFits
      <4>2. CASE length' # 0
        BY <2>1, <2>3, <3>1, <3>5, <4>2 DEF SymbolFits
      <4> QED
        BY <4>1, <4>2
    <3>10. WindowInOrder'
      BY <2>1, <3>5 DEF WindowInOrder, Ending, circular
    <3>11. CallInProgress'
      BY <2>1, <3>3, <3>5, CallGoesOn DEF TypeOK
    <3> QED
      BY <2>2, <3>6, <3>7, <3>8, <3>9, <3>10, <3>11 DEF IndInv, Phases
  <2> QED
    BY <2>6, <2>7
<1>6. CASE Lit
  <2>1. pc = "run" /\ Needed = 0 /\ pc' = "run" /\ mode' \notin Fields
        /\ UNCHANGED <<in_used, avail_in, bits, pos>>
    BY <1>6 DEF Lit, Proceed, Needed, Fields
  <2>5. BitsAccounted' /\ HeldIsLess' /\ FieldsAreWhole'
    BY <2>1, BitsKept
  <2>2. NextSymbol(due)
    BY <1>6 DEF Lit
  <2>6. TypeOK'
    BY <1>6, <2>2, SymbolsFit
       DEF TypeOK, Lit, Proceed, Reject, counts, circular
  <2>7. OutputAccounted'
    BY <1>6
       DEF OutputAccounted, TypeOK, Remaining, Dead, SymbolFits, Lit, Proceed,
           Reject, counts, circular
  <2>8. ReachesOutput' /\ ValidAccepted'
    BY <1>6, <2>2, SymbolsFit, SymbolTypes
       DEF ReachesOutput, ValidAccepted, TypeOK, SymbolFits, Lit, Proceed,
           Reject, counts, circular
  <2>9. SymbolFits'
    BY <1>6, <2>2, SymbolsFit, SizeAssumption, SymbolTypes
       DEF SymbolFits, TypeOK, Lit, Proceed, Reject, counts, circular
  <2>10. WindowInOrder'
    BY <1>6
       DEF WindowInOrder, Ending, TypeOK, Lit, Proceed, Reject, counts,
           circular
  <2>11. CallInProgress'
    BY <1>6, <2>1, CallGoesOn
       DEF TypeOK, Lit, Proceed, Reject, counts, circular
  <2> QED
    BY <2>5, <2>6, <2>7, <2>8, <2>9, <2>10, <2>11 DEF IndInv, Phases
<1> QED
  BY <1>1, <1>2, <1>3, <1>4, <1>5, <1>6

\* inflate_fast: a round takes at most 6 bytes, and what it holds in excess of
\* what was held on entry has come from this call's input.
LEMMA FastKeepsInv ==
  ASSUME IndInv, EnterFast \/ FastRound \/ FastReturn
  PROVE  IndInv'
<1>0. /\ TypeOK /\ BitsAccounted /\ OutputAccounted /\ ValidAccepted
      /\ HeldIsLess /\ SymbolFits /\ ReachesOutput /\ WindowInOrder
      /\ FieldsAreWhole /\ CallInProgress
  BY DEF IndInv, Phases
<1> USE <1>0
<1>1. CASE EnterFast
  <2>1. /\ pc = "run" /\ mode = "LEN" /\ FastPossible /\ pc' = "fast"
        /\ UNCHANGED <<avail_in, avail_out, in_used, mode, last, bits, total,
                       counts, circular, in, out, stream, ret>>
    BY <1>1 DEF EnterFast, strm
  <2>2. bits <= 7 \/ bits < sym.code
    BY <2>1 DEF HeldIsLess, Needed
  <2>3. TypeOK'
    BY <2>1 DEF TypeOK, counts, circular, stream
  <2>4. BitsAccounted'
    BY <2>1 DEF BitsAccounted, Consumed, Dead, stream
  <2>5. OutputAccounted'
    BY <2>1 DEF OutputAccounted, Remaining, Dead, counts, stream
  <2>6. HeldIsLess' /\ FieldsAreWhole' /\ ValidAccepted'
    BY <2>1 DEF HeldIsLess, FieldsAreWhole, Fields, ValidAccepted
  <2>7. ReachesOutput' /\ SymbolFits'
    BY <2>1 DEF ReachesOutput, SymbolFits, counts, stream
  <2>8. WindowInOrder'
    BY <2>1 DEF WindowInOrder, Ending, circular
  <2>9. CallInProgress'
    <3>1. bits <= 30
      <4>1. sym.code \in 0 .. 15
        BY SymbolTypes
      <4>2. bits \in 0 .. 47
        BY DEF TypeOK
      <4> QED
        BY <2>2, <4>1, <4>2
    <3>2. \/ bits <= 8 * (in - avail_in) + 7
          \/ mode = "LEN" /\ FastPossible /\ bits < sym.code
      <4>1. avail_in \in 0 .. in
        BY <2>1, Spans
      <4> QED
        BY <2>1, <2>2, <4>1 DEF TypeOK
    <3>3. FastPossible' /\ avail_in' = avail_in /\ bits' = bits /\ sym' = sym
          /\ in' = in /\ avail_out' = avail_out /\ out' = out
      BY <2>1 DEF FastPossible, stream
    <3> QED
      BY <2>1, <3>1, <3>2, <3>3 DEF CallInProgress
  <2> QED
    BY <2>3, <2>4, <2>5, <2>6, <2>7, <2>8, <2>9 DEF IndInv, Phases
<1>2. CASE FastRound
  <2>1. pc = "fast" /\ mode = "LEN" /\ FastPossible
    BY <1>2 DEF FastRound
  <2>2. PICK b \in 0 .. 30 : b = bits
    BY <2>1 DEF CallInProgress, TypeOK
  <2>3. PICK c \in 1 .. 15, e \in 0 .. 5, d \in 0 .. 15, x \in 0 .. 13 :
          /\ c = sym.code /\ e = sym.lenext /\ d = sym.dist /\ x = sym.distext
          /\ sym.kind # "match" => e = 0 /\ d = 0 /\ x = 0
    <3>1. sym.code >= 1
      BY <2>1 DEF SymbolFits
    <3>2. sym.kind # "match" =>
            sym.lenext = 0 /\ sym.dist = 0 /\ sym.distext = 0
      BY <2>1 DEF SymbolFits
    <3>3. sym.code \in 1 .. 15
      BY <3>1, SymbolTypes
    <3> QED
      BY <3>2, <3>3, SymbolTypes
  <2> DEFINE match == sym.kind = "match"
             p1 == Refill15(b)
             b1 == b + 8 * p1 - c
             p2 == IF match THEN Refill(b1, e) ELSE 0
             b2 == b1 + 8 * p2 - e
             p3 == IF match THEN Refill15(b2) ELSE 0
             b3 == b2 + 8 * p3 - d
             p4 == IF match THEN Refill(b3, x) ELSE 0
             b4 == b3 + 8 * p4 - x
             p == p1 + p2 + p3 + p4
             n == c + e + d + x
             far == match /\ sym.distance - (out - avail_out) > whave
  <2>4. /\ avail_in' = avail_in - p /\ bits' = b4
        /\ pos' = pos + c + e + d + x /\ due' = due + sym.length
        /\ \/ /\ far \/ Corrupt
              /\ mode' = "BAD"
              /\ UNCHANGED <<avail_out, sym, elements>>
           \/ /\ avail_out' = avail_out - sym.length
              /\ sym.kind = "end" /\ mode' = "TYPE"
              /\ UNCHANGED <<sym, elements>>
           \/ /\ avail_out' = avail_out - sym.length
              /\ UNCHANGED mode /\ NextSymbol(due + sym.length)
        /\ UNCHANGED <<in_used, last, length, offset, nread, total, circular,
                       in, out, flags, wrap, pc, ret>>
    BY <1>2, <2>2, <2>3 DEF FastRound, counts
  <2>5. /\ b1 = b + 8 * p1 - c /\ b2 = b1 + 8 * p2 - e
        /\ b3 = b2 + 8 * p3 - d /\ b4 = b3 + 8 * p4 - x
        /\ p = p1 + p2 + p3 + p4 /\ n = c + e + d + x
    OBVIOUS
  <2>6. /\ p1 = Refill15(b)
        /\ p2 = Refill(b1, e) \/ (p2 = 0 /\ e = 0)
        /\ p3 = Refill15(b2) \/ (p3 = 0 /\ d = 0)
        /\ p4 = Refill(b3, x) \/ (p4 = 0 /\ x = 0)
    BY <2>3
  <2> HIDE DEF p1, b1, p2, b2, p3, b3, p4, b4, match, p, n, far
  <2>7. p1 \in {0, 2} /\ b1 \in 0 .. 29
    BY <2>5, <2>6 DEF Refill15
  <2>8. p2 \in {0, 1} /\ b2 \in 0 .. 29
    <3>1. CASE p2 = Refill(b1, e)
      <4>1. b1 \in 0 .. 30 /\ e \in 0 .. 13 /\ b1 <= 29
        BY <2>7
      <4>2. /\ Refill(b1, e) \in {0, 1, 2}
            /\ b1 + 8 * Refill(b1, e) - e \in 0 .. 30
            /\ b1 + 8 * Refill(b1, e) - e <= 29
            /\ Refill(b1, e) = 2 => b1 + 8 < e
        BY <4>1, Refilled
      <4> QED
        BY <2>5, <3>1, <4>1, <4>2
    <3>2. CASE p2 = 0 /\ e = 0
      BY <2>5, <2>7, <3>2
    <3> QED
      BY <2>6, <3>1, <3>2
  <2>9. p3 \in {0, 2} /\ b3 \in 0 .. 30
    BY <2>5, <2>6, <2>8 DEF Refill15
  <2>10. /\ p4 \in {0, 1, 2} /\ b4 \in 0 .. 30
         /\ p4 = 2 => b3 + 8 < x
    <3>1. CASE p4 = Refill(b3, x)
      BY <2>5, <2>9, <3>1, Refilled
    <3>2. CASE p4 = 0 /\ x = 0
      BY <2>5, <2>9, <3>2
    <3> QED
      BY <2>6, <3>1, <3>2
  <2>11. p \in 0 .. 6 /\ n \in 1 .. 48 /\ b4 = b + 8 * p - n
    BY <2>5, <2>7, <2>8, <2>9, <2>10
  <2>12. /\ avail_in \in 0 .. in /\ avail_out \in 0 .. out
         /\ out - avail_out \in Nat /\ avail_in >= 6 /\ avail_out >= FastRoom
         /\ in \in Nat /\ out \in Nat /\ pos \in Nat /\ due \in Nat
         /\ total \in Nat
    BY <2>1, Spans DEF FastPossible, TypeOK
  <2>13. pos' = pos + n
    BY <2>4, <2>5, <2>12
  <2>14. /\ avail_in' \in 0 .. avail_in /\ avail_in' \in Nat
         /\ bits' \in 0 .. 30 /\ bits' \in Nat /\ pos' \in Nat
    <3>1. avail_in - p \in 0 .. avail_in /\ avail_in - p \in Nat
          /\ pos + n \in Nat
      BY <2>11, <2>12
    <3> QED
      BY <2>4, <2>10, <2>13, <3>1
  <2>15. pos' + bits' = pos + bits + 8 * (avail_in - avail_in')
    <3>1. (pos + n) + b4 = pos + b + 8 * (avail_in - (avail_in - p))
      BY <2>11, <2>12
    <3> QED
      BY <2>2, <2>4, <2>13, <3>1
  <2>16. BitsAccounted'
    <3>1. pc' = "fast" /\ in_used' = in_used
      BY <2>1, <2>4
    <3> QED
      BY <2>1, <2>14, <2>15, <3>1, InputKept
  <2>17. PICK l \in 0 .. FastRoom : l = sym.length
    <3>1. sym.length = 0 \/ sym.length = 1 \/ sym.length \in Lengths
      BY <2>1 DEF SymbolFits
    <3>2. /\ 0 \in 0 .. FastRoom /\ 1 \in 0 .. FastRoom
          /\ \A m \in Lengths : m \in 0 .. FastRoom
      BY SizeAssumption
    <3> QED
      BY <3>1, <3>2
  <2>18. length = 0 /\ total + (out - avail_out) = due
    <3>1. length = 0
      BY <2>1 DEF SymbolFits
    <3>2. total + (out - avail_out) + 0 = due
      BY <2>1, OutputSoFar DEF Remaining
    <3> QED
      BY <2>12, <3>1, <3>2
  <2>19. FastRoom \in Nat
    BY SizeAssumption
  <2>20. avail_out - l \in 0 .. avail_out /\ avail_out - l \in Nat
         /\ avail_out \in 0 .. avail_out /\ avail_out \in Nat /\ due + l \in Nat
         /\ l \in Nat
    BY <2>12, <2>19
  <2>21. /\ avail_out' \in 0 .. avail_out /\ avail_out' \in Nat /\ due' \in Nat
    BY <2>4, <2>17, <2>20
  <2>22. /\ mode' \in {"BAD", "TYPE", "LEN"}
         /\ mode' = "LEN" => NextSymbol(due + l)
         /\ mode' = "TYPE" => sym' = sym /\ elements' = elements
         /\ mode' = "BAD" => sym' = sym /\ elements' = elements
         /\ mode' = "BAD" => far \/ Corrupt
         /\ mode' # "BAD" => avail_out' = avail_out - l
    BY <2>1, <2>4, <2>17
  <2>23. mode' = "LEN" =>
           /\ sym' \in Symbol /\ elements' \in Nat /\ sym'.code >= 1
           /\ \/ sym'.kind = "literal" /\ sym'.length = 1
              \/ sym'.kind = "end" /\ sym'.length = 0
              \/ sym'.kind = "match" /\ sym'.length \in Lengths
                   /\ sym'.distance >= 1
           /\ sym'.kind # "match" =>
                sym'.lenext = 0 /\ sym'.dist = 0 /\ sym'.distext = 0
           /\ ~Corrupt => sym'.distance <= due + l
    BY <2>20, <2>22, SymbolsFit
  <2>24. sym' \in Symbol /\ elements' \in Nat
    BY <2>22, <2>23 DEF SymbolFits, TypeOK
  <2>25. TypeOK'
    <3>1. bits' \in 0 .. 47
      BY <2>14
    <3>2. UNCHANGED <<in_used, last, length, offset, nread, total, circular,
                      in, out, flags, wrap, pc, ret>>
      BY <2>4
    <3> QED
      BY <2>14, <2>21, <2>22, <2>24, <3>1, <3>2 DEF TypeOK, circular
  <2>26. mode' = "BAD" => Corrupt
    <3>1. SUFFICES ASSUME ~Corrupt, far PROVE FALSE
      BY <2>22
    <3>2. sym.distance <= due /\ sym.distance \in 0 .. WSIZE
      BY <2>1, <3>1, SymbolTypes DEF ReachesOutput
    <3>3. whave = MIN(total, WSIZE)
      BY <2>1 DEF WindowInOrder, Ending
    <3>4. sym.distance - (out - avail_out) > whave
      BY <3>1 DEF far
    <3>5. PICK o \in 0 .. WSIZE : o = sym.distance
      BY <3>2
    <3> QED
      BY <2>12, <2>18, <3>2, <3>3, <3>4, <3>5, SizeAssumption DEF MIN
  <2>27. OutputAccounted'
    <3>1. total + (out - (avail_out - l)) + 0 = due + l
      BY <2>12, <2>18, <2>20
    <3>2. total' = total /\ out' = out /\ due' = due + l
      BY <2>4, <2>17
    <3>3. mode' # "BAD" => Remaining' = 0
      BY <2>22 DEF Remaining
    <3>4. mode' # "BAD" => total' + (out' - avail_out') + Remaining' = due'
      BY <2>22, <3>1, <3>2, <3>3
    <3>5. pc' = "fast"
      BY <2>1, <2>4
    <3> QED
      BY <3>4, <3>5 DEF OutputAccounted
  <2>28. ReachesOutput' /\ ValidAccepted'
    <3>1. due' = due + l
      BY <2>4, <2>17
    <3> QED
      BY <2>22, <2>23, <2>26, <3>1 DEF ReachesOutput, ValidAccepted
  <2>29. SymbolFits'
    <3>1. length' = 0
      BY <2>4, <2>18
    <3> QED
      BY <2>22, <2>23, <2>24, <3>1 DEF SymbolFits
  <2>30. WindowInOrder'
    <3>1. UNCHANGED <<total, circular>>
      BY <2>4
    <3> QED
      BY <2>1, <2>22, <3>1 DEF WindowInOrder, Ending, circular
  <2>31. CallInProgress'
    <3>1. in' = in /\ out' = out
      BY <2>4
    <3>2. avail_in' <= in' /\ avail_out' <= out'
      <4>1. \A a \in 0 .. avail_in, m \in 0 .. avail_out : a <= in /\ m <= out
        BY <2>12
      <4> QED
        BY <2>14, <2>21, <3>1, <4>1
    <3>3. b <= 8 * (in - avail_in) + 7 \/ b < c
      BY <2>1, <2>2, <2>3 DEF CallInProgress
    <3>4. b4 <= 8 * (in - (avail_in - p)) + 7
      <4>1. n >= c
        BY <2>5
      <4> QED
        BY <2>11, <2>12, <3>3, <4>1
    <3>5. bits' <= 8 * (in' - avail_in') + 7
      BY <2>4, <3>1, <3>4
    <3>6. bits' <= 30
      <4>1. b4 <= 30
        BY <2>10
      <4> QED
        BY <2>4, <4>1
    <3> QED
      BY <2>22, <3>2, <3>5, <3>6 DEF CallInProgress
  <2>32. HeldIsLess' /\ FieldsAreWhole'
    <3>1. pc' = "fast"
      BY <2>1, <2>4
    <3> QED
      BY <2>22, <3>1 DEF HeldIsLess, FieldsAreWhole, Fields
  <2> QED
    BY <2>16, <2>25, <2>27, <2>28, <2>29, <2>30, <2>31, <2>32
       DEF IndInv, Phases
<1>3. CASE FastReturn
  <2>1. /\ pc = "fast" /\ pc' = "run"
        /\ mode # "LEN" \/ ~FastPossible
        /\ avail_in' = avail_in + bits \div 8 /\ bits' = bits % 8
        /\ UNCHANGED <<avail_out, in_used, mode, last, total, counts, circular,
                       in, out, stream, ret>>
    BY <1>3 DEF FastReturn
  <2>2. /\ mode \in {"LEN", "TYPE", "BAD"}
        /\ bits <= 8 * (in - avail_in) + 7
    BY <2>1 DEF CallInProgress
  <2>3. avail_in \in 0 .. in /\ avail_out \in 0 .. out /\ in \in Nat
        /\ out \in Nat /\ bits \in Nat
    BY <2>1, Spans DEF TypeOK
  <2>4. avail_in' \in 0 .. in /\ bits' \in 0 .. 7
    BY <2>1, <2>2, <2>3
  <2>5. pos' + bits' = pos + bits + 8 * (avail_in - avail_in')
    <3>1. pos' = pos /\ pos \in Nat
      BY <2>1 DEF stream, TypeOK
    <3> QED
      BY <2>1, <2>3, <3>1
  <2>6. BitsAccounted'
    <3>1. avail_in' \in Nat /\ bits' \in Nat /\ pos' \in Nat /\ in_used' = in_used
      BY <2>1, <2>4 DEF TypeOK, stream
    <3> QED
      BY <2>1, <2>5, <3>1, InputKept
  <2>7. TypeOK'
    <3>1. avail_in' \in Nat /\ bits' \in 0 .. 47
      BY <2>4
    <3> QED
      BY <2>1, <3>1 DEF TypeOK, counts, circular, stream
  <2>8. OutputAccounted'
    BY <2>1 DEF OutputAccounted, Remaining, Dead, counts, stream
  <2>9. HeldIsLess'
    BY <2>4 DEF HeldIsLess
  <2>10. FieldsAreWhole' /\ ValidAccepted'
    BY <2>1, <2>2 DEF FieldsAreWhole, Fields, ValidAccepted
  <2>11. ReachesOutput' /\ SymbolFits'
    BY <2>1 DEF ReachesOutput, SymbolFits, counts, stream
  <2>12. WindowInOrder'
    BY <2>1 DEF WindowInOrder, Ending, circular
  <2>13. CallInProgress'
    <3>1. avail_in' <= in' /\ avail_out' <= out'
      BY <2>1, <2>3, <2>4
    <3> QED
      BY <2>1, <2>2, <3>1 DEF CallInProgress
  <2> QED
    BY <2>6, <2>7, <2>8, <2>9, <2>10, <2>11, <2>12, <2>13 DEF IndInv, Phases
<1> QED
  BY <1>1, <1>2, <1>3

\* The trailer.
LEMMA TrailerKeepsInv ==
  ASSUME IndInv, Check \/ Length
  PROVE  IndInv'
<1>0. /\ TypeOK /\ BitsAccounted /\ OutputAccounted /\ ValidAccepted
      /\ HeldIsLess /\ SymbolFits /\ ReachesOutput /\ WindowInOrder
      /\ FieldsAreWhole /\ CallInProgress
  BY DEF IndInv, Phases
<1> USE <1>0
<1>1. CASE Check
  <2>1. pc = "run" /\ mode \in Fields /\ 32 = Needed /\ TakeField(32)
    BY <1>1 DEF Check, Needed, Fields
  <2>2. avail_in' \in 0 .. avail_in /\ bits' = 0 /\ pos' \in Nat
    BY <2>1, TakenField
  <2>3. pos' + bits' = pos + bits + 8 * (avail_in - avail_in')
    BY <2>1, TakenField
  <2>4. pc' = "run" /\ in_used' = in_used
    BY <1>1 DEF Check, Proceed
  <2>5. BitsAccounted' /\ HeldIsLess' /\ FieldsAreWhole'
    BY <2>1, <2>2, <2>3, <2>4, BitsTaken
  <2>6. TypeOK'
    BY <1>1, <2>2
       DEF TypeOK, CallInProgress, Check, Proceed, Reject, counts, circular
  <2>7. OutputAccounted'
    BY <1>1, <2>2
       DEF OutputAccounted, TypeOK, Remaining, Dead, SymbolFits, Check,
           Proceed, Reject, counts, circular
  <2>8. ReachesOutput' /\ ValidAccepted'
    BY <1>1, <2>2, SymbolTypes
       DEF ReachesOutput, ValidAccepted, TypeOK, SymbolFits, Check, Proceed,
           Reject, counts, circular
  <2>9. SymbolFits'
    BY <1>1, <2>2, SizeAssumption, SymbolTypes
       DEF SymbolFits, TypeOK, Check, Proceed, Reject, counts, circular
  <2>10. WindowInOrder'
    BY <1>1, <2>2
       DEF WindowInOrder, Ending, TypeOK, Check, Proceed, Reject, counts,
           circular
  <2>11. CallInProgress'
    BY <1>1, <2>2
       DEF CallInProgress, TypeOK, Check, Proceed, Reject, counts, circular
  <2> QED
    BY <2>5, <2>6, <2>7, <2>8, <2>9, <2>10, <2>11 DEF IndInv, Phases
<1>2. CASE Length
  <2>1. pc = "run" /\ mode \in Fields /\ Needed \in {0, 16, 32}
        /\ IF Needed = 0 THEN UNCHANGED <<avail_in, bits, pos>>
                           ELSE TakeField(Needed)
    BY <1>2 DEF Length, Needed, Fields
  <2>2. avail_in' \in 0 .. avail_in /\ bits' = 0 /\ pos' \in Nat
    BY <2>1, OptionalField
  <2>3. pos' + bits' = pos + bits + 8 * (avail_in - avail_in')
    BY <2>1, OptionalField
  <2>4. pc' = "run" /\ in_used' = in_used
    BY <1>2 DEF Length, Proceed
  <2>5. BitsAccounted' /\ HeldIsLess' /\ FieldsAreWhole'
    BY <2>1, <2>2, <2>3, <2>4, BitsTaken
  <2>6. TypeOK'
    BY <1>2, <2>2 DEF TypeOK, Length, Proceed, Reject, counts, circular
  <2>7. OutputAccounted'
    BY <1>2, <2>2
       DEF OutputAccounted, TypeOK, Remaining, Dead, SymbolFits, Length,
           Proceed, Reject, counts, circular
  <2>8. ReachesOutput' /\ ValidAccepted'
    BY <1>2, <2>2, SymbolTypes
       DEF ReachesOutput, ValidAccepted, TypeOK, SymbolFits, Length, Proceed,
           Reject, counts, circular
  <2>9. SymbolFits'
    BY <1>2, <2>2, SizeAssumption, SymbolTypes
       DEF SymbolFits, TypeOK, Length, Proceed, Reject, counts, circular
  <2>10. WindowInOrder'
    BY <1>2, <2>2
       DEF WindowInOrder, Ending, TypeOK, Length, Proceed, Reject, counts,
           circular
  <2>11. CallInProgress'
    BY <1>2, <2>2, <2>4
       DEF CallInProgress, TypeOK, Length, Proceed, Reject, counts, circular
  <2> QED
    BY <2>5, <2>6, <2>7, <2>8, <2>9, <2>10, <2>11 DEF IndInv, Phases
<1> QED
  BY <1>1, <1>2

\* The ways a call ends before the stream does, and after.
LEMMA EndsKeepInv ==
  ASSUME IndInv, Starve \/ NoRoom \/ Over
  PROVE  IndInv'
<1>0. /\ TypeOK /\ BitsAccounted /\ OutputAccounted /\ ValidAccepted
      /\ HeldIsLess /\ SymbolFits /\ ReachesOutput /\ WindowInOrder
      /\ FieldsAreWhole /\ CallInProgress
  BY DEF IndInv, Phases
<1> USE <1>0
<1>1. CASE Starve
  <2>1. /\ pc = "run" /\ ~Enough(Needed) /\ avail_in' = 0 /\ Leave("OK")
        /\ bits' = Aligned + 8 * avail_in /\ pos' = pos + (bits - Aligned)
        /\ UNCHANGED <<mode, last, length, offset, nread, flags, wrap, sym,
                       elements, due>>
    BY <1>1 DEF Starve, counts
  <2>2. /\ bits' \in 0 .. 31 /\ bits' < Needed
        /\ mode \in Fields => Aligned % 8 = 0
    BY <2>1, NeededBits, TakenAll
  <2>3. Aligned \in Nat /\ Aligned <= bits /\ avail_in \in Nat /\ pos \in Nat
        /\ bits \in Nat
    BY Alignment DEF TypeOK, Aligned
  <2>4. avail_in' \in 0 .. avail_in /\ avail_in' \in Nat /\ pos' \in Nat
        /\ pos' + bits' = pos + bits + 8 * (avail_in - avail_in')
    BY <2>1, <2>3
  <2>5. pc' \in {"idle", "abort"} /\ in_used' = in_used - avail_in' =>
          BitsAccounted'
    BY <2>1, <2>2, <2>4, CallEndsBits
  <2>6. HeldIsLess'
    BY <2>1, <2>2, NeededKept DEF HeldIsLess
  <2>7. FieldsAreWhole'
    <3>1. mode \in Fields => bits' % 8 = 0
      BY <2>1, <2>2, <2>3
    <3> QED
      BY <2>1, <3>1 DEF FieldsAreWhole, Fields
  <2>8. ~(mode = "DONE" \/ (mode = "LENGTH" /\ wrap = "zlib"))
    BY <2>2 DEF Needed
  <2> QED
    BY <2>1, <2>2, <2>4, <2>5, <2>6, <2>7, <2>8, CallEnds DEF TypeOK
<1>2. CASE NoRoom
  <2>1. /\ pc = "run" /\ mode \in {"MATCH", "LIT"} /\ Leave("OK")
        /\ UNCHANGED <<avail_in, bits, mode, last, length, offset, nread, flags,
                       wrap, sym, elements, pos, due>>
    BY <1>2 DEF NoRoom, counts, stream
  <2>2. bits \in 0 .. 7
    <3>1. Needed = 0
      BY <2>1 DEF Needed
    <3> QED
      BY <2>1, <3>1, LittleHeld
  <2>3. /\ avail_in' \in 0 .. avail_in /\ avail_in' \in Nat /\ pos' \in Nat
        /\ bits' \in 0 .. 31 /\ bits' \in Nat
        /\ pos' + bits' = pos + bits + 8 * (avail_in - avail_in')
    BY <2>1, <2>2 DEF TypeOK
  <2>4. pc' \in {"idle", "abort"} /\ in_used' = in_used - avail_in' =>
          BitsAccounted'
    BY <2>1, <2>3, CallEndsBits
  <2>5. HeldIsLess' /\ FieldsAreWhole'
    BY <2>1, <2>2 DEF HeldIsLess, FieldsAreWhole, Fields
  <2> QED
    BY <2>1, <2>3, <2>4, <2>5, CallEnds DEF TypeOK
<1>3. CASE Over
  <2>1. /\ pc = "run" /\ mode \in {"DONE", "BAD"}
        /\ \E r \in {"OK", "STREAM_END", "DATA_ERROR"} : Leave(r)
        /\ UNCHANGED <<avail_in, bits, mode, last, length, offset, nread, flags,
                       wrap, sym, elements, pos, due>>
    BY <1>3 DEF Over, counts, stream
  <2>2. bits \in 0 .. 7
    <3>1. Needed = 0
      BY <2>1 DEF Needed
    <3> QED
      BY <2>1, <3>1, LittleHeld
  <2>3. /\ avail_in' \in 0 .. avail_in /\ avail_in' \in Nat /\ pos' \in Nat
        /\ bits' \in 0 .. 31 /\ bits' \in Nat
        /\ pos' + bits' = pos + bits + 8 * (avail_in - avail_in')
    BY <2>1, <2>2 DEF TypeOK
  <2>4. pc' \in {"idle", "abort"} /\ in_used' = in_used - avail_in' =>
          BitsAccounted'
    BY <2>1, <2>3, CallEndsBits
  <2>5. HeldIsLess' /\ FieldsAreWhole'
    BY <2>1, <2>2 DEF HeldIsLess, FieldsAreWhole, Fields
  <2>6. mode = "DONE" \/ (mode = "LENGTH" /\ wrap = "zlib") => bits' = 0
    BY <2>1 DEF CallInProgress
  <2> QED
    BY <2>1, <2>3, <2>4, <2>5, <2>6, CallEnds DEF TypeOK
<1> QED
  BY <1>1, <1>2, <1>3

\* The next call.
LEMMA CallKeepsInv ==
  ASSUME IndInv, NEW n \in Nat, NEW m \in Nat, Decompress(n, m)
  PROVE  IndInv'
<1>0. /\ TypeOK /\ BitsAccounted /\ OutputAccounted /\ ValidAccepted
      /\ HeldIsLess /\ SymbolFits /\ ReachesOutput /\ WindowInOrder
      /\ FieldsAreWhole /\ CallInProgress
  BY DEF IndInv, Phases
<1> USE <1>0
<1>1. PICK a \in Nat : a = IF avail_in = 0 THEN n ELSE avail_in
  BY DEF TypeOK
<1>2. /\ pc = "idle" /\ pc' \in {"abort", "run"}
      /\ avail_in' = a /\ avail_out' = m /\ in' = a /\ out' = m
      /\ in_used' = in_used + a
      /\ UNCHANGED <<mode, last, bits, total, counts, circular, stream, ret>>
  BY <1>1 DEF Decompress
<1>3. in_used + a \in Nat /\ (in_used + a) - a = in_used
  BY <1>1 DEF TypeOK
<1>4. TypeOK'
  BY <1>2, <1>3 DEF TypeOK, counts, circular, stream
<1>5. BitsAccounted'
  <2>1. 8 * in_used - bits = pos
    BY <1>2 DEF BitsAccounted, Consumed, Dead
  <2>2. pc' = "run" => Consumed' = in_used
    BY <1>2, <1>3 DEF Consumed
  <2>3. bits' = bits /\ pos' = pos
    BY <1>2 DEF stream
  <2> QED
    BY <1>2, <2>1, <2>2, <2>3 DEF BitsAccounted, Dead
<1>6. OutputAccounted'
  <2>1. mode # "BAD" => total + 0 + Remaining = due
    BY <1>2 DEF OutputAccounted, Dead
  <2>2. out' - avail_out' = 0
    BY <1>2
  <2>3. Remaining' = Remaining /\ mode' = mode /\ total' = total /\ due' = due
    BY <1>2 DEF Remaining, counts, stream
  <2> QED
    BY <1>2, <2>1, <2>2, <2>3 DEF OutputAccounted, Dead
<1>7. HeldIsLess'
  <2>1. Needed' = Needed
    BY <1>2, NeededKept DEF counts, stream
  <2> QED
    BY <1>2, <2>1 DEF HeldIsLess
<1>8. FieldsAreWhole' /\ ValidAccepted'
  BY <1>2 DEF FieldsAreWhole, Fields, ValidAccepted
<1>9. ReachesOutput' /\ SymbolFits'
  BY <1>2 DEF ReachesOutput, SymbolFits, counts, stream
<1>10. WindowInOrder'
  BY <1>2 DEF WindowInOrder, Ending, circular
<1>11. CallInProgress'
  <2>1. a <= a /\ m <= m
    OBVIOUS
  <2> QED
    BY <1>2, <2>1 DEF CallInProgress, stream
<1> QED
  BY <1>4, <1>5, <1>6, <1>7, <1>8, <1>9, <1>10, <1>11 DEF IndInv, Phases

\* In particular within the bounds of a run.
LEMMA CallerKeepsInv ==
  ASSUME IndInv, Caller
  PROVE  IndInv'
<1>1. PICK n \in Inputs, m \in Outputs : Decompress(n, m)
  BY DEF Caller
<1> QED
  BY <1>1, CallKeepsInv, CallerAssumption

\* Nothing of the invariant depends on more than the variables.
LEMMA StutterKeepsInv ==
  ASSUME IndInv, UNCHANGED vars
  PROVE  IndInv'
BY DEF IndInv, Phases, vars, TypeOK, BitsAccounted, Consumed, Dead,
       OutputAccounted, Remaining, ValidAccepted, HeldIsLess, Needed,
       SymbolFits, ReachesOutput, WindowInOrder, Ending, FieldsAreWhole, Fields,
       CallInProgress, FastPossible

\* The object as it is constructed.
LEMMA InitEstablishesInv == Init => IndInv
<1> SUFFICES ASSUME Init PROVE IndInv
  OBVIOUS
<1>1. TypeOK
  <2>1. 0 \in 0 .. WSIZE - 1 /\ 0 \in 0 .. WSIZE
    BY SizeAssumption
  <2>2. window \in [0 .. WSIZE - 1 -> Int]
    BY DEF Init
  <2>3. flags \subseteq HeaderFlags /\ wrap \in Formats
    BY DEF Init
  <2>4. /\ avail_in = 0 /\ avail_out = 0 /\ in_used = 0 /\ mode = "HEAD"
        /\ last = FALSE /\ bits = 0 /\ length = 0 /\ offset = 0 /\ nread = 0
        /\ total = 0 /\ wsize = 0 /\ whave = 0 /\ wnext = 0 /\ in = 0
        /\ out = 0 /\ elements = 0 /\ pos = 0 /\ due = 0 /\ pc = "idle"
        /\ ret = "OK"
    BY DEF Init
  <2>5. /\ avail_in \in Nat /\ avail_out \in Nat /\ in_used \in Nat
        /\ bits \in 0 .. 47 /\ length \in Nat /\ nread \in Nat /\ total \in Nat
        /\ in \in Nat /\ out \in Nat
        /\ elements \in Nat /\ pos \in Nat /\ due \in Nat
    BY <2>4
  <2>6. /\ offset \in 0 .. WSIZE /\ whave \in 0 .. WSIZE
        /\ wnext \in 0 .. WSIZE - 1 /\ wsize \in {0, WSIZE}
    BY <2>1, <2>4
  <2>7. mode = "HEAD" /\ pc = "idle" /\ ret = "OK"
    BY <2>4
  <2>8. last \in BOOLEAN
    BY <2>4, Zenon
  <2> QED
    BY <2>2, <2>3, <2>5, <2>6, <2>7, <2>8 DEF TypeOK
<1>2. BitsAccounted /\ OutputAccounted /\ ValidAccepted /\ HeldIsLess
  BY DEF Init, BitsAccounted, Consumed, Dead, OutputAccounted, Remaining,
         ValidAccepted, HeldIsLess
<1>3. SymbolFits /\ ReachesOutput /\ FieldsAreWhole /\ CallInProgress
  <2>1. sym \in Symbol
    BY SizeAssumption DEF Init, NoSym, Symbol
  <2> QED
    BY <2>1 DEF Init, SymbolFits, ReachesOutput, FieldsAreWhole, CallInProgress
<1>4. WindowInOrder
  BY SizeAssumption DEF Init, WindowInOrder, MIN
<1> QED
  BY <1>1, <1>2, <1>3, <1>4 DEF IndInv, Phases

\* The invariant holds of every run of the engine, in either format, with any
\* window and spans, on streams valid or not.
THEOREM Invariance == Spec => []IndInv
<1>1. IndInv /\ [Next]_vars => IndInv'
  <2> SUFFICES ASSUME IndInv, [Next]_vars PROVE IndInv'
    OBVIOUS
  <2>1. CASE Engine
    BY <2>1, HeadersKeepInv, BlocksKeepInv, CodesKeepInv, FastKeepsInv,
       TrailerKeepsInv, EndsKeepInv DEF Engine
  <2>2. CASE Caller
    BY <2>2, CallerKeepsInv
  <2>3. CASE Aborted \/ UNCHANGED vars
    BY <2>3, StutterKeepsInv DEF Aborted
  <2> QED
    BY <2>1, <2>2, <2>3 DEF Next
<1> QED
  BY <1>1, InitEstablishesInv, PTL DEF Spec

\* The state stays within its types: the accumulator never overflows, the
\* window's positions never leave the window.
THEOREM TypeCorrect == Spec => []TypeOK
<1>1. IndInv => TypeOK
  BY DEF IndInv
<1> QED
  BY <1>1, Invariance, PTL

\* No bit of the input is lost or read twice, whatever the calls' spans, and
\* bytesUsed() at the stream's end is exactly its length.
THEOREM InputIsAccounted == Spec => []InputAccounted
<1>1. IndInv => InputAccounted
  <2> SUFFICES ASSUME IndInv PROVE InputAccounted
    OBVIOUS
  <2>1. TypeOK /\ BitsAccounted /\ CallInProgress
    BY DEF IndInv, Phases
  <2>2. Consumed \in Int
    BY <2>1 DEF TypeOK, Consumed
  <2>3. UsedExactly
    <3>1. mode = "DONE" => bits = 0
      BY <2>1 DEF CallInProgress
    <3> QED
      BY <2>1, <2>2, <3>1 DEF UsedExactly, BitsAccounted, Dead
  <2> QED
    BY <2>1, <2>3 DEF InputAccounted
<1> QED
  BY <1>1, Invariance, PTL

\* What the decoded elements stand for is in the output, or waits in `length`.
THEOREM OutputIsAccounted == Spec => []OutputAccounted
<1>1. IndInv => OutputAccounted
  BY DEF IndInv
<1> QED
  BY <1>1, Invariance, PTL

\* A valid stream is accepted, however it is cut into calls.
THEOREM ValidIsAccepted == Spec => []ValidAccepted
<1>1. IndInv => ValidAccepted
  BY DEF IndInv
<1> QED
  BY <1>1, Invariance, PTL

\* Going back from wnext comes to the window's end after its start.
LEMMA Backwards ==
  ASSUME NEW w \in 0 .. WSIZE - 1, NEW d \in 1 .. WSIZE
  PROVE  (w - d) % WSIZE = IF d <= w THEN w - d ELSE w - d + WSIZE
BY SizeAssumption

\* Matches of later calls find the output of earlier ones in the window, in
\* order over its end, and copy just the bytes they refer to.
THEOREM WindowIsRight == Spec => []WindowServesMatches
<1>1. IndInv => WindowServesMatches
  <2> SUFFICES ASSUME IndInv PROVE WindowServesMatches
    OBVIOUS
  <2>1. TypeOK /\ WindowInOrder /\ CallInProgress
    BY DEF IndInv, Phases
  <2>2. /\ WSIZE \in Nat \ {0} /\ wnext \in 0 .. WSIZE - 1
        /\ whave \in 0 .. WSIZE /\ total \in Nat
        /\ whave < WSIZE => wnext = whave
        /\ wsize \in {0, WSIZE} /\ (wsize = 0 => whave = 0)
    BY <2>1, SizeAssumption DEF TypeOK, WindowInOrder
  <2>3. ASSUME ~Ending
        PROVE  \A i \in 0 .. WSIZE - 1 :
                 /\ i < wnext => window[i] = total - wnext + i
                 /\ i >= wnext /\ whave = WSIZE =>
                      window[i] = total - wnext - WSIZE + i
    BY <2>1, <2>3 DEF WindowInOrder
  <2>4. WindowHoldsOutput
    <3> SUFFICES ASSUME pc = "idle",
                        mode \notin {"CHECK", "LENGTH", "DONE", "BAD"}
                 PROVE  /\ whave = MIN(total, WSIZE)
                        /\ \A d \in 1 .. whave :
                             window[(wnext - d) % WSIZE] = total - d
      BY DEF WindowHoldsOutput
    <3>1. ~Ending
      BY DEF Ending
    <3>2. whave = MIN(total, WSIZE)
      BY <2>1, <3>1 DEF WindowInOrder
    <3>3. ASSUME NEW d \in 1 .. whave
          PROVE  window[(wnext - d) % WSIZE] = total - d
      <4> DEFINE i == IF d <= wnext THEN wnext - d ELSE wnext - d + WSIZE
      <4>1. d \in 1 .. WSIZE
        BY <2>2
      <4>2. (wnext - d) % WSIZE = i
        BY <2>2, <4>1, Backwards
      <4>3. /\ i \in 0 .. WSIZE - 1
            /\ d <= wnext => i < wnext
            /\ ~(d <= wnext) => i >= wnext /\ whave = WSIZE
        BY <2>2
      <4>4. CASE d <= wnext
        <5>1. window[i] = total - wnext + i
          BY <2>3, <3>1, <4>3, <4>4
        <5> QED
          BY <2>2, <4>2, <4>4, <5>1
      <4>5. CASE ~(d <= wnext)
        <5>1. window[i] = total - wnext - WSIZE + i
          BY <2>3, <3>1, <4>3, <4>5
        <5> QED
          BY <2>2, <4>2, <4>5, <5>1
      <4> QED
        BY <4>4, <4>5
    <3> QED
      BY <3>2, <3>3
  <2>5. MatchReadsOutput
    <3> SUFFICES ASSUME pc = "run", mode = "MATCH", Back \in 1 .. whave,
                        NEW k \in 0 .. CopyLength - 1
                 PROVE  /\ From + k < WSIZE
                        /\ window[From + k]
                             = total + (out - avail_out) + k - offset
      BY DEF MatchReadsOutput
    <3>1. ~Ending
      BY DEF Ending
    <3>2. PICK o \in Nat : o = out - avail_out
      BY <2>1, Spans
    <3>3. PICK b \in 1 .. whave : b = Back
      OBVIOUS
    <3>4. offset = b + o
      BY <2>1, <3>2, <3>3 DEF Back, TypeOK
    <3>5. k \in Nat /\ (b > wnext => k < b - wnext) /\ (b <= wnext => k < b)
      <4>1. CopyLength \in Nat /\ (b > wnext => CopyLength <= b - wnext)
            /\ (b <= wnext => CopyLength <= b)
        BY <2>1, <2>2, <3>3 DEF CopyLength, MIN, TypeOK
      <4> QED
        BY <2>2, <3>3, <4>1
    <3>6. From = IF b > wnext THEN wnext + WSIZE - b ELSE wnext - b
      BY <2>2, <3>3 DEF From
    <3>7. CASE b > wnext
      <4>1. whave = WSIZE /\ From + k \in wnext .. WSIZE - 1
        BY <2>2, <3>5, <3>6, <3>7
      <4>2. window[From + k] = total - wnext - WSIZE + (From + k)
        BY <2>2, <2>3, <3>1, <4>1
      <4> QED
        BY <2>2, <3>2, <3>4, <3>5, <3>6, <3>7, <4>1, <4>2
    <3>8. CASE ~(b > wnext)
      <4>1. From + k \in 0 .. wnext - 1
        BY <2>2, <3>5, <3>6, <3>8
      <4>2. window[From + k] = total - wnext + (From + k)
        BY <2>2, <2>3, <3>1, <4>1
      <4> QED
        BY <2>2, <3>2, <3>4, <3>5, <3>6, <3>8, <4>1, <4>2
    <3> QED
      BY <3>7, <3>8
  <2> QED
    BY <2>4, <2>5 DEF WindowServesMatches
<1> QED
  BY <1>1, Invariance, PTL

\* inflate_fast takes no input that was not offered, and gives back no more
\* than it took.
THEOREM FastIsInInput == Spec => []FastStaysInInput
<1>1. IndInv => FastStaysInInput
  BY Spans DEF IndInv, Phases, FastStaysInInput
<1> QED
  BY <1>1, Invariance, PTL

----------------------------------------------------------------------------
(***************************************************************************)
(* The loops around the engine.                                            *)
(***************************************************************************)


HeaderModes == {"HEAD", "FLAGS", "TIME", "OS", "EXLEN", "EXTRA", "NAME",
                "COMMENT", "HCRC", "DICTID", "DICT"}

\* What the loops rely on: a call ends for want of input or of room, or at the
\* stream's end; a literal or match waits for nothing but room; a call has
\* room to start with; before the first block there is no output.
LoopsInOrder ==
  /\ pc \in {"run", "fast"} => op # "none"
  /\ pc = "idle" => avail_in = 0 \/ avail_out = 0 \/ mode = "DONE"
  /\ pc = "idle" /\ mode \in {"MATCH", "LIT"} => avail_out = 0
  /\ pc \in {"run", "fast"} /\ ~Ending => out # 0
  /\ mode \in HeaderModes => due = 0
  /\ mode \in {"DICTID", "DICT"} => wrap = "zlib"

DIndInv ==
  /\ IndInv /\ op \in {"none", "vector", "oneshot", "drain"}
  /\ LoopsInOrder
  /\ op = "none" /\ ~Dead => avail_in = 0 \/ mode = "DONE"
  /\ AbortsForTwoReasons

\* The parts of the engine's invariant by name.
LEMMA Parts ==
  ASSUME IndInv
  PROVE  /\ TypeOK /\ BitsAccounted /\ OutputAccounted /\ ValidAccepted
         /\ HeldIsLess /\ SymbolFits /\ ReachesOutput /\ WindowInOrder
         /\ FieldsAreWhole /\ CallInProgress
BY DEF IndInv, Phases

\* How a call ends.
LEMMA LeaveResult ==
  ASSUME NEW r \in {"OK", "STREAM_END", "DATA_ERROR"}, Leave(r)
  PROVE  /\ pc' \in {"idle", "abort"}
         /\ pc' = "idle" => r \in {"OK", "STREAM_END"}
         /\ pc' = "abort" =>
              \/ r = "DATA_ERROR"
              \/ r = "OK" /\ ret' = "BUF_ERROR" /\ in = avail_in'
                   /\ out = avail_out
         /\ total' = total + (out - avail_out)
         /\ UNCHANGED <<avail_out, in, out>>
BY DEF Leave, Return

\* Starving never happens to a mode that needs no input.
LEMMA StarveNeeds ==
  ASSUME IndInv, Starve
  PROVE  Needed # 0
<1>1. TypeOK /\ HeldIsLess /\ SymbolFits /\ pc = "run" /\ ~Enough(Needed)
  BY Parts DEF Starve
<1>2. Needed \in 0 .. 32
  BY <1>1, NeededBits
<1>3. Aligned + 8 * avail_in \in 0 .. 31 /\ Aligned + 8 * avail_in < Needed
  BY <1>1, <1>2, TakenAll
<1> QED
  BY <1>2, <1>3

\* A call that ends, for whichever reason.
LEMMA EndsKeepLoops ==
  ASSUME IndInv, LoopsInOrder, UNCHANGED <<op, mode, due, wrap>>,
         NEW r \in {"OK", "STREAM_END", "DATA_ERROR"}, Leave(r),
         r = "OK" => avail_in' = 0 \/ avail_out = 0,
         r = "STREAM_END" => mode = "DONE",
         mode \in {"MATCH", "LIT"} => avail_out = 0
  PROVE  LoopsInOrder'
BY LeaveResult DEF LoopsInOrder, HeaderModes

\* A step that stays in the call.
LEMMA RunKeepsLoops ==
  ASSUME LoopsInOrder, pc \in {"run", "fast"}, pc' \in {"run", "fast"},
         op' = op, out' = out, ~Ending' => ~Ending,
         mode' \in HeaderModes => mode \in HeaderModes /\ due' = due,
         mode' \in {"DICTID", "DICT"} => wrap' = "zlib"
  PROVE  LoopsInOrder'
BY DEF LoopsInOrder

LEMMA EngineKeepsLoops ==
  ASSUME IndInv, LoopsInOrder, Engine, UNCHANGED op
  PROVE  LoopsInOrder'
<1> USE Parts
<1>1. CASE Head \/ Flags \/ HeaderField \/ ExtraLength
  BY <1>1, RunKeepsLoops
     DEF Head, Flags, HeaderField, ExtraLength, Proceed, Ending, HeaderModes,
         LoopsInOrder
<1>2. CASE \/ BlockType \/ LastBlockDone \/ Stored \/ Copied \/ Table \/ LenLens
           \/ CodeTable \/ CodeLens \/ Tables
  BY <1>2, RunKeepsLoops
     DEF BlockType, LastBlockDone, Stored, Copied, Table, LenLens, CodeTable,
         CodeLens, Tables, Proceed, Ending, HeaderModes
<1>3. CASE Len \/ LenExt \/ Dist \/ DistExt \/ Match \/ Lit
  <2>1. CASE Len
    <3>1. mode' \in {"LIT", "LENEXT", "TYPE", "BAD"}
      BY <2>1 DEF Len, SymbolFits
    <3> QED
      BY <2>1, <3>1, RunKeepsLoops DEF Len, Ending, HeaderModes
  <2>2. CASE LenExt \/ Dist \/ DistExt \/ Match \/ Lit
    BY <2>2, RunKeepsLoops
       DEF LenExt, Dist, DistExt, Match, Lit, Proceed, Ending, HeaderModes
  <2> QED
    BY <1>3, <2>1, <2>2
<1>4. CASE EnterFast \/ FastRound \/ FastReturn
  <2>1. CASE EnterFast
    BY <2>1, RunKeepsLoops DEF EnterFast, stream, Ending, HeaderModes
  <2>2. CASE FastRound
    <3>1. /\ mode = "LEN" /\ mode' \in {"LEN", "TYPE", "BAD"}
          /\ pc = "fast" /\ pc' = pc /\ out' = out
      BY <2>2 DEF FastRound
    <3> QED
      BY <3>1, RunKeepsLoops DEF Ending, HeaderModes
  <2>3. CASE FastReturn
    <3>1. mode' = mode /\ mode \in {"LEN", "TYPE", "BAD"}
      BY <2>3 DEF FastReturn, CallInProgress
    <3> QED
      BY <2>3, <3>1, RunKeepsLoops DEF FastReturn, Ending, HeaderModes
  <2> QED
    BY <1>4, <2>1, <2>2, <2>3
<1>5. CASE Check \/ Length
  BY <1>5 DEF Check, Length, Proceed, Ending, HeaderModes, LoopsInOrder
<1>6. CASE Starve
  <2>1. mode \notin {"MATCH", "LIT"}
    BY <1>6, StarveNeeds DEF Needed
  <2> QED
    BY <1>6, <2>1, EndsKeepLoops DEF Starve
<1>7. CASE NoRoom
  BY <1>7, EndsKeepLoops DEF NoRoom, stream
<1>8. CASE Over
  <2>1. CASE mode = "DONE"
    BY <1>8, <2>1, EndsKeepLoops DEF Over, stream
  <2>2. CASE mode = "BAD"
    BY <1>8, <2>2, EndsKeepLoops DEF Over, stream
  <2> QED
    BY <1>8, <2>1, <2>2 DEF Over
<1>9. CASE Extra
  <2>1. CASE Proceed("NAME")
    BY <1>9, <2>1, RunKeepsLoops DEF Extra, Proceed, Ending, HeaderModes
  <2>2. CASE ~Proceed("NAME")
    <3>1. /\ mode = "EXTRA" /\ UNCHANGED <<mode, due, wrap>> /\ Leave("OK")
          /\ avail_in' = avail_in - MIN(length, avail_in)
          /\ MIN(length, avail_in) < length
      BY <1>9, <2>2 DEF Extra
    <3>2. avail_in' = 0
      BY <3>1 DEF MIN, TypeOK
    <3> QED
      BY <3>1, <3>2, EndsKeepLoops
  <2> QED
    BY <2>1, <2>2
<1>10. CASE String
  <2>1. CASE \E next \in {"COMMENT", "HCRC"} : Proceed(next)
    BY <1>10, <2>1, RunKeepsLoops DEF String, Proceed, Ending, HeaderModes
  <2>2. CASE ~\E next \in {"COMMENT", "HCRC"} : Proceed(next)
    <3>1. /\ mode \in {"NAME", "COMMENT"} /\ UNCHANGED <<mode, due, wrap>>
          /\ Leave("OK") /\ avail_in' = 0
      BY <1>10, <2>2 DEF String
    <3> QED
      BY <3>1, EndsKeepLoops
  <2> QED
    BY <2>1, <2>2
<1>11. CASE Copy
  <2>1. CASE Leave("OK") /\ UNCHANGED avail_in
                         /\ MIN(MIN(length, avail_in), avail_out) = 0
    <3>1. mode = "COPY" /\ length # 0 /\ UNCHANGED <<mode, due, wrap>>
      BY <1>11 DEF Copy
    <3>2. avail_in' = 0 \/ avail_out = 0
      BY <2>1, <3>1 DEF MIN, TypeOK
    <3> QED
      BY <2>1, <3>1, <3>2, EndsKeepLoops
  <2>2. CASE ~(Leave("OK") /\ UNCHANGED avail_in
                         /\ MIN(MIN(length, avail_in), avail_out) = 0)
    BY <1>11, <2>2, RunKeepsLoops DEF Copy, Ending, HeaderModes
  <2> QED
    BY <2>1, <2>2
<1>12. CASE NeedDict
  BY <1>12 DEF NeedDict, Return, stream, LoopsInOrder
<1> QED
  BY <1>1, <1>2, <1>3, <1>4, <1>5, <1>6, <1>7, <1>8, <1>9, <1>10, <1>11, <1>12
     DEF Engine


\* The engine runs only within a call.
LEMMA EngineIsCalled ==
  ASSUME Engine
  PROVE  pc \in {"run", "fast"}
BY DEF Engine, Starve, Head, Flags, HeaderField, ExtraLength, Extra, String,
       NeedDict, BlockType, LastBlockDone, Stored, Copy, Copied, Table, LenLens,
       CodeTable, CodeLens, Tables, Len, LenExt, Dist, DistExt, Match, Lit,
       NoRoom, EnterFast, FastRound, FastReturn, Check, Length, Over

\* The engine's part of the invariant, step by step.
LEMMA EngineKeepsInv ==
  ASSUME IndInv, Engine
  PROVE  IndInv'
BY HeadersKeepInv, BlocksKeepInv, CodesKeepInv, FastKeepsInv, TrailerKeepsInv,
   EndsKeepInv DEF Engine

\* A call that gives up on a valid stream has taken nothing and given nothing:
\* it had no input, or it asks for a dictionary.
LEMMA EngineAborts ==
  ASSUME IndInv, LoopsInOrder, Engine
  PROVE  ~Corrupt /\ Dead' => AbortsForTwoReasons'
<1> SUFFICES ASSUME ~Corrupt, pc' = "abort" PROVE AbortsForTwoReasons'
  BY DEF Dead
<1> USE Parts
<1>1. ASSUME Leave("OK"), pc = "run", ~Ending, avail_in' = 0 \/ avail_out = 0
      PROVE  AbortsForTwoReasons'
  <2>1. ret' = "BUF_ERROR" /\ out = avail_out
    BY <1>1, LeaveResult
  <2>2. out # 0
    BY <1>1 DEF LoopsInOrder
  <2> QED
    BY <1>1, <2>1, <2>2 DEF AbortsForTwoReasons
<1>2. CASE Starve
  BY <1>2 DEF Starve, Leave, Return, AbortsForTwoReasons
<1>3. CASE Extra
  <2>1. /\ mode = "EXTRA" /\ Leave("OK") /\ MIN(length, avail_in) < length
        /\ pc = "run" /\ avail_in' = avail_in - MIN(length, avail_in)
    BY <1>3 DEF Extra, Proceed
  <2>2. avail_in' = 0
    BY <2>1 DEF MIN, TypeOK
  <2> QED
    BY <1>1, <2>1, <2>2 DEF Ending
<1>4. CASE String
  <2>1. /\ pc = "run" /\ mode \in {"NAME", "COMMENT"}
        /\ Leave("OK") /\ avail_in' = 0
    BY <1>4 DEF String, Proceed
  <2> QED
    BY <1>1, <2>1 DEF Ending
<1>5. CASE Copy
  <2>1. /\ pc = "run" /\ mode = "COPY" /\ length # 0
        /\ Leave("OK") /\ avail_in' = avail_in
        /\ MIN(MIN(length, avail_in), avail_out) = 0
    BY <1>5 DEF Copy
  <2>2. avail_in' = 0 \/ avail_out = 0
    BY <2>1 DEF MIN, TypeOK
  <2> QED
    BY <1>1, <2>1, <2>2 DEF Ending
<1>6. CASE NoRoom
  BY <1>1, <1>6 DEF NoRoom, Ending
<1>7. CASE Over
  BY <1>7 DEF Over, Leave, Return, ValidAccepted
<1>8. CASE NeedDict
  BY <1>8 DEF NeedDict, Return, stream, AbortsForTwoReasons, LoopsInOrder,
              HeaderModes
<1>9. CASE Head \/ Flags \/ HeaderField \/ ExtraLength \/ LastBlockDone
           \/ Copied \/ Table \/ LenLens \/ LenExt \/ Dist \/ DistExt \/ Length
  BY <1>9 DEF Head, Flags, HeaderField, ExtraLength, LastBlockDone, Copied,
              Table, LenLens, LenExt, Dist, DistExt, Length, Proceed
<1>10. CASE \/ BlockType \/ Stored \/ CodeTable \/ CodeLens \/ Tables \/ Len
            \/ Match \/ Lit \/ EnterFast \/ FastRound \/ FastReturn \/ Check
  BY <1>10 DEF BlockType, Stored, CodeTable, CodeLens, Tables, Len, Match, Lit,
               EnterFast, FastRound, FastReturn, Check
<1> QED
  BY <1>2, <1>3, <1>4, <1>5, <1>6, <1>7, <1>8, <1>9, <1>10 DEF Engine

\* The next call of a loop, or the first of a method.
LEMMA CallKeepsLoops ==
  ASSUME IndInv, LoopsInOrder, NEW n \in Nat, NEW m \in Nat \ {0},
         Decompress(n, m), op' # "none", n = 0 \/ avail_in = 0
  PROVE  LoopsInOrder' /\ pc' = "run"
BY DEF Decompress, LoopsInOrder, stream, Ending, HeaderModes

\* The invariant of the loops.
THEOREM DInvariance == DSpec => []DIndInv
<1>1. DInit => DIndInv
  BY InitEstablishesInv
     DEF DInit, DIndInv, Init, LoopsInOrder, AbortsForTwoReasons, Dead
<1>2. DIndInv /\ [DNext]_allvars => DIndInv'
  <2> SUFFICES ASSUME DIndInv, [DNext]_allvars PROVE DIndInv'
    OBVIOUS
  <2> USE DEF DIndInv
  <2>1. CASE Engine /\ UNCHANGED op
    <3>1. IndInv' /\ LoopsInOrder' /\ op' = op
      BY <2>1, EngineKeepsInv, EngineKeepsLoops
    <3>2. op # "none" /\ ~Dead
      BY <2>1, EngineIsCalled DEF LoopsInOrder, Dead
    <3>3. AbortsForTwoReasons'
      BY <2>1, EngineAborts DEF AbortsForTwoReasons
    <3> QED
      BY <3>1, <3>2, <3>3
  <2>2. ASSUME NEW n \in Nat, NEW m \in Nat \ {0}, Decompress(n, m),
               n = 0 \/ avail_in = 0, op' \in {"vector", "oneshot", "drain"}
        PROVE  DIndInv'
    <3>1. IndInv'
      BY <2>2, CallKeepsInv
    <3>2. LoopsInOrder' /\ pc' = "run"
      BY <2>2, CallKeepsLoops
    <3> QED
      BY <2>2, <3>1, <3>2 DEF AbortsForTwoReasons, Dead
  <2>3. CASE User
    <3>1. PICK n \in Inputs : BeginVector(n) \/ BeginOneShot(n)
      BY <2>3 DEF User
    <3>2. avail_in = 0
      BY <3>1 DEF BeginVector, BeginOneShot, Decompress, Dead
    <3> QED
      BY <2>2, <3>1, <3>2, CallerAssumption, ChunkAssumption
         DEF BeginVector, BeginOneShot
  <2>4. CASE VectorAgain \/ OneShotAgain
    BY <2>2, <2>4, ChunkAssumption DEF VectorAgain, OneShotAgain
  <2>5. CASE VectorReturns \/ OneShotReturns
    <3>1. IndInv' /\ pc = "idle" /\ op' = "none" /\ UNCHANGED vars
      BY <2>5, StutterKeepsInv DEF VectorReturns, OneShotReturns
    <3>2. avail_out # 0
      BY <2>5, ChunkAssumption
         DEF VectorReturns, OneShotReturns, Filled, Empty
    <3>3. LoopsInOrder'
      BY <3>1 DEF vars, LoopsInOrder, Ending
    <3>4. AbortsForTwoReasons'
      BY <3>1 DEF vars, AbortsForTwoReasons, Dead
    <3>5. avail_in' = 0 \/ mode' = "DONE"
      BY <3>1, <3>2 DEF vars, LoopsInOrder
    <3> QED
      BY <3>1, <3>3, <3>4, <3>5
  <2>6. CASE UNCHANGED allvars
    <3>1. IndInv' /\ UNCHANGED vars /\ op' = op
      BY <2>6, StutterKeepsInv DEF allvars
    <3> QED
      BY <3>1 DEF vars, LoopsInOrder, Ending, AbortsForTwoReasons, Dead
  <2> QED
    BY <2>1, <2>3, <2>4, <2>5, <2>6 DEF DNext, Running, Finished
<1> QED
  BY <1>1, <1>2, PTL DEF DSpec

\* A method that returns has taken all its input, so that the next piece is
\* accepted, whatever the stream holds.
THEOREM InputIsTaken == DSpec => []InputTaken
<1>1. DIndInv => InputTaken
  BY Parts DEF DIndInv, InputTaken, DTypeOK
<1> QED
  BY <1>1, DInvariance, PTL

\* The wrapper's assertion fails on a valid stream for two reasons only.
THEOREM TwoReasons == DSpec => []AbortsForTwoReasons
<1>1. DIndInv => AbortsForTwoReasons
  BY DEF DIndInv
<1> QED
  BY <1>1, DInvariance, PTL

\* The contract's view of the output: what is decoded, and what is delivered.
Waiting == IF mode \in {"COPY", "LENEXT", "DIST", "DISTEXT"}
             THEN length ELSE 0
Delivered == total + (IF pc \in {"run", "fast"} THEN out - avail_out ELSE 0)

\* All that is decoded is delivered, but for a literal or match in progress.
Balanced ==
  ~Dead /\ mode # "BAD" =>
    /\ Delivered \in Nat /\ due - Waiting \in Nat
    /\ Delivered <= due - Waiting
    /\ mode \notin {"LIT", "MATCH"} => Delivered = due - Waiting

LEMMA Balance == IndInv => Balanced
<1> SUFFICES ASSUME IndInv, ~Dead, mode # "BAD"
             PROVE  /\ Delivered \in Nat /\ due - Waiting \in Nat
                    /\ Delivered <= due - Waiting
                    /\ mode \notin {"LIT", "MATCH"} =>
                         Delivered = due - Waiting
  BY DEF Balanced
<1> USE Parts
<1>1. total \in Nat /\ length \in Nat /\ due \in Nat
  BY DEF TypeOK
<1>2. CASE pc = "idle"
  BY <1>1, <1>2 DEF OutputAccounted, Remaining, Waiting, Delivered, Dead
<1>3. CASE pc \in {"run", "fast"}
  <2>1. out - avail_out \in Nat
    BY <1>3 DEF TypeOK, CallInProgress
  <2> QED
    BY <1>1, <1>3, <2>1
       DEF OutputAccounted, Remaining, Waiting, Delivered, Dead
<1> QED
  BY <1>2, <1>3 DEF TypeOK, Dead

\* Output is never taken back, and a call that fails gives none.
LEMMA OutputGrows ==
  ASSUME IndInv, Engine, LoopsInOrder, ~Corrupt
  PROVE  /\ Delivered' >= Delivered
         /\ pc' = "abort" => Delivered' = Delivered
<1> USE Parts
<1> DEFINE Grows == /\ Delivered' >= Delivered
                    /\ pc' = "abort" => Delivered' = Delivered
<1>1. total \in Nat /\ out \in Nat /\ avail_out \in Nat /\ length \in Nat
  BY DEF TypeOK
<1>2. ASSUME Leave("OK") \/ Leave("STREAM_END") \/ Leave("DATA_ERROR"),
             pc = "run"
      PROVE  Grows
  <2>1. total' = total + (out - avail_out) /\ pc' \notin {"run", "fast"}
    BY <1>2, LeaveResult
  <2> QED
    BY <1>1, <1>2, <2>1 DEF Delivered
<1>3. ASSUME UNCHANGED <<total, out>>, avail_out' \in Nat,
             avail_out' <= avail_out,
             pc \in {"run", "fast"}, pc' \in {"run", "fast"}
      PROVE  Grows
  <2>1. Delivered = total + (out - avail_out)
    BY <1>3 DEF Delivered
  <2>2. \A a \in Nat : a <= avail_out =>
          total + (out - a) >= total + (out - avail_out)
    BY <1>1
  <2>3. Delivered' = total' + (out' - avail_out')
    BY <1>3 DEF Delivered
  <2>4. Delivered' = total + (out - avail_out')
    BY <1>3, <2>3
  <2> QED
    BY <1>3, <2>1, <2>2, <2>4
<1>4. ASSUME NEW next, Proceed(next), pc = "run"
      PROVE  Grows
  BY <1>1, <1>3, <1>4 DEF Proceed
<1>5. CASE Head \/ Flags \/ HeaderField \/ ExtraLength \/ LastBlockDone
           \/ Copied \/ Table \/ LenLens \/ LenExt \/ Dist \/ DistExt \/ Length
  BY <1>4, <1>5
     DEF Head, Flags, HeaderField, ExtraLength, LastBlockDone, Copied, Table,
         LenLens, LenExt, Dist, DistExt, Length
<1>6. CASE Extra \/ String
  BY <1>2, <1>4, <1>6 DEF Extra, String
<1>7. CASE Starve \/ NoRoom
  BY <1>2, <1>7 DEF Starve, NoRoom
<1>8. CASE Over
  <2>1. Leave("STREAM_END") \/ Leave("DATA_ERROR")
    BY <1>8 DEF Over
  <2> QED
    BY <1>2, <1>8, <2>1 DEF Over
<1>9. CASE \/ BlockType \/ Stored \/ CodeTable \/ CodeLens \/ Tables \/ Len
           \/ EnterFast \/ FastReturn
  <2>1. UNCHANGED <<total, out, avail_out>> /\ pc \in {"run", "fast"}
        /\ pc' \in {"run", "fast"}
    BY <1>9 DEF BlockType, Stored, CodeTable, CodeLens, Tables, Len, EnterFast,
                FastReturn, strm
  <2> QED
    BY <1>1, <1>3, <2>1
<1>10. CASE Match
  <2>1. CopyLength \in 0 .. avail_out
    <3>1. Back \in Int /\ wnext \in Nat
      BY <1>1, SizeAssumption DEF TypeOK, Back
    <3>2. Back > 0 /\ Back > wnext => Back - wnext > 0
      BY <3>1
    <3> QED
      BY <1>1, <3>1, <3>2 DEF CopyLength, MIN
  <2>2. avail_out' = avail_out \/ avail_out' = avail_out - CopyLength
    BY <1>10 DEF Match
  <2>3. avail_out' \in Nat /\ avail_out' <= avail_out
    BY <1>1, <2>1, <2>2
  <2> QED
    BY <1>3, <1>10, <2>3 DEF Match
<1>11. CASE Lit
  BY <1>1, <1>3, <1>11 DEF Lit
<1>12. CASE Copy
  <2>1. CASE Leave("OK")
    BY <1>2, <1>12, <2>1 DEF Copy
  <2>2. CASE ~Leave("OK")
    <3>1. /\ pc = "run" /\ pc' = "run" /\ UNCHANGED <<total, out>>
          /\ avail_out' = avail_out - MIN(MIN(length, avail_in), avail_out)
      BY <1>12, <2>2 DEF Copy
    <3>2. MIN(MIN(length, avail_in), avail_out) \in 0 .. avail_out
      BY <1>1 DEF MIN, TypeOK
    <3>3. avail_out' \in Nat /\ avail_out' <= avail_out
      BY <1>1, <3>1, <3>2
    <3> QED
      BY <1>3, <3>1, <3>3
  <2> QED
    BY <2>1, <2>2
<1>13. CASE FastRound
  <2>1. /\ mode = "LEN" /\ pc = "fast" /\ pc' = pc /\ UNCHANGED <<total, out>>
        /\ FastPossible
    BY <1>13 DEF FastRound
  <2>2. sym.length \in Nat /\ sym.length <= FastRoom
    <3>1. sym.length \in {0, 1} \cup Lengths
      BY <2>1 DEF SymbolFits
    <3>2. \A l \in {0, 1} \cup Lengths : l \in Nat /\ l <= FastRoom
      BY SizeAssumption
    <3> QED
      BY <3>1, <3>2
  <2>3. avail_out' = avail_out \/ avail_out' = avail_out - sym.length
    BY <1>13 DEF FastRound
  <2>4. avail_out' \in Nat /\ avail_out' <= avail_out
    BY <1>1, <2>1, <2>2, <2>3, SizeAssumption DEF FastPossible
  <2> QED
    BY <1>3, <2>1, <2>4
<1>14. CASE Check
  <2>1. total' = total + (out - avail_out) /\ out' = avail_out'
        /\ avail_out' = avail_out /\ pc = "run" /\ pc' = "run"
    BY <1>14 DEF Check
  <2> QED
    BY <1>1, <2>1 DEF Delivered
<1>15. CASE NeedDict
  <2>1. mode = "DICT" /\ due = 0 /\ pc = "run" /\ total' = total
        /\ pc' \notin {"run", "fast"}
    BY <1>15 DEF NeedDict, Return, LoopsInOrder, HeaderModes
  <2>2. out - avail_out = 0
    BY <1>1, <2>1 DEF OutputAccounted, Remaining, CallInProgress, Dead
  <2> QED
    BY <1>1, <2>1, <2>2 DEF Delivered
<1> QED
  BY <1>5, <1>6, <1>7, <1>8, <1>9, <1>10, <1>11, <1>12, <1>13, <1>14, <1>15
     DEF Engine

\* Neither does a call that fails, or one that writes a literal or match,
\* decode more.
LEMMA DecodedKept ==
  ASSUME IndInv, Engine, ~Corrupt, mode \in {"LIT", "MATCH"} \/ pc' = "abort"
  PROVE  due' = due /\ Waiting' = Waiting
<1> USE Parts
<1>1. CASE Starve \/ NoRoom \/ Over \/ NeedDict
  BY <1>1 DEF Starve, NoRoom, Over, NeedDict, stream, counts, Waiting
<1>2. CASE Extra \/ String \/ Copy
  <2>1. pc' = "abort"
    BY <1>2 DEF Extra, String, Copy
  <2> QED
    BY <1>2, <2>1 DEF Extra, String, Copy, Proceed, Waiting, counts
<1>3. CASE Match \/ Lit
  BY <1>3 DEF Match, Lit, Waiting
<1>4. CASE Head \/ Flags \/ HeaderField \/ ExtraLength \/ LastBlockDone
           \/ Copied \/ Table \/ LenLens \/ LenExt \/ Dist \/ DistExt \/ Length
  BY <1>4 DEF Head, Flags, HeaderField, ExtraLength, LastBlockDone, Copied,
              Table, LenLens, LenExt, Dist, DistExt, Length, Proceed
<1>5. CASE \/ BlockType \/ Stored \/ CodeTable \/ CodeLens \/ Tables \/ Len
           \/ EnterFast \/ Check
  BY <1>5 DEF BlockType, Stored, CodeTable, CodeLens, Tables, Len, EnterFast,
              Check
<1>6. CASE FastRound \/ FastReturn
  BY <1>6 DEF FastRound, FastReturn, CallInProgress
<1> QED
  BY <1>1, <1>2, <1>3, <1>4, <1>5, <1>6 DEF Engine

\* A step of the engine works within the contract.
LEMMA EngineWorks ==
  ASSUME DIndInv, DIndInv', Balanced, Balanced', ~Corrupt, Engine, op' = op
  PROVE  /\ due' - Waiting' \in Nat /\ due' - Waiting' >= due - Waiting
         /\ Delivered' \in Delivered .. due' - Waiting'
<1>1. /\ IndInv /\ LoopsInOrder /\ mode # "BAD" /\ mode' # "BAD" /\ ~Dead
  BY EngineIsCalled DEF DIndInv, IndInv, ValidAccepted, Dead
<1>2. /\ Delivered \in Nat /\ due - Waiting \in Nat
      /\ Delivered <= due - Waiting
      /\ mode \notin {"LIT", "MATCH"} => Delivered = due - Waiting
  BY <1>1 DEF Balanced
<1>3. Delivered' >= Delivered /\ (pc' = "abort" => Delivered' = Delivered)
  BY <1>1, OutputGrows
<1>4. CASE pc' = "abort"
  <2>1. due' = due /\ Waiting' = Waiting /\ Delivered' = Delivered
    BY <1>1, <1>3, <1>4, DecodedKept
  <2> QED
    BY <1>2, <2>1
<1>5. CASE pc' # "abort"
  <2>1. /\ Delivered' \in Nat /\ (due - Waiting)' \in Nat
        /\ Delivered' <= (due - Waiting)'
    BY <1>1, <1>5 DEF Balanced, Dead
  <2>2. CASE mode \in {"LIT", "MATCH"}
    <3>1. due' = due /\ Waiting' = Waiting
      BY <1>1, <2>2, DecodedKept
    <3> QED
      BY <1>2, <1>3, <2>1, <3>1
  <2>3. CASE mode \notin {"LIT", "MATCH"}
    BY <1>2, <1>3, <2>1, <2>3
  <2> QED
    BY <2>2, <2>3
<1> QED
  BY <1>4, <1>5

\* Every step of the vector interface on a valid stream is a step of the
\* contract, or changes nothing the contract speaks of: output appears in
\* order, never more than the input stands for, and a method that returns has
\* delivered all of it.
THEOREM ImplementsDecompressionContract == ~Corrupt => (DSpec => KeepsContract)
<1> SUFFICES ASSUME ~Corrupt PROVE DSpec => KeepsContract
  OBVIOUS
<1>1. DIndInv => Balanced
  BY Balance DEF DIndInv
<1>2. DInit => Contract!Init
  BY DEF DInit, Init, Contract!Init
<1>3. /\ DIndInv /\ DIndInv' /\ Balanced /\ Balanced' /\ [DNext]_allvars
      => [Contract!Next]_Contract!vars
  <2> SUFFICES ASSUME DIndInv, DIndInv', Balanced, Balanced', [DNext]_allvars
               PROVE  [Contract!Next]_Contract!vars
    OBVIOUS
  <2>1. CASE Engine /\ UNCHANGED op
    <3>1. op # "none"
      BY <2>1, EngineIsCalled DEF DIndInv, LoopsInOrder
    <3>2. /\ due' - Waiting' \in Nat /\ due' - Waiting' >= due - Waiting
          /\ Delivered' \in Delivered .. due' - Waiting'
      BY <2>1, EngineWorks
    <3>3. Contract!Work
      BY <2>1, <3>1, <3>2 DEF Contract!Work, Waiting, Delivered
    <3> QED
      BY <3>3 DEF Contract!Next
  <2>2. ASSUME NEW n \in Nat, NEW m \in Nat \ {0}, Decompress(n, m),
               n = 0 \/ avail_in = 0, op' # "none"
        PROVE  Waiting' = Waiting /\ due' = due /\ Delivered' = Delivered
    <3>1. pc = "idle" /\ pc' = "run" /\ out' = m /\ avail_out' = m
          /\ UNCHANGED <<mode, total, length, due>>
      BY <2>2 DEF Decompress, counts, stream
    <3>2. Delivered' = total + (m - m)
      BY <3>1 DEF Delivered
    <3>3. Delivered = total + 0
      BY <3>1 DEF Delivered
    <3> QED
      BY <2>2, <3>1, <3>2, <3>3 DEF Waiting
  <2>3. CASE User
    <3>1. PICK n \in Inputs : BeginVector(n) \/ BeginOneShot(n)
      BY <2>3 DEF User
    <3>2. avail_in = 0 /\ op = "none" /\ op' # "none" /\ mode # "DONE"
      BY <3>1 DEF BeginVector, BeginOneShot, Decompress, Dead, DIndInv
    <3>3. Waiting' = Waiting /\ due' = due /\ Delivered' = Delivered
      BY <2>2, <3>1, <3>2, CallerAssumption, ChunkAssumption
         DEF BeginVector, BeginOneShot
    <3>4. Contract!Call
      BY <3>2, <3>3 DEF Contract!Call, Waiting, Delivered
    <3> QED
      BY <3>4 DEF Contract!Next
  <2>4. CASE VectorAgain \/ OneShotAgain
    <3>1. op # "none" /\ op' # "none"
      BY <2>4 DEF VectorAgain, OneShotAgain
    <3>2. Waiting' = Waiting /\ due' = due /\ Delivered' = Delivered
      BY <2>2, <2>4, ChunkAssumption DEF VectorAgain, OneShotAgain
    <3> QED
      BY <3>1, <3>2 DEF Contract!vars, Waiting, Delivered
  <2>5. CASE VectorReturns \/ OneShotReturns
    <3>1. /\ pc = "idle" /\ op # "none" /\ op' = "none"
          /\ UNCHANGED <<pc, mode, total, length, due, out, avail_out>>
      BY <2>5 DEF VectorReturns, OneShotReturns, vars
    <3>2. avail_out # 0
      BY <2>5, ChunkAssumption
         DEF VectorReturns, OneShotReturns, Filled, Empty
    <3>3. Delivered = due - Waiting
      BY <3>1, <3>2
         DEF Balanced, Dead, DIndInv, IndInv, ValidAccepted, LoopsInOrder
    <3>4. Waiting' = Waiting /\ due' = due /\ Delivered' = Delivered
      BY <3>1 DEF Waiting, Delivered
    <3>5. Contract!Return
      BY <3>1, <3>3, <3>4 DEF Contract!Return, Waiting, Delivered
    <3> QED
      BY <3>5 DEF Contract!Next
  <2>6. CASE UNCHANGED allvars
    BY <2>6 DEF allvars, vars, Contract!vars
  <2> QED
    BY <2>1, <2>3, <2>4, <2>5, <2>6 DEF DNext, Running, Finished
<1> QED
  BY <1>1, <1>2, <1>3, DInvariance, PTL DEF DSpec, KeepsContract, Contract!Spec

=============================================================================
