--------------------------- MODULE WindowCopyProofs ---------------------------
(***************************************************************************)
(* Proofs about WindowCopy: with spans of less than 4 GiB, inflate()'s and *)
(* inflate_fast()'s output is the text that the stream's symbols mean.     *)
(*                                                                         *)
(* The invariant says, at every byte of a copy, where the loop's address   *)
(* is: Back bytes behind the output, in the part of the window or in the   *)
(* span where the text's byte of that place lies.  The window holds the    *)
(* text's tail, and what is left of a match repeats the text at the        *)
(* match's distance, so the byte copied is the text's next.                *)
(***************************************************************************)
EXTENDS WindowCopy, TLAPS

----------------------------------------------------------------------------

\* Division with remainder.
LEMMA Division ==
  ASSUME NEW d \in Nat \ {0}, NEW j \in Nat
  PROVE  \E q \in Nat, r \in 0 .. d - 1 : j = d * q + r /\ j % d = r
<1> DEFINE q == j \div d
           r == j % d
<1>1. j - r = d * q
  BY SMT
<1>2. r \in 0 .. d - 1 /\ q \in Int
  OBVIOUS
<1> HIDE DEF q, r
<1>3. d * q \in Int /\ j = d * q + r
  BY <1>1, <1>2, SMT
<1>4. CASE q < 0
  <2>1. d * q <= d * (0 - 1)
    BY <1>2, <1>4, SMT
  <2>2. d * (0 - 1) = 0 - d
    BY SMT
  <2> QED
    BY <1>2, <1>3, <2>1, <2>2
<1>5. CASE q \in Nat
  BY <1>2, <1>3, <1>5 DEF r
<1> QED
  BY <1>2, <1>4, <1>5

\* A remainder is the one number below the divisor that fits.
LEMMA RemainderIs ==
  ASSUME NEW d \in Nat \ {0}, NEW q \in Nat, NEW r \in 0 .. d - 1, NEW j \in Nat,
         j = d * q + r
  PROVE  j % d = r
BY SMT

\* Remainders of a small number, and of one a divisor larger.
LEMMA ModStep ==
  ASSUME NEW d \in Nat \ {0}, NEW j \in Nat
  PROVE  /\ j % d \in 0 .. d - 1
         /\ j < d => j % d = j
         /\ j >= d => j % d = (j - d) % d
<1>1. j % d \in 0 .. d - 1
  OBVIOUS
<1>2. j < d => j % d = j
  OBVIOUS
<1>3. ASSUME j >= d PROVE j % d = (j - d) % d
  <2>1. PICK q \in Nat, r \in 0 .. d - 1 : j - d = d * q + r /\ (j - d) % d = r
    BY <1>3, Division
  <2>2. d * (q + 1) = d * q + d /\ d * q \in Nat
    BY SMT
  <2>3. j = d * (q + 1) + r
    BY <2>1, <2>2
  <2> QED
    BY <2>1, <2>3, RemainderIs
<1> QED
  BY <1>1, <1>2, <1>3

\* Going back around the window.
LEMMA Backwards ==
  ASSUME NEW s \in Nat \ {0}, NEW w \in 0 .. s - 1, NEW d \in 1 .. s
  PROVE  (w - d) % s = IF d <= w THEN w - d ELSE (w - d) + s
OBVIOUS

\* A match within the text repeats the text at its distance.
LEMMA ExpandedIs ==
  ASSUME NEW t \in Seq(Int), NEW d \in 1 .. Len(t), NEW n \in Nat
  PROVE  LET e == Expanded(t, d, n)
         IN  /\ e \in Seq(Int) /\ Len(e) = Len(t) + n
             /\ \A i \in 1 .. Len(t) : e[i] = t[i]
             /\ \A i \in Len(t) + 1 .. Len(t) + n : e[i] = e[i - d]
<1> DEFINE L == Len(t)
           at(i) == IF i <= L THEN i ELSE ((L - d) + 1) + (((i - L) - 1) % d)
           f == [i \in 1 .. L + n |-> t[at(i)]]
<1>1. L \in Nat /\ d \in Nat \ {0} /\ d <= L /\ \A i \in 1 .. L : t[i] \in Int
  OBVIOUS
<1>2. Expanded(t, d, n) = f
  <2>1. ~(d > Len(t))
    OBVIOUS
  <2>2. \A i \in 1 .. L + n :
          t[at(i)] = IF i <= L THEN t[i] ELSE t[((L - d) + 1) + (((i - L) - 1) % d)]
    OBVIOUS
  <2> QED
    BY <2>1, <2>2 DEF Expanded
<1> HIDE DEF L
<1>3. \A i \in 1 .. L + n : at(i) \in 1 .. L
  <2> TAKE i \in 1 .. L + n
  <2>1. CASE i <= L
    BY <1>1, <2>1
  <2>2. CASE ~(i <= L)
    <3>1. (i - L) - 1 \in Nat
      BY <1>1, <2>2
    <3>2. ((i - L) - 1) % d \in 0 .. d - 1
      BY <1>1, <3>1, ModStep
    <3> QED
      BY <1>1, <2>2, <3>2
  <2> QED
    BY <2>1, <2>2
<1>4. \A i \in L + 1 .. L + n : at(i) = at(i - d) /\ i - d \in 1 .. L + n
  <2> TAKE i \in L + 1 .. L + n
  <2>1. (i - L) - 1 \in Nat /\ i - d \in 1 .. L + n /\ ~(i <= L)
    BY <1>1
  <2>2. CASE (i - L) - 1 < d
    <3>1. ((i - L) - 1) % d = (i - L) - 1
      BY <1>1, <2>1, <2>2, ModStep
    <3>2. i - d <= L
      BY <1>1, <2>2
    <3> QED
      BY <1>1, <2>1, <3>1, <3>2
  <2>3. CASE (i - L) - 1 >= d
    <3>1. ((i - L) - 1) % d = (((i - L) - 1) - d) % d
      BY <1>1, <2>1, <2>3, ModStep
    <3>2. ((i - L) - 1) - d = ((i - d) - L) - 1 /\ ~(i - d <= L)
      BY <1>1, <2>3
    <3> QED
      BY <1>1, <2>1, <3>1, <3>2
  <2> QED
    BY <1>1, <2>1, <2>2, <2>3
<1> HIDE DEF at
<1>5. f \in Seq(Int) /\ Len(f) = L + n
  BY <1>1, <1>3
<1>6. \A i \in 1 .. L : f[i] = t[i]
  <2>1. \A i \in 1 .. L : at(i) = i
    BY DEF at
  <2> QED
    BY <1>1, <2>1
<1>7. \A i \in L + 1 .. L + n : f[i] = f[i - d]
  BY <1>1, <1>4
<1> HIDE DEF f
<1> QED
  BY <1>2, <1>5, <1>6, <1>7 DEF L

\* Whatever its distance, a match makes the text longer by its length.
LEMMA ExpandedGrows ==
  ASSUME NEW t \in Seq(Int), NEW d \in Nat \ {0}, NEW n \in Nat
  PROVE  LET e == Expanded(t, d, n)
         IN  /\ e \in Seq(Int) /\ Len(e) = Len(t) + n
             /\ \A i \in 1 .. Len(t) : e[i] = t[i]
<1>1. CASE d > Len(t)
  <2> DEFINE o == [i \in 1 .. n |-> Outside]
  <2>1. o \in Seq(Int) /\ Len(o) = n
    BY DEF Outside
  <2>2. Expanded(t, d, n) = t \o o
    BY <1>1 DEF Expanded
  <2> HIDE DEF o
  <2>3. t \o o \in Seq(Int) /\ Len(t \o o) = Len(t) + n
    BY <2>1
  <2>4. \A i \in 1 .. Len(t) : (t \o o)[i] = t[i]
    BY <2>1
  <2> QED
    BY <2>2, <2>3, <2>4
<1>2. CASE ~(d > Len(t))
  <2>1. d \in 1 .. Len(t)
    BY <1>2
  <2> QED
    BY <2>1, ExpandedIs
<1> QED
  BY <1>1, <1>2

----------------------------------------------------------------------------
\* The bytes written before the call in progress, and at a call's end all.
Base == IF calling THEN Made - Len(span) ELSE Made

\* How far behind the call's output the next byte to be copied is.
Back == offset - Len(span)

Types ==
  /\ TypeOK
  /\ text \in Seq(Int) /\ span \in Seq(Int)
  /\ window \in [0 .. wsize - 1 -> Int]
  /\ out \in Nat /\ out < UNSIGNED /\ left \in Nat
  /\ reach \in Nat /\ asked \in Nat

SpanIsText ==
  /\ Base >= 0 /\ Made >= 0
  /\ calling => \A i \in 1 .. Len(span) : span[i] = text[Base + i]

\* The window holds the end of the first b bytes of t.
HoldsTail(w, size, have, next, t, b) ==
  /\ have <= b /\ next <= have
  /\ have < WSIZE => next = have
  /\ size # 0 => have = MIN(WSIZE, b)
  /\ \A i \in 0 .. size - 1 :
       /\ i < next => w[i] = t[((b - next) + 1) + i]
       /\ i >= next /\ have = WSIZE => w[i] = t[(((b - next) - WSIZE) + 1) + i]

WindowRight ==
  /\ HoldsTail(window, wsize, whave, wnext, text, Base)
  /\ wsize = 0 => Base = 0 \/ mode = "BAD"

Phases ==
  /\ mode = "LEN" => length = 0 /\ copy = 0
  /\ mode = "LIT" => length = 1 /\ copy = 0 /\ text[Len(text)] = Len(text)
  /\ mode = "MATCH" => length + copy > 0
  /\ mode = "BAD" => copy = 0
  /\ ~calling => copy = 0 /\ mode # "fast"

\* A match is in progress, and is one of the text's.
Matching == mode = "MATCH" \/ (mode = "fast" /\ length + copy > 0)

MatchIsText ==
  Matching =>
    /\ offset >= 1 /\ offset = asked /\ reach <= Made
    /\ offset <= reach =>
         \A i \in Made + 1 .. Len(text) : text[i] = text[i - offset]
    /\ offset <= reach \/ (Made = reach /\ copy = 0 /\ mode = "MATCH")

\* Where the loop copies from, and in inflate_fast how far it goes before the
\* next part: at is the next address of the part of the window that starts back
\* bytes behind the output.
InPart(at, back, n) ==
  \/ at + back = wnext /\ n <= back
  \/ at + back = wnext + wsize /\ wnext + n <= back

EndOfPart(at, back, n) ==
  \/ at + back = wnext /\ n = back
  \/ at + back = wnext + wsize /\ wnext + n = back

LoopIsRight ==
  /\ copy > 0 =>
       /\ source = "output" => from + offset = Len(span) + 1 /\ from >= 1
       /\ source = "window" => InPart(from, Back, copy) /\ Back <= whave
  /\ mode = "fast" /\ length > 0 =>
       source = "window" /\ EndOfPart(from, Back, copy) /\ Back <= whave

IndInv ==
  /\ Types
  /\ SpanIsText
  /\ WindowRight
  /\ Phases
  /\ MatchIsText
  /\ LoopIsRight
  /\ StaysInSpan
  /\ OnlyImpossibleRefused

----------------------------------------------------------------------------
\* What the invariant says of the counters.
Numbers ==
  /\ Len(text) \in Nat /\ Len(span) \in Nat
  /\ length \in Nat /\ length <= MAX_MATCH /\ copy \in Nat /\ copy <= MAX_MATCH
  /\ offset \in Nat /\ offset <= MaxDistance /\ MaxDistance \in Nat
  /\ from \in Nat /\ left \in Nat /\ out \in Nat /\ out < UNSIGNED
  /\ UNSIGNED \in Nat \ {0}
  /\ WSIZE \in Nat \ {0} /\ wsize \in {0, WSIZE}
  /\ wnext \in Nat /\ wnext < WSIZE /\ whave \in Nat /\ whave <= wsize
  /\ MAX_MATCH \in Nat \ {0} /\ MIN_MATCH \in Nat \ {0}
  /\ Made \in Nat /\ Base \in Nat /\ Made = (Len(text) - length) - copy
  /\ Made <= Len(text) /\ Base <= Made
  /\ calling => Base + Len(span) = Made
  /\ Back = offset - Len(span) /\ Back \in Int

\* The numbers the invariant bounds.
LEMMA Counters ==
  ASSUME SizeAssumption, IndInv
  PROVE  Numbers
<1>1. /\ Len(text) \in Nat /\ Len(span) \in Nat
      /\ length \in Nat /\ length <= MAX_MATCH /\ copy \in Nat /\ copy <= MAX_MATCH
      /\ offset \in Nat /\ offset <= MaxDistance /\ MaxDistance \in Nat
      /\ from \in Nat /\ left \in Nat /\ out \in Nat /\ out < UNSIGNED
      /\ UNSIGNED \in Nat \ {0}
      /\ WSIZE \in Nat \ {0} /\ wsize \in {0, WSIZE}
      /\ wnext \in Nat /\ wnext < WSIZE /\ whave \in Nat /\ whave <= wsize
      /\ MAX_MATCH \in Nat \ {0} /\ MIN_MATCH \in Nat \ {0}
  BY DEF SizeAssumption, IndInv, Types, TypeOK
<1>2. Base >= 0 /\ Made >= 0 /\ calling \in BOOLEAN
  BY DEF IndInv, SpanIsText, Types, TypeOK
<1> QED
  BY <1>1, <1>2 DEF Made, Base, Back, Numbers

\* A window that holds the end of a text holds it still when the text grows.
LEMMA TailKept ==
  ASSUME SizeAssumption, NEW w, NEW size \in {0, WSIZE}, NEW have \in 0 .. WSIZE,
         NEW next \in 0 .. WSIZE - 1, NEW t, NEW t2, NEW b \in Nat,
         HoldsTail(w, size, have, next, t, b),
         \A i \in 1 .. b : t2[i] = t[i]
  PROVE  HoldsTail(w, size, have, next, t2, b)
<1>1. WSIZE \in Nat \ {0}
  BY DEF SizeAssumption
<1>2. /\ have <= b /\ next <= have /\ (have < WSIZE => next = have)
      /\ size # 0 => have = MIN(WSIZE, b)
  BY DEF HoldsTail
<1>3. ASSUME NEW i \in 0 .. size - 1, i < next
      PROVE  w[i] = t2[((b - next) + 1) + i]
  <2>1. ((b - next) + 1) + i \in 1 .. b
    BY <1>1, <1>2, <1>3
  <2> QED
    BY <2>1, <1>3 DEF HoldsTail
<1>4. ASSUME NEW i \in 0 .. size - 1, i >= next, have = WSIZE
      PROVE  w[i] = t2[(((b - next) - WSIZE) + 1) + i]
  <2>1. (((b - next) - WSIZE) + 1) + i \in 1 .. b
    BY <1>1, <1>2, <1>4
  <2> QED
    BY <2>1, <1>4 DEF HoldsTail
<1> QED
  BY <1>2, <1>3, <1>4 DEF HoldsTail

\* What an action that leaves the window and the bytes written alone keeps.
LEMMA WindowKept ==
  ASSUME SizeAssumption, IndInv, UNCHANGED win, Base' = Base,
         mode = "BAD" => mode' = "BAD",
         \A i \in 1 .. Base : text'[i] = text[i]
  PROVE  WindowRight'
<1>1. HoldsTail(window, wsize, whave, wnext, text', Base)
  <2>1. /\ WSIZE \in Nat \ {0} /\ wsize \in {0, WSIZE}
        /\ wnext \in Nat /\ wnext < WSIZE /\ whave \in Nat /\ whave <= wsize
        /\ Base \in Nat
    BY Counters DEF Numbers
  <2>3. whave \in 0 .. WSIZE /\ wnext \in 0 .. WSIZE - 1
    BY <2>1
  <2>2. HoldsTail(window, wsize, whave, wnext, text, Base)
    BY DEF IndInv, WindowRight
  <2> QED
    BY <2>1, <2>2, <2>3, TailKept
<1>2. window' = window /\ wsize' = wsize /\ whave' = whave /\ wnext' = wnext
  BY DEF win
<1> QED
  BY <1>1, <1>2 DEF IndInv, WindowRight

\* The invariant holds of a fresh decoder.
LEMMA InitInv ==
  ASSUME SizeAssumption, Init
  PROVE  IndInv
<1>1. Types
  <2>1. 0 .. 0 - 1 = {} /\ DOMAIN window = {} /\ window \in [{} -> Int]
    BY DEF Init
  <2>2. WSIZE - 1 >= 0 /\ WSIZE \in Nat /\ MAX_MATCH \in Nat /\ MaxDistance \in Nat
        /\ 0 < UNSIGNED
    BY DEF SizeAssumption
  <2>3. DOMAIN window = 0 .. wsize - 1
    BY <2>1, wsize = 0 DEF Init
  <2>4. 0 \in 0 .. MAX_MATCH /\ 0 \in 0 .. MaxDistance /\ 0 \in 0 .. WSIZE - 1 /\ 0 \in 0 .. 0
    BY <2>2
  <2>5. TypeOK
    BY <2>3, <2>4 DEF Init, TypeOK
  <2> QED
    BY <2>1, <2>2, <2>5 DEF Init, Types
<1>2. Len(text) = 0 /\ Len(span) = 0 /\ length = 0 /\ copy = 0 /\ Base = 0 /\ Made = 0
  BY DEF Init, Base, Made
<1>3. SpanIsText /\ WindowRight
  BY <1>2 DEF Init, SpanIsText, WindowRight, HoldsTail
<1> QED
  BY <1>1, <1>2, <1>3 DEF Init, IndInv, Phases, MatchIsText, Matching, LoopIsRight,
                           StaysInSpan, OnlyImpossibleRefused

\* Call
LEMMA CallKeeps ==
  ASSUME SizeAssumption, SpansAssumption, SpansFit, IndInv, NEW m \in Spans, Call(m)
  PROVE  IndInv'
<1>0. Numbers
  BY Counters
<1>1. /\ ~calling /\ calling' = TRUE /\ span' = <<>> /\ out' = m /\ left' = m
      /\ UNCHANGED win
      /\ mode' = mode /\ length' = length /\ offset' = offset /\ source' = source
      /\ from' = from /\ copy' = copy /\ text' = text /\ reach' = reach /\ asked' = asked
  BY DEF Call, loop
<1>2. m \in Nat /\ m < UNSIGNED
  BY DEF SpansAssumption, SpansFit
<1>3. Types'
  BY <1>1, <1>2 DEF IndInv, Types, TypeOK, win
<1>4. Made' = Made /\ Base = Made /\ Base' = Made /\ Made \in Nat /\ Len(span') = 0
  BY <1>0, <1>1 DEF Numbers, Made, Base
<1>5. SpanIsText'
  BY <1>1, <1>4 DEF SpanIsText
<1>6. WindowRight'
  BY <1>1, <1>4, WindowKept
<1>7. Phases' /\ OnlyImpossibleRefused'
  BY <1>1 DEF IndInv, Phases, OnlyImpossibleRefused
<1>8. copy = 0 /\ mode # "fast"
  BY <1>1 DEF IndInv, Phases
<1>9. MatchIsText'
  BY <1>1, <1>4, <1>8 DEF IndInv, MatchIsText, Matching
<1>10. LoopIsRight'
  BY <1>1, <1>8 DEF LoopIsRight
<1>11. StaysInSpan'
  BY <1>1, <1>2, <1>4, <1>8 DEF StaysInSpan
<1> QED
  BY <1>3, <1>5, <1>6, <1>7, <1>9, <1>10, <1>11 DEF IndInv

\* Literal
LEMMA LiteralKeeps ==
  ASSUME SizeAssumption, IndInv, Literal
  PROVE  IndInv'
<1>0. Numbers
  BY Counters
<1>1. /\ calling /\ mode = "LEN" /\ mode' = "LIT" /\ offset' = 0 /\ length' = 1
      /\ text' = Append(text, Len(text) + 1) /\ reach' = Len(text) /\ asked' = 0
      /\ calling' = calling /\ UNCHANGED win /\ span' = span /\ out' = out /\ left' = left
      /\ source' = source /\ from' = from /\ copy' = copy
  BY DEF Literal, Decode, loop
<1>2. length = 0 /\ copy = 0
  BY <1>1 DEF IndInv, Phases
<1>3. /\ text \in Seq(Int) /\ Len(text) \in Nat /\ text' \in Seq(Int)
      /\ Len(text') = Len(text) + 1 /\ text'[Len(text')] = Len(text) + 1
      /\ \A i \in 1 .. Len(text) : text'[i] = text[i]
  BY <1>1 DEF IndInv, Types
<1>4. Types'
  BY <1>0, <1>1, <1>3 DEF Numbers, IndInv, Types, TypeOK, win
<1>5. Made' = Made /\ Base' = Base /\ Made = Len(text) /\ Base + Len(span) = Made
  BY <1>0, <1>1, <1>2, <1>3 DEF Numbers, Made, Base
<1>6. SpanIsText'
  <2>1. \A i \in 1 .. Len(span) : Base + i \in 1 .. Len(text)
    BY <1>0, <1>5 DEF Numbers
  <2> QED
    BY <1>1, <1>3, <1>5, <2>1 DEF IndInv, SpanIsText
<1>7. WindowRight'
  <2>1. \A i \in 1 .. Base : i \in 1 .. Len(text)
    BY <1>0 DEF Numbers
  <2> QED
    BY <1>1, <1>3, <1>5, <2>1, WindowKept
<1>8. Phases'
  BY <1>1, <1>2, <1>3 DEF IndInv, Phases
<1>9. MatchIsText' /\ LoopIsRight' /\ StaysInSpan' /\ OnlyImpossibleRefused'
  BY <1>0, <1>1, <1>2 DEF Numbers, IndInv, MatchIsText, Matching, LoopIsRight, StaysInSpan,
                               OnlyImpossibleRefused
<1> QED
  BY <1>4, <1>6, <1>7, <1>8, <1>9 DEF IndInv

\* Lit
LEMMA LitKeeps ==
  ASSUME SizeAssumption, IndInv, Lit
  PROVE  IndInv'
<1>0. Numbers
  BY Counters
<1>1. /\ calling /\ mode = "LIT" /\ left # 0
      /\ span' = Append(span, Len(text)) /\ left' = left - 1 /\ length' = 0
      /\ mode' = "LEN" /\ calling' = calling /\ UNCHANGED win /\ out' = out
      /\ offset' = offset /\ source' = source /\ from' = from /\ copy' = copy
      /\ text' = text /\ reach' = reach /\ asked' = asked
  BY DEF Lit, loop
<1>2. length = 1 /\ copy = 0 /\ text[Len(text)] = Len(text)
  BY <1>1 DEF IndInv, Phases
<1>3. /\ span' \in Seq(Int) /\ Len(span') = Len(span) + 1
      /\ span'[Len(span) + 1] = Len(text)
      /\ \A i \in 1 .. Len(span) : span'[i] = span[i]
      /\ Len(span) \in Nat
  BY <1>1 DEF IndInv, Types
<1>4. Types'
  BY <1>0, <1>1, <1>3 DEF Numbers, IndInv, Types, TypeOK, win
<1>5. /\ Made' = Made + 1 /\ Base' = Base /\ Made + 1 = Len(text)
      /\ Base + Len(span) = Made /\ Base \in Nat
  BY <1>0, <1>1, <1>2, <1>3 DEF Numbers, Made, Base
<1>6. SpanIsText'
  <2>1. ASSUME NEW i \in 1 .. Len(span')
        PROVE  span'[i] = text'[Base' + i]
    <3>1. CASE i \in 1 .. Len(span)
      BY <1>1, <1>3, <1>5, <3>1 DEF IndInv, SpanIsText
    <3>2. CASE i = Len(span) + 1
      <4>1. Base' + i = Len(text)
        BY <1>3, <1>5, <3>2
      <4> QED
        BY <1>1, <1>2, <1>3, <3>2, <4>1
    <3> QED
      BY <1>3, <3>1, <3>2
  <2> QED
    BY <1>5, <2>1 DEF SpanIsText
<1>7. WindowRight'
  BY <1>1, <1>5, WindowKept
<1>8. Phases' /\ MatchIsText' /\ LoopIsRight' /\ OnlyImpossibleRefused'
  BY <1>1, <1>2 DEF IndInv, Phases, MatchIsText, Matching, LoopIsRight, OnlyImpossibleRefused
<1>9. StaysInSpan'
  <2>1. Len(span) + left = out
    BY <1>0, <1>1, <1>2 DEF Numbers, IndInv, StaysInSpan
  <2>2. Len(span') + left' = out' /\ left' >= 0
    <3>1. left \in Nat /\ out \in Nat
      BY <1>0 DEF Numbers
    <3> QED
      BY <1>1, <1>3, <2>1, <3>1
  <2>4. copy' = 0 /\ mode' # "fast"
    BY <1>1, <1>2
  <2>3. Len(span') \in Nat /\ left' \in Nat
    BY <1>0, <1>1, <1>3 DEF Numbers
  <2> QED
    BY <2>2, <2>3, <2>4 DEF StaysInSpan
<1> QED
  BY <1>4, <1>6, <1>7, <1>8, <1>9 DEF IndInv

\* A length and a distance
LEMMA LengthDistanceKeeps ==
  ASSUME SizeAssumption, LengthsAssumption, IndInv,
         NEW n \in Lengths, NEW d \in 1 .. MaxDistance, LengthDistance(n, d)
  PROVE  IndInv'
<1>0. Numbers
  BY Counters
<1>1. /\ calling /\ mode = "LEN" /\ mode' = "MATCH" /\ offset' = d /\ length' = n
      /\ text' = Expanded(text, d, n) /\ reach' = Len(text) /\ asked' = d
      /\ calling' = calling /\ UNCHANGED win /\ span' = span /\ out' = out /\ left' = left
      /\ source' = source /\ from' = from /\ copy' = copy
  BY DEF LengthDistance, Decode, loop
<1>2. length = 0 /\ copy = 0
  BY <1>1 DEF IndInv, Phases
<1>3. n \in Nat \ {0} /\ n <= MAX_MATCH /\ d \in Nat \ {0} /\ d <= MaxDistance
      /\ text \in Seq(Int) /\ Len(text) \in Nat
  <2>1. n \in MIN_MATCH .. MAX_MATCH /\ MIN_MATCH \in Nat \ {0} /\ MAX_MATCH \in Nat
    BY <1>0 DEF LengthsAssumption, Numbers
  <2> QED
    BY <1>0, <2>1 DEF IndInv, Types, Numbers
<1>4. /\ text' \in Seq(Int) /\ Len(text') = Len(text) + n
      /\ \A i \in 1 .. Len(text) : text'[i] = text[i]
  BY <1>1, <1>3, ExpandedGrows
<1>5. Types'
  <2>1. TypeOK'
    BY <1>0, <1>1, <1>2, <1>3 DEF IndInv, Types, TypeOK, win, Numbers
  <2> QED
    BY <1>1, <1>3, <1>4, <2>1 DEF IndInv, Types, win
<1>6. Made' = Made /\ Base' = Base /\ Made = Len(text) /\ Base + Len(span) = Made
  BY <1>0, <1>1, <1>2, <1>3, <1>4 DEF Numbers, Made, Base
<1>7. SpanIsText'
  <2>1. \A i \in 1 .. Len(span) : Base + i \in 1 .. Len(text)
    BY <1>0, <1>6 DEF Numbers
  <2> QED
    BY <1>1, <1>4, <1>6, <2>1 DEF IndInv, SpanIsText
<1>8. WindowRight'
  <2>1. \A i \in 1 .. Base : i \in 1 .. Len(text)
    BY <1>0 DEF Numbers
  <2> QED
    BY <1>1, <1>4, <1>6, <2>1, WindowKept
<1>9. Phases'
  BY <1>1, <1>2, <1>3 DEF IndInv, Phases
<1>10. MatchIsText'
  <2>1. ASSUME d <= Len(text)
        PROVE  \A i \in Len(text) + 1 .. Len(text') : text'[i] = text'[i - d]
    <3>1. d \in 1 .. Len(text)
      BY <1>3, <2>1
    <3>2. \A i \in Len(text) + 1 .. Len(text) + n :
            Expanded(text, d, n)[i] = Expanded(text, d, n)[i - d]
      BY <1>3, <3>1, ExpandedIs
    <3> QED
      BY <1>1, <1>4, <3>2
  <2> QED
    BY <1>1, <1>2, <1>3, <1>6, <2>1 DEF MatchIsText
<1>11. LoopIsRight' /\ OnlyImpossibleRefused'
  BY <1>1, <1>2 DEF LoopIsRight, OnlyImpossibleRefused
<1>12. StaysInSpan'
  BY <1>0, <1>1, <1>2 DEF IndInv, StaysInSpan, Numbers
<1> QED
  BY <1>5, <1>7, <1>8, <1>9, <1>10, <1>11, <1>12 DEF IndInv

\* Match
LEMMA MatchKeeps ==
  ASSUME SizeAssumption, IndInv, Match
  PROVE  IndInv'
<1>0. Numbers
  BY Counters
<1> DEFINE back == offset - (out - left)
           n == MIN(IF offset > out - left THEN WindowCount(back) ELSE length, left)
<1>1. /\ calling /\ mode = "MATCH" /\ copy = 0 /\ left # 0
      /\ calling' = calling /\ UNCHANGED win /\ span' = span /\ out' = out /\ offset' = offset
      /\ text' = text /\ reach' = reach /\ asked' = asked
  BY DEF Match
<1>2. /\ out - left = Len(span) /\ back = Back /\ (offset > out - left <=> Back > 0)
      /\ Base + Len(span) = Made
  <2>1. Len(span) + left = out
    BY <1>0, <1>1 DEF IndInv, StaysInSpan, Numbers
  <2>2. /\ out - left = Len(span) /\ back = Back /\ (offset > out - left <=> Back > 0)
    BY <1>0, <2>1 DEF Numbers
  <2> QED
    BY <1>0, <1>1, <2>2 DEF Numbers
<1>3. length > 0
  BY <1>0, <1>1 DEF IndInv, Phases, Numbers
<1>4. /\ offset >= 1 /\ offset = asked /\ reach <= Made /\ reach \in Nat
      /\ offset <= reach => \A i \in Made + 1 .. Len(text) : text[i] = text[i - offset]
      /\ offset <= reach \/ Made = reach
  BY <1>1 DEF IndInv, MatchIsText, Matching, Types
<1>5. CASE Back > 0 /\ TooFar(Back)
  <2>1. /\ mode' = "BAD" /\ left' = left /\ length' = length
        /\ source' = source /\ from' = from /\ copy' = copy
    BY <1>1, <1>2, <1>5 DEF Match, loop
  <2>2. Made' = Made /\ Base' = Base
    BY <1>1, <2>1 DEF Made, Base
  <2>3. Types' /\ SpanIsText' /\ Phases' /\ LoopIsRight'
    BY <1>1, <2>1, <2>2 DEF IndInv, Types, TypeOK, SpanIsText, Phases, LoopIsRight, win
  <2>4. WindowRight'
    BY <1>1, <2>1, <2>2, WindowKept
  <2>5. MatchIsText'
    BY <2>1 DEF MatchIsText, Matching
  <2>6. StaysInSpan'
    BY <1>1, <2>1 DEF IndInv, StaysInSpan
  <2>7. asked > reach \/ asked > WSIZE
    <3>1. whave = MIN(WSIZE, Base) \/ (whave = 0 /\ Base = 0)
      BY <1>0, <1>1 DEF IndInv, WindowRight, HoldsTail, Numbers
    <3>2. whave = WSIZE \/ whave = Base
      BY <1>0, <3>1 DEF Numbers, MIN
    <3>3. offset - Len(span) > whave
      BY <1>0, <1>5 DEF TooFar, Numbers
    <3> QED
      BY <1>0, <1>2, <1>4, <3>2, <3>3 DEF Numbers
  <2>8. OnlyImpossibleRefused'
    BY <1>1, <2>7 DEF OnlyImpossibleRefused
  <2> QED
    BY <2>3, <2>4, <2>5, <2>6, <2>8 DEF IndInv
<1>6. CASE ~(Back > 0 /\ TooFar(Back))
  <2>1. /\ mode' = "MATCH" /\ copy' = n /\ left' = left - n /\ length' = length - n
        /\ Back > 0 => source' = "window" /\ from' = WindowFrom(Back)
        /\ ~(Back > 0) => source' = "output" /\ from' = (out - left) + 1 - offset
    BY <1>1, <1>2, <1>6 DEF Match
  <2>2. /\ Back > 0 => Back <= whave /\ n = MIN(WindowCount(Back), left)
        /\ ~(Back > 0) => n = MIN(length, left)
    BY <1>0, <1>2, <1>6 DEF TooFar, Numbers
  <2>3. /\ n \in Nat \ {0} /\ n <= length /\ n <= left
        /\ Back > 0 => n <= IF Back > wnext THEN Back - wnext ELSE Back
    <3>1. left \in Nat /\ left > 0 /\ length \in Nat /\ wnext \in Nat /\ Back \in Int
      BY <1>0, <1>1 DEF Numbers
    <3>2. CASE Back > 0
      <4>1. WindowCount(Back) \in Nat \ {0} /\ WindowCount(Back) <= length
            /\ WindowCount(Back) <= IF Back > wnext THEN Back - wnext ELSE Back
        BY <1>3, <3>1, <3>2 DEF WindowCount, MIN
      <4> QED
        BY <2>2, <3>1, <3>2, <4>1 DEF MIN
    <3>3. CASE ~(Back > 0)
      BY <1>3, <2>2, <3>1, <3>3 DEF MIN
    <3> QED
      BY <3>2, <3>3
  <2> HIDE DEF n, back
  <2>4. Made' = Made /\ Base' = Base /\ Back' = Back
    BY <1>0, <1>1, <2>1, <2>3 DEF Made, Base, Back, Numbers
  <2>5. from' \in Nat
    <3>1. CASE Back > 0
      BY <1>0, <2>1, <2>2, <3>1 DEF WindowFrom, Numbers
    <3>2. CASE ~(Back > 0)
      BY <1>0, <1>2, <2>1, <3>2 DEF Numbers
    <3> QED
      BY <3>1, <3>2
  <2>6. Types'
    <3>1. left' \in Nat /\ length' \in 0 .. MAX_MATCH /\ copy' \in 0 .. MAX_MATCH
      BY <1>0, <2>1, <2>3 DEF Numbers
    <3>2. source' \in {"window", "output"}
      BY <2>1
    <3>3. TypeOK'
      BY <1>1, <2>1, <2>5, <3>1, <3>2 DEF IndInv, Types, TypeOK, win
    <3> QED
      BY <1>1, <3>1, <3>3 DEF IndInv, Types, win
  <2>7. SpanIsText'
    BY <1>1, <2>4 DEF IndInv, SpanIsText
  <2>8. WindowRight'
    BY <1>1, <2>1, <2>4, WindowKept
  <2>9. Phases'
    <3>1. length' + copy' > 0
      BY <1>0, <2>1, <2>3 DEF Numbers
    <3> QED
      BY <1>1, <2>1, <3>1 DEF Phases
  <2>10. offset <= reach
    <3>1. offset <= Made
      <4>1. whave <= Base
        BY DEF IndInv, WindowRight, HoldsTail
      <4> QED
        BY <1>0, <1>2, <2>2, <4>1 DEF Numbers
    <3> QED
      BY <1>4, <3>1
  <2>11. MatchIsText'
    BY <1>1, <1>4, <2>1, <2>4, <2>10 DEF MatchIsText
  <2>12. LoopIsRight'
    <3>1. CASE Back > 0
      <4>1. InPart(WindowFrom(Back), Back, n)
        BY <1>0, <2>2, <2>3, <3>1 DEF InPart, WindowFrom, Numbers
      <4> QED
        BY <1>1, <2>1, <2>2, <2>4, <3>1, <4>1 DEF LoopIsRight, InPart, win
    <3>2. CASE ~(Back > 0)
      <4>1. from' + offset' = Len(span') + 1 /\ from' >= 1 /\ source' = "output"
        BY <1>0, <1>1, <1>2, <2>1, <3>2 DEF Numbers
      <4> QED
        BY <2>1, <4>1 DEF LoopIsRight
    <3> QED
      BY <3>1, <3>2
  <2>13. StaysInSpan'
    <3>1. Len(span') + copy' + left' = out' /\ left' >= 0
      BY <1>0, <1>1, <1>2, <2>1, <2>3 DEF Numbers
    <3>2. Len(span') \in Nat /\ copy' \in Nat /\ left' \in Nat
      BY <1>0, <1>1, <2>1, <2>3 DEF Numbers
    <3> QED
      BY <2>1, <3>1, <3>2 DEF StaysInSpan
  <2>14. OnlyImpossibleRefused'
    BY <2>1 DEF OnlyImpossibleRefused
  <2> QED
    BY <2>6, <2>7, <2>8, <2>9, <2>11, <2>12, <2>13, <2>14 DEF IndInv
<1> QED
  BY <1>5, <1>6

\* The byte that the loop copies next is the next one of the text.
LEMMA NextByte ==
  ASSUME SizeAssumption, IndInv, calling, copy > 0
  PROVE  /\ Byte(IF source = "window" THEN window ELSE span, from) = text[Made + 1]
         /\ text[Made + 1] \in Int
         /\ mode \in {"MATCH", "fast"}
<1>0. Numbers
  BY Counters
<1>1. mode \in {"MATCH", "fast"}
  BY <1>0 DEF IndInv, Types, TypeOK, Phases, Numbers
<1>2. /\ offset >= 1 /\ offset <= reach /\ reach <= Made /\ reach \in Nat
      /\ \A i \in Made + 1 .. Len(text) : text[i] = text[i - offset]
  <2>1. Matching /\ copy # 0
    BY <1>0, <1>1 DEF Matching, Numbers
  <2> QED
    BY <2>1 DEF IndInv, MatchIsText, Types
<1>3. Made + 1 \in 1 .. Len(text)
  BY <1>0 DEF Numbers
<1>4. text[Made + 1] \in Int
  BY <1>3 DEF IndInv, Types
<1>5. text[Made + 1] = text[(Base + 1) - Back]
  <2>1. Made + 1 \in Made + 1 .. Len(text) /\ (Made + 1) - offset = (Base + 1) - Back
    BY <1>0, <1>3 DEF Numbers
  <2> QED
    BY <1>2, <2>1
<1>6. CASE source = "output"
  <2>1. from + offset = Len(span) + 1 /\ from >= 1
    BY <1>6 DEF IndInv, LoopIsRight
  <2>2. from \in 1 .. Len(span) /\ Base + from = (Base + 1) - Back
    <3>1. /\ from \in Nat /\ offset \in Nat /\ Len(span) \in Nat /\ Base \in Nat
          /\ Back = offset - Len(span)
      BY <1>0 DEF Numbers
    <3> QED
      BY <1>2, <2>1, <3>1
  <2>3. DOMAIN span = 1 .. Len(span)
    BY DEF IndInv, Types
  <2>4. span[from] = text[Base + from]
    BY <2>2 DEF IndInv, SpanIsText
  <2> QED
    BY <1>1, <1>4, <1>5, <1>6, <2>2, <2>3, <2>4 DEF Byte
<1>7. CASE source = "window"
  <2>1. InPart(from, Back, copy) /\ Back <= whave
    BY <1>7 DEF IndInv, LoopIsRight
  <2>2. /\ whave < WSIZE => wnext = whave
        /\ wnext <= whave /\ whave <= Base
        /\ \A i \in 0 .. wsize - 1 :
             /\ i < wnext => window[i] = text[((Base - wnext) + 1) + i]
             /\ i >= wnext /\ whave = WSIZE =>
                  window[i] = text[(((Base - wnext) - WSIZE) + 1) + i]
    BY DEF IndInv, WindowRight, HoldsTail
  <2>3. DOMAIN window = 0 .. wsize - 1
    BY DEF IndInv, Types, TypeOK
  <2>6. /\ from \in Nat /\ Back \in Int /\ Base \in Nat /\ wnext \in Nat /\ whave \in Nat
        /\ WSIZE \in Nat /\ copy \in Nat /\ copy > 0 /\ wnext < WSIZE /\ whave <= wsize
        /\ wsize \in {0, WSIZE}
    BY <1>0 DEF Numbers
  <2>4. CASE from + Back = wnext /\ copy <= Back
    <3>1. from \in 0 .. wsize - 1 /\ from < wnext /\ ((Base - wnext) + 1) + from = (Base + 1) - Back
      BY <2>1, <2>2, <2>4, <2>6
    <3> QED
      BY <1>1, <1>4, <1>5, <1>7, <2>2, <2>3, <3>1 DEF Byte
  <2>5. CASE from + Back = wnext + wsize /\ wnext + copy <= Back
    <3>1. /\ whave = WSIZE /\ wsize = WSIZE
          /\ from \in 0 .. wsize - 1 /\ from >= wnext
          /\ (((Base - wnext) - WSIZE) + 1) + from = (Base + 1) - Back
      BY <2>1, <2>2, <2>5, <2>6
    <3> QED
      BY <1>1, <1>4, <1>5, <1>7, <2>2, <2>3, <3>1 DEF Byte
  <2> QED
    BY <2>1, <2>4, <2>5 DEF InPart
<1> QED
  BY <1>6, <1>7 DEF IndInv, Types, TypeOK

\* *put++ = *from++
LEMMA CopyByteKeeps ==
  ASSUME SizeAssumption, IndInv, CopyByte
  PROVE  IndInv'
<1>0. Numbers
  BY Counters
<1>1. /\ calling /\ copy > 0 /\ from' = from + 1 /\ copy' = copy - 1
      /\ mode' = IF mode = "MATCH" /\ copy = 1 /\ length = 0 THEN "LEN" ELSE mode
      /\ calling' = calling /\ UNCHANGED win /\ out' = out /\ left' = left
      /\ length' = length /\ offset' = offset /\ source' = source
      /\ text' = text /\ reach' = reach /\ asked' = asked
  BY DEF CopyByte
<1>2. span' = Append(span, text[Made + 1]) /\ text[Made + 1] \in Int
      /\ mode \in {"MATCH", "fast"}
  BY <1>1, NextByte DEF CopyByte
<1>3. /\ span' \in Seq(Int) /\ Len(span') = Len(span) + 1
      /\ span'[Len(span) + 1] = text[Made + 1]
      /\ \A i \in 1 .. Len(span) : span'[i] = span[i]
      /\ Len(span) \in Nat
  BY <1>2 DEF IndInv, Types
<1>4. Types'
  <2>1. mode' \in {"LEN", "MATCH", "fast"} /\ from' \in Nat /\ copy' \in 0 .. MAX_MATCH
    BY <1>0, <1>1, <1>2 DEF Numbers
  <2>2. TypeOK'
    BY <1>1, <2>1 DEF IndInv, Types, TypeOK, win
  <2> QED
    BY <1>1, <1>3, <2>2 DEF IndInv, Types, win
<1>5. /\ Made' = Made + 1 /\ Base' = Base /\ Back' = Back - 1
      /\ Base + Len(span) = Made /\ Base \in Nat /\ Back \in Int /\ Made \in Nat
  BY <1>0, <1>1, <1>3 DEF Made, Base, Back, Numbers
<1>6. SpanIsText'
  <2>1. ASSUME NEW i \in 1 .. Len(span')
        PROVE  span'[i] = text'[Base' + i]
    <3>1. CASE i \in 1 .. Len(span)
      BY <1>1, <1>3, <1>5, <3>1 DEF IndInv, SpanIsText
    <3>2. CASE i = Len(span) + 1
      <4>1. Base' + i = Made + 1
        BY <1>3, <1>5, <3>2
      <4> QED
        BY <1>1, <1>3, <3>2, <4>1
    <3> QED
      BY <1>3, <3>1, <3>2
  <2> QED
    BY <1>5, <2>1 DEF SpanIsText
<1>7. WindowRight'
  BY <1>1, <1>2, <1>5, WindowKept
<1>8. Phases'
  <2>1. mode = "MATCH" /\ ~(copy = 1 /\ length = 0) => length' + copy' > 0
    BY <1>0, <1>1 DEF Numbers
  <2>2. copy = 1 => copy' = 0
    BY <1>1
  <2> QED
    BY <1>1, <1>2, <2>1, <2>2 DEF Phases
<1>9. MatchIsText'
  <2>1. /\ offset >= 1 /\ offset = asked /\ reach <= Made /\ offset <= reach
        /\ \A i \in Made + 1 .. Len(text) : text[i] = text[i - offset]
    <3>1. Matching /\ copy # 0
      BY <1>0, <1>1, <1>2 DEF Matching, Numbers
    <3> QED
      BY <3>1 DEF IndInv, MatchIsText
  <2>2. reach <= Made + 1 /\ \A i \in (Made + 1) + 1 .. Len(text) : i \in Made + 1 .. Len(text)
    BY <1>0, <2>1 DEF Numbers, IndInv, Types
  <2> QED
    BY <1>1, <1>5, <2>1, <2>2 DEF MatchIsText
<1>10. LoopIsRight'
  <2>5. from \in Nat /\ offset \in Nat /\ copy \in Nat /\ wnext \in Nat /\ wsize \in Nat
        /\ whave \in Nat
    BY <1>0 DEF Numbers
  <2>1. copy' > 0 /\ source = "output" => from' + offset' = Len(span') + 1 /\ from' >= 1
    <3>1. source = "output" => from + offset = Len(span) + 1 /\ from >= 1
      BY <1>1 DEF IndInv, LoopIsRight
    <3> QED
      BY <1>1, <1>3, <2>5, <3>1
  <2>2. copy' > 0 /\ source = "window" =>
          InPart(from + 1, Back - 1, copy - 1) /\ Back - 1 <= whave
    BY <1>0, <1>1 DEF IndInv, LoopIsRight, InPart, Numbers
  <2>3. mode = "fast" /\ length > 0 =>
          source = "window" /\ EndOfPart(from + 1, Back - 1, copy - 1) /\ Back - 1 <= whave
    <3>1. mode = "fast" /\ length > 0 =>
            source = "window" /\ EndOfPart(from, Back, copy) /\ Back <= whave
      BY DEF IndInv, LoopIsRight
    <3>2. EndOfPart(from, Back, copy) => EndOfPart(from + 1, Back - 1, copy - 1)
      BY <1>5, <2>5 DEF EndOfPart
    <3> QED
      BY <1>5, <2>5, <3>1, <3>2
  <2>4. mode' = "fast" => mode = "fast"
    BY <1>1
  <2> QED
    BY <1>1, <1>5, <2>1, <2>2, <2>3, <2>4 DEF LoopIsRight, InPart, EndOfPart, win
<1>11. StaysInSpan'
  <2>1. Len(span) + copy + (IF mode = "fast" THEN length ELSE 0) + left = out
    BY <1>1 DEF IndInv, StaysInSpan
  <2>2. (mode' = "fast") <=> (mode = "fast")
    BY <1>1
  <2>3. Len(span') + copy' = Len(span) + copy
    BY <1>0, <1>1, <1>3 DEF Numbers
  <2> QED
    BY <1>0, <1>1, <2>1, <2>2, <2>3 DEF StaysInSpan, Numbers
<1>12. OnlyImpossibleRefused'
  BY <1>1, <1>2 DEF OnlyImpossibleRefused
<1> QED
  BY <1>4, <1>6, <1>7, <1>8, <1>9, <1>10, <1>11, <1>12 DEF IndInv

\* A literal of inflate_fast
LEMMA FastLiteralKeeps ==
  ASSUME SizeAssumption, IndInv, FastLiteral
  PROVE  IndInv'
<1>0. Numbers
  BY Counters
<1>1. /\ calling /\ mode \in {"LEN", "fast"} /\ copy = 0 /\ length = 0 /\ left >= MAX_MATCH
      /\ text' = Append(text, Len(text) + 1) /\ span' = Append(span, Len(text'))
      /\ left' = left - 1 /\ mode' = "fast"
      /\ calling' = calling /\ UNCHANGED win /\ out' = out /\ length' = length
      /\ offset' = offset /\ source' = source /\ from' = from /\ copy' = copy
      /\ reach' = reach /\ asked' = asked
  BY DEF FastLiteral, FastRound, Room, loop
<1>2. /\ text' \in Seq(Int) /\ Len(text') = Len(text) + 1 /\ text'[Len(text) + 1] = Len(text) + 1
      /\ \A i \in 1 .. Len(text) : text'[i] = text[i]
      /\ Len(text) \in Nat
  BY <1>1 DEF IndInv, Types
<1>3. /\ span' \in Seq(Int) /\ Len(span') = Len(span) + 1
      /\ span'[Len(span) + 1] = Len(text) + 1
      /\ \A i \in 1 .. Len(span) : span'[i] = span[i]
      /\ Len(span) \in Nat
  BY <1>1, <1>2 DEF IndInv, Types
<1>4. left' \in Nat
  BY <1>0, <1>1 DEF Numbers
<1>5. Types'
  BY <1>0, <1>1, <1>2, <1>3, <1>4 DEF IndInv, Types, TypeOK, win, Numbers
<1>6. /\ Made = Len(text) /\ Made' = Made + 1 /\ Base' = Base
      /\ Base + Len(span) = Made /\ Base \in Nat /\ Made \in Nat
  BY <1>0, <1>1, <1>2, <1>3 DEF Made, Base, Numbers
<1>7. SpanIsText'
  <2>1. ASSUME NEW i \in 1 .. Len(span')
        PROVE  span'[i] = text'[Base' + i]
    <3>1. CASE i \in 1 .. Len(span)
      <4>1. Base + i \in 1 .. Len(text)
        BY <1>3, <1>6, <3>1
      <4> QED
        BY <1>1, <1>2, <1>3, <1>6, <3>1, <4>1 DEF IndInv, SpanIsText
    <3>2. CASE i = Len(span) + 1
      <4>1. Base' + i = Len(text) + 1
        BY <1>3, <1>6, <3>2
      <4> QED
        BY <1>2, <1>3, <3>2, <4>1
    <3> QED
      BY <1>3, <3>1, <3>2
  <2> QED
    BY <1>6, <2>1 DEF SpanIsText
<1>8. WindowRight'
  <2>1. \A i \in 1 .. Base : i \in 1 .. Len(text)
    BY <1>0 DEF Numbers
  <2> QED
    BY <1>1, <1>2, <1>6, <2>1, WindowKept
<1>9. Phases' /\ MatchIsText' /\ LoopIsRight' /\ OnlyImpossibleRefused'
  BY <1>1 DEF Phases, MatchIsText, Matching, LoopIsRight, OnlyImpossibleRefused
<1>10. StaysInSpan'
  <2>1. Len(span) + left = out
    BY <1>0, <1>1 DEF IndInv, StaysInSpan, Numbers
  <2>2. Len(span') + left' = out'
    <3>1. left \in Nat /\ out \in Nat
      BY <1>0 DEF Numbers
    <3> QED
      BY <1>1, <1>3, <2>1, <3>1
  <2> QED
    BY <1>1, <1>3, <1>4, <2>2 DEF StaysInSpan
<1> QED
  BY <1>5, <1>7, <1>8, <1>9, <1>10 DEF IndInv

\* A match of inflate_fast
LEMMA FastMatchKeeps ==
  ASSUME SizeAssumption, LengthsAssumption, IndInv,
         NEW n \in Lengths, NEW d \in 1 .. MaxDistance, FastMatch(n, d)
  PROVE  IndInv'
<1>0. Numbers
  BY Counters
<1> DEFINE back == d - InOutput
<1>1. /\ calling /\ mode \in {"LEN", "fast"} /\ copy = 0 /\ length = 0 /\ left >= MAX_MATCH
      /\ reach' = Len(text) /\ asked' = d
      /\ calling' = calling /\ UNCHANGED win /\ span' = span /\ out' = out
  BY DEF FastMatch, FastRound, Room
<1>2. n \in Nat \ {0} /\ n <= MAX_MATCH /\ d \in Nat \ {0} /\ d <= MaxDistance
      /\ text \in Seq(Int) /\ Len(text) \in Nat
  <2>1. n \in MIN_MATCH .. MAX_MATCH /\ MIN_MATCH \in Nat \ {0} /\ MAX_MATCH \in Nat
    BY <1>0 DEF LengthsAssumption, Numbers
  <2> QED
    BY <1>0, <2>1 DEF IndInv, Types, Numbers
<1>3. out - left = Len(span) /\ left \in Nat /\ Len(span) \in Nat /\ out \in Nat /\ out < UNSIGNED
      /\ UNSIGNED \in Nat \ {0}
  BY <1>0, <1>1 DEF IndInv, StaysInSpan, Numbers
<1>4. InOutput = Len(span) /\ left % UNSIGNED = left
  <2>1. Len(span) < UNSIGNED /\ left < UNSIGNED
    BY <1>3
  <2> QED
    BY <1>3, <2>1, ModStep DEF InOutput
<1>5. /\ Made = Len(text) /\ Base + Len(span) = Made /\ Base \in Nat
      /\ back = d - Len(span) /\ back \in Int
  BY <1>0, <1>1, <1>2, <1>4 DEF Made, Base, Numbers
<1>6. /\ whave = MIN(WSIZE, Base) \/ (whave = 0 /\ Base = 0)
      /\ whave <= Base
      /\ whave < WSIZE => wnext = whave
  BY <1>0, <1>1 DEF IndInv, WindowRight, HoldsTail, Numbers
<1>7. CASE back > 0 /\ TooFar(back)
  <2>1. /\ mode' = "BAD" /\ left' = left /\ length' = length /\ offset' = offset /\ text' = text
        /\ source' = source /\ from' = from /\ copy' = copy
    BY <1>4, <1>7 DEF FastMatch, loop
  <2>2. Made' = Made /\ Base' = Base
    BY <1>1, <2>1 DEF Made, Base
  <2>3. Types' /\ SpanIsText' /\ Phases' /\ LoopIsRight'
    BY <1>1, <1>2, <2>1, <2>2 DEF IndInv, Types, TypeOK, SpanIsText, Phases, LoopIsRight, win
  <2>4. WindowRight'
    BY <1>1, <2>1, <2>2, WindowKept
  <2>5. MatchIsText'
    BY <2>1 DEF MatchIsText, Matching
  <2>6. StaysInSpan'
    BY <1>0, <1>1, <2>1 DEF IndInv, StaysInSpan, Numbers
  <2>7. d > Len(text) \/ d > WSIZE
    <3>1. whave = WSIZE \/ whave = Base
      BY <1>0, <1>6 DEF Numbers, MIN
    <3>2. d - Len(span) > whave
      BY <1>5, <1>7 DEF TooFar
    <3>3. whave \in Nat
      BY <1>0 DEF Numbers
    <3> QED
      BY <1>2, <1>3, <1>5, <3>1, <3>2, <3>3
  <2>8. OnlyImpossibleRefused'
    BY <1>1, <2>7 DEF OnlyImpossibleRefused
  <2> QED
    BY <2>3, <2>4, <2>5, <2>6, <2>8 DEF IndInv
<1>8. CASE ~(back > 0 /\ TooFar(back))
  <2>1. /\ mode' = "fast" /\ left' = left - n /\ offset' = d /\ length' = n - copy'
        /\ text' = Expanded(text, d, n)
        /\ back > 0 => WindowPart(back, n)
        /\ ~(back > 0) => source' = "output" /\ from' = 1 - back /\ copy' = n
    BY <1>8 DEF FastMatch
  <2>2. back > 0 => back <= whave
    BY <1>0, <1>5, <1>8 DEF TooFar, Numbers
  <2>3. /\ WSIZE \in Nat \ {0} /\ wsize \in {0, WSIZE} /\ wnext \in Nat /\ wnext < WSIZE
        /\ whave \in Nat /\ whave <= wsize
    BY <1>0 DEF Numbers
  <2> HIDE DEF back
  <2>4. PICK c \in 0 .. n, f \in Nat :
          /\ copy' = c /\ from' = f /\ source' \in {"window", "output"}
          /\ source' = "output" => f + d = Len(span) + 1 /\ f >= 1 /\ c = n
          /\ source' = "window" =>
               /\ back <= whave
               /\ InPart(f, back, c)
               /\ c < n => EndOfPart(f, back, c)
    <3>1. CASE ~(back > 0)
      <4>1. /\ 1 - back \in Nat /\ (1 - back) + d = Len(span) + 1 /\ 1 - back >= 1 /\ n \in 0 .. n
            /\ source' = "output" /\ from' = 1 - back /\ copy' = n
        BY <1>2, <1>3, <1>5, <2>1, <3>1
      <4> QED
        BY <4>1
    <3>2. CASE back > 0 /\ wnext = 0
      <4>1. source' = "window" /\ from' = wsize - back /\ copy' = MIN(back, n)
        BY <2>1, <3>2 DEF WindowPart
      <4>2. PICK c : c = MIN(back, n)
        OBVIOUS
      <4>4. c \in 0 .. n /\ c <= back /\ (c < n => c = back)
        BY <1>2, <1>5, <3>2, <4>2 DEF MIN
      <4>5. PICK f : f = wsize - back
        OBVIOUS
      <4>3. f \in Nat /\ f + back = wnext + wsize
        BY <1>5, <2>2, <2>3, <3>2, <4>5
      <4>6. InPart(f, back, c) /\ (c < n => EndOfPart(f, back, c))
        BY <1>5, <3>2, <4>3, <4>4 DEF InPart, EndOfPart
      <4> QED
        BY <2>2, <3>2, <4>1, <4>2, <4>3, <4>4, <4>5, <4>6
    <3>3. CASE back > 0 /\ wnext # 0 /\ wnext < back
      <4>1. source' = "window" /\ from' = (wsize + wnext) - back /\ copy' = MIN(back - wnext, n)
        BY <2>1, <3>3 DEF WindowPart
      <4>2. PICK c : c = MIN(back - wnext, n)
        OBVIOUS
      <4>4. c \in 0 .. n /\ wnext + c <= back /\ (c < n => wnext + c = back)
        BY <1>2, <1>5, <2>3, <3>3, <4>2 DEF MIN
      <4>5. PICK f : f = (wsize + wnext) - back
        OBVIOUS
      <4>3. f \in Nat /\ f + back = wnext + wsize
        BY <1>5, <2>2, <2>3, <3>3, <4>5
      <4> QED
        BY <1>2, <1>5, <2>2, <2>3, <3>3, <4>1, <4>2, <4>3, <4>4, <4>5 DEF InPart, EndOfPart
    <3>4. CASE back > 0 /\ wnext # 0 /\ ~(wnext < back)
      <4>1. source' = "window" /\ from' = wnext - back /\ copy' = MIN(back, n)
        BY <2>1, <3>4 DEF WindowPart
      <4>2. PICK c : c = MIN(back, n)
        OBVIOUS
      <4>4. c \in 0 .. n /\ c <= back /\ (c < n => c = back)
        BY <1>2, <1>5, <3>4, <4>2 DEF MIN
      <4>5. PICK f : f = wnext - back
        OBVIOUS
      <4>3. f \in Nat /\ f + back = wnext
        BY <1>5, <2>3, <3>4, <4>5
      <4> QED
        BY <1>2, <1>5, <2>2, <2>3, <3>4, <4>1, <4>2, <4>3, <4>4, <4>5 DEF InPart, EndOfPart
    <3> QED
      BY <3>1, <3>2, <3>3, <3>4
  <2>5. d \in 1 .. Len(text)
    <3>1. d <= Len(text)
      BY <1>2, <1>3, <1>5, <1>6, <2>2, <2>3
    <3> QED
      BY <1>2, <3>1
  <2>15. length' = n - c
    BY <2>1, <2>4
  <2>6. /\ text' \in Seq(Int) /\ Len(text') = Len(text) + n
        /\ \A i \in 1 .. Len(text) : text'[i] = text[i]
        /\ \A i \in Len(text) + 1 .. Len(text) + n : text'[i] = text'[i - d]
    <3>1. PICK e : e = Expanded(text, d, n)
      OBVIOUS
    <3>2. /\ e \in Seq(Int) /\ Len(e) = Len(text) + n
          /\ \A i \in 1 .. Len(text) : e[i] = text[i]
          /\ \A i \in Len(text) + 1 .. Len(text) + n : e[i] = e[i - d]
      BY <1>2, <2>5, <3>1, ExpandedIs
    <3> QED
      BY <2>1, <3>1, <3>2
  <2>7. Types'
    <3>1. length' \in 0 .. MAX_MATCH /\ copy' \in 0 .. MAX_MATCH /\ left' \in Nat
      <4>1. MAX_MATCH \in Nat
        BY <1>0 DEF Numbers
      <4> QED
        BY <1>1, <1>2, <1>3, <2>1, <2>4, <2>15, <4>1
    <3>2. TypeOK'
      BY <1>1, <1>2, <2>1, <2>4, <3>1 DEF IndInv, Types, TypeOK, win
    <3> QED
      BY <1>1, <1>2, <2>6, <3>1, <3>2 DEF IndInv, Types, win
  <2>8. Made' = Made /\ Base' = Base /\ Back' = back
    BY <1>1, <1>2, <1>3, <1>5, <2>1, <2>4, <2>6, <2>15 DEF Made, Base, Back
  <2>9. SpanIsText'
    <3>1. \A i \in 1 .. Len(span) : Base + i \in 1 .. Len(text)
      BY <1>3, <1>5
    <3> QED
      BY <1>1, <2>6, <2>8, <3>1 DEF IndInv, SpanIsText
  <2>10. WindowRight'
    <3>1. \A i \in 1 .. Base : i \in 1 .. Len(text)
      BY <1>2, <1>3, <1>5
    <3> QED
      BY <1>1, <2>6, <2>8, <3>1, WindowKept
  <2>11. Phases' /\ OnlyImpossibleRefused'
    BY <1>1, <2>1 DEF Phases, OnlyImpossibleRefused
  <2>12. MatchIsText'
    BY <1>1, <1>2, <1>5, <2>1, <2>5, <2>6, <2>8 DEF MatchIsText
  <2>13. LoopIsRight'
    <3>1. length' > 0 => c < n
      BY <1>2, <2>4, <2>15
    <3>2. c = n => ~(length' > 0)
      BY <1>2, <2>15
    <3>3. wnext' = wnext /\ wsize' = wsize /\ whave' = whave
      BY <1>1 DEF win
    <3>4. source' = "output" => from' + offset' = Len(span') + 1 /\ from' >= 1
      BY <1>1, <2>1, <2>4
    <3>5. source' = "window" => InPart(from, Back, copy)' /\ Back' <= whave'
      BY <2>4, <2>8, <3>3 DEF InPart
    <3>6. length' > 0 => source' = "window" /\ EndOfPart(from, Back, copy)'
      <4>1. length' > 0 => source' = "window" /\ EndOfPart(f, back, c)
        BY <2>4, <3>1, <3>2
      <4> QED
        BY <2>4, <2>8, <3>3, <4>1 DEF EndOfPart
    <3> QED
      BY <3>4, <3>5, <3>6 DEF LoopIsRight
  <2>14. StaysInSpan'
    <3>1. Len(span') + copy' + length' + left' = out' /\ left' >= 0
      <4>1. MAX_MATCH \in Nat
        BY <1>0 DEF Numbers
      <4> QED
        BY <1>1, <1>2, <1>3, <2>1, <2>4, <2>15, <4>1
    <3> QED
      BY <2>1, <3>1 DEF StaysInSpan
  <2> QED
    BY <2>7, <2>9, <2>10, <2>11, <2>12, <2>13, <2>14 DEF IndInv
<1> QED
  BY <1>7, <1>8

\* The next part of a match
LEMMA FastNextPartKeeps ==
  ASSUME SizeAssumption, IndInv, FastNextPart
  PROVE  IndInv'
<1>0. Numbers
  BY Counters
<1>18. Len(span) \in Nat /\ offset \in Nat
  BY <1>0 DEF Numbers
<1>1. /\ mode = "fast" /\ copy = 0 /\ length > 0
      /\ mode' = mode /\ calling' = calling /\ UNCHANGED win /\ span' = span /\ out' = out
      /\ left' = left /\ offset' = offset /\ text' = text /\ reach' = reach /\ asked' = asked
      /\ length' = length - copy'
      /\ IF Wraps
           THEN source' = "window" /\ from' = 0 /\ copy' = MIN(wnext, length)
           ELSE source' = "output" /\ from' = (Len(span) + 1) - offset /\ copy' = length
  <2>1. CASE Wraps
    BY <2>1 DEF FastNextPart
  <2>2. CASE ~Wraps
    BY <1>18, <2>2 DEF FastNextPart
  <2> QED
    BY <2>1, <2>2
<1>2. calling
  BY <1>1 DEF IndInv, Phases, Types, TypeOK
<1>3. source = "window" /\ EndOfPart(from, Back, 0) /\ Back <= whave
  BY <1>1 DEF IndInv, LoopIsRight
<1>4. /\ from \in Nat /\ offset \in Nat /\ Len(span) \in Nat /\ Back = offset - Len(span)
      /\ length \in Nat /\ length <= MAX_MATCH /\ MAX_MATCH \in Nat
      /\ wnext \in Nat /\ whave \in Nat /\ wsize \in {0, WSIZE} /\ WSIZE \in Nat
      /\ wnext < WSIZE /\ whave <= wsize /\ Len(text) \in Nat
  BY <1>0 DEF Numbers
<1>5. wnext <= whave
  BY DEF IndInv, WindowRight, HoldsTail
<1>6. Wraps => wnext # 0 /\ Back = wnext
  BY <1>3, <1>4, <1>5 DEF Wraps, EndOfPart
<1>7. ~Wraps => Back = 0
  BY <1>3, <1>4, <1>5 DEF Wraps, EndOfPart
<1>8. PICK c \in 0 .. length, f \in Nat :
        /\ copy' = c /\ from' = f /\ source' \in {"window", "output"}
        /\ source' = "output" => f + offset = Len(span) + 1 /\ f >= 1 /\ c = length
        /\ source' = "window" =>
             /\ InPart(f, Back, c)
             /\ c < length => EndOfPart(f, Back, c)
  <2>1. CASE Wraps
    <3>1. source' = "window" /\ from' = 0 /\ copy' = MIN(wnext, length)
      BY <1>1, <2>1
    <3>3. PICK c : c = MIN(wnext, length)
      OBVIOUS
    <3>2. c \in 0 .. length /\ c <= wnext /\ (c < length => c = wnext)
      BY <1>4, <3>3 DEF MIN
    <3> QED
      BY <1>4, <1>6, <2>1, <3>1, <3>2, <3>3 DEF InPart, EndOfPart
  <2>2. CASE ~Wraps
    <3>1. source' = "output" /\ from' = (Len(span) + 1) - offset /\ copy' = length
      BY <1>1, <2>2
    <3>2. PICK f : f = (Len(span) + 1) - offset
      OBVIOUS
    <3>3. f \in Nat /\ f + offset = Len(span) + 1 /\ f >= 1 /\ length \in 0 .. length
      BY <1>4, <1>7, <2>2, <3>2
    <3> QED
      BY <3>1, <3>2, <3>3
  <2> QED
    BY <2>1, <2>2
<1>17. length' = length - c
  BY <1>1, <1>8
<1>9. Made' = Made /\ Base' = Base /\ Back' = Back
  BY <1>1, <1>4, <1>8, <1>17 DEF Made, Base, Back
<1>10. Types'
  <2>1. length' \in 0 .. MAX_MATCH /\ copy' \in 0 .. MAX_MATCH
    BY <1>4, <1>8, <1>17
  <2>2. TypeOK'
    BY <1>1, <1>8, <2>1 DEF IndInv, Types, TypeOK, win
  <2> QED
    BY <1>1, <2>2 DEF IndInv, Types, win
<1>11. SpanIsText'
  BY <1>1, <1>9 DEF IndInv, SpanIsText
<1>12. WindowRight'
  BY <1>1, <1>9, WindowKept
<1>13. Phases' /\ OnlyImpossibleRefused'
  BY <1>1, <1>2 DEF Phases, OnlyImpossibleRefused
<1>14. MatchIsText'
  <2>1. Matching
    BY <1>1, <1>4 DEF Matching
  <2> QED
    BY <1>1, <1>9, <2>1 DEF IndInv, MatchIsText
<1>15. LoopIsRight'
  <2>1. length' > 0 => c < length
    BY <1>4, <1>8, <1>17
  <2>2. c = length => ~(length' > 0)
    BY <1>4, <1>17
  <2>3. wnext' = wnext /\ wsize' = wsize /\ whave' = whave
    BY <1>1 DEF win
  <2>4. source' = "output" => from' + offset' = Len(span') + 1 /\ from' >= 1
    BY <1>1, <1>8
  <2>5. source' = "window" => InPart(from, Back, copy)' /\ Back' <= whave'
    BY <1>3, <1>8, <1>9, <2>3 DEF InPart
  <2>6. length' > 0 => source' = "window" /\ EndOfPart(from, Back, copy)'
    <3>1. length' > 0 => source' = "window" /\ EndOfPart(f, Back, c)
      BY <1>8, <2>1, <2>2
    <3> QED
      BY <1>8, <1>9, <2>3, <3>1 DEF EndOfPart
  <2> QED
    BY <2>4, <2>5, <2>6 DEF LoopIsRight
<1>16. StaysInSpan'
  <2>1. Len(span) + length + left = out /\ left >= 0 /\ left \in Nat /\ out \in Nat
    BY <1>0, <1>1, <1>2 DEF IndInv, StaysInSpan, Numbers
  <2>2. Len(span') + copy' + length' + left' = out' /\ left' >= 0
    BY <1>1, <1>4, <1>8, <1>17, <2>1
  <2> QED
    BY <1>1, <2>2 DEF StaysInSpan
<1> QED
  BY <1>10, <1>11, <1>12, <1>13, <1>14, <1>15, <1>16 DEF IndInv

\* The end of inflate_fast
LEMMA FastReturnKeeps ==
  ASSUME SizeAssumption, IndInv, FastReturn
  PROVE  IndInv'
<1>0. Numbers
  BY Counters
<1>1. /\ mode = "fast" /\ copy = 0 /\ length = 0 /\ mode' = "LEN"
      /\ left' = left % UNSIGNED
      /\ calling' = calling /\ UNCHANGED win /\ span' = span /\ out' = out /\ length' = length
      /\ offset' = offset /\ source' = source /\ from' = from /\ copy' = copy
      /\ text' = text /\ reach' = reach /\ asked' = asked
  BY DEF FastReturn, loop
<1>2. calling
  BY <1>1 DEF IndInv, Phases, Types, TypeOK
<1>3. Len(span) + left = out /\ left \in Nat /\ out \in Nat /\ Len(span) \in Nat
      /\ out < UNSIGNED /\ UNSIGNED \in Nat \ {0}
  BY <1>0, <1>1, <1>2 DEF IndInv, StaysInSpan, Numbers
<1>4. left' = left
  <2>1. left < UNSIGNED
    BY <1>3
  <2> QED
    BY <1>1, <1>3, <2>1, ModStep
<1>5. Made' = Made /\ Base' = Base
  BY <1>1 DEF Made, Base
<1>6. Types' /\ SpanIsText'
  BY <1>1, <1>4, <1>5 DEF IndInv, Types, TypeOK, SpanIsText, win
<1>7. WindowRight'
  BY <1>1, <1>5, WindowKept
<1>8. Phases' /\ MatchIsText' /\ LoopIsRight' /\ OnlyImpossibleRefused'
  BY <1>1, <1>2 DEF Phases, MatchIsText, Matching, LoopIsRight, OnlyImpossibleRefused
<1>9. StaysInSpan'
  BY <1>1, <1>3, <1>4 DEF StaysInSpan
<1> QED
  BY <1>6, <1>7, <1>8, <1>9 DEF IndInv

----------------------------------------------------------------------------
\* The bytes after a copy into the window
Windows == [0 .. WSIZE - 1 -> Int]

\* v is w with count bytes of s, which end at its byte end, in place at.
Placed(v, w, at, s, end, count) ==
  \A i \in 0 .. WSIZE - 1 :
    /\ at <= i /\ i < at + count => v[i] = s[((end - count) + 1) + (i - at)]
    /\ i < at \/ at + count <= i => v[i] = w[i]

\* What Stored() leaves in the window.
LEMMA StoredIs ==
  ASSUME SizeAssumption, NEW w \in Windows, NEW s \in Seq(Int),
         NEW at \in Nat, NEW end \in Nat, end <= Len(s), NEW count \in Nat, count <= end
  PROVE  /\ Stored(w, at, s, end, count) \in Windows
         /\ Placed(Stored(w, at, s, end, count), w, at, s, end, count)
<1> DEFINE f == [i \in 0 .. WSIZE - 1 |->
                   IF at <= i /\ i < at + count THEN s[((end - count) + 1) + (i - at)] ELSE w[i]]
<1>1. Len(s) \in Nat /\ DOMAIN s = 1 .. Len(s) /\ (\A j \in 1 .. Len(s) : s[j] \in Int)
      /\ WSIZE \in Nat
  BY DEF SizeAssumption
<1>2. ASSUME NEW i \in 0 .. WSIZE - 1, at <= i, i < at + count
      PROVE  /\ i \in at .. at + count - 1
             /\ (end - count) + 1 + (i - at) = ((end - count) + 1) + (i - at)
             /\ ((end - count) + 1) + (i - at) \in 1 .. Len(s)
  BY <1>1, <1>2
<1>3. ASSUME NEW i \in 0 .. WSIZE - 1, ~(at <= i /\ i < at + count)
      PROVE  ~(i \in at .. at + count - 1)
  BY <1>1, <1>3
<1>4. \A i \in 0 .. WSIZE - 1 :
        (IF i \in at .. at + count - 1 THEN Byte(s, (end - count) + 1 + (i - at)) ELSE w[i])
        = IF at <= i /\ i < at + count THEN s[((end - count) + 1) + (i - at)] ELSE w[i]
  BY <1>1, <1>2, <1>3 DEF Byte
<1>5. DOMAIN w = 0 .. WSIZE - 1
  BY DEF Windows
<1>6. Stored(w, at, s, end, count) = f
  BY <1>4, <1>5 DEF Stored
<1>7. f \in Windows
  BY <1>1, <1>2 DEF Windows
<1>8. Placed(f, w, at, s, end, count)
  <2>1. \A i \in 0 .. WSIZE - 1 :
          /\ at <= i /\ i < at + count => f[i] = s[((end - count) + 1) + (i - at)]
          /\ i < at \/ at + count <= i => f[i] = w[i]
    BY <1>1
  <2> HIDE DEF f
  <2> QED
    BY <2>1 DEF Placed
<1> HIDE DEF f
<1> QED
  BY <1>6, <1>7, <1>8

\* s goes on where the first b bytes of t end.
Continues(s, t, b) == \A i \in 1 .. Len(s) : s[i] = t[b + i]

\* More was written than the window holds.
LEMMA Refilled ==
  ASSUME SizeAssumption, NEW w \in Windows, NEW s \in Seq(Int), NEW t,
         NEW b \in Nat, Continues(s, t, b), NEW n \in Nat, n = Len(s), n >= WSIZE,
         NEW v, v = Stored(w, 0, s, n, WSIZE)
  PROVE  /\ v \in Windows
         /\ HoldsTail(v, WSIZE, WSIZE, 0, t, b + n)
<1>1. WSIZE \in Nat \ {0}
  BY DEF SizeAssumption
<1>3. v \in Windows /\ Placed(v, w, 0, s, n, WSIZE)
  <2>1. n <= Len(s) /\ 0 \in Nat /\ WSIZE \in Nat /\ WSIZE <= n
    BY <1>1
  <2> QED
    BY <2>1, StoredIs
<1>4. ASSUME NEW i \in 0 .. WSIZE - 1
      PROVE  v[i] = t[(((b + n) - WSIZE) + 1) + i]
  <2>1. v[i] = s[((n - WSIZE) + 1) + (i - 0)]
    BY <1>1, <1>3 DEF Placed
  <2>2. PICK j : j = ((n - WSIZE) + 1) + (i - 0)
    OBVIOUS
  <2>3. j \in 1 .. n /\ b + j = (((b + n) - WSIZE) + 1) + i
    BY <1>1, <2>2
  <2> QED
    BY <2>1, <2>2, <2>3 DEF Continues
<1>5. /\ WSIZE <= b + n /\ WSIZE = MIN(WSIZE, b + n) /\ 0 <= WSIZE /\ ~(WSIZE < WSIZE)
      /\ (b + n) - 0 = b + n
      /\ \A i \in 0 .. WSIZE - 1 : ~(i < 0)
  BY <1>1 DEF MIN
<1>6. HoldsTail(v, WSIZE, WSIZE, 0, t, b + n)
  BY <1>4, <1>5 DEF HoldsTail
<1> QED
  BY <1>3, <1>6

\* What was written goes over the window's end.
LEMMA Wrapped ==
  ASSUME SizeAssumption, NEW w \in Windows, NEW s \in Seq(Int), NEW t,
         NEW b \in Nat, Continues(s, t, b), NEW n \in Nat, n = Len(s), n < WSIZE,
         NEW have \in 0 .. WSIZE, NEW next \in 0 .. WSIZE - 1,
         HoldsTail(w, WSIZE, have, next, t, b),
         NEW d \in Nat, d = WSIZE - next, NEW rest \in Nat \ {0}, rest = n - d,
         NEW first, first = Stored(w, next, s, d, d),
         NEW v, v = SecondPart(first, s, rest)
  PROVE  /\ v \in Windows
         /\ HoldsTail(v, WSIZE, WSIZE, rest, t, b + n)
         /\ rest \in 0 .. WSIZE - 1
<1>1. WSIZE \in Nat \ {0} /\ have \in Nat /\ next \in Nat
      /\ have <= WSIZE /\ next < WSIZE /\ n = rest + d /\ d = WSIZE - next
  BY DEF SizeAssumption
<1>2. have <= b /\ next <= have
  BY DEF HoldsTail
<1>3. first \in Windows /\ Placed(first, w, next, s, d, d)
  <2>1. d <= Len(s) /\ d <= d /\ next \in Nat
    BY <1>1
  <2> QED
    BY <1>1, <2>1, StoredIs
<1>5. v \in Windows /\ Placed(v, first, 0, s, n, rest)
  <2>1. n <= Len(s) /\ rest <= n /\ 0 \in Nat /\ rest \in Nat
    BY <1>1
  <2>2. v = Stored(first, 0, s, n, rest)
    BY DEF SecondPart
  <2>3. first \in Windows
    BY <1>3
  <2>4. Stored(first, 0, s, n, rest) \in Windows
        /\ Placed(Stored(first, 0, s, n, rest), first, 0, s, n, rest)
    BY <2>1, <2>3, StoredIs
  <2> QED
    BY <2>2, <2>4
<1>6. ASSUME NEW i \in 0 .. WSIZE - 1, i < rest
      PROVE  v[i] = t[(((b + n) - rest) + 1) + i]
  <2>1. v[i] = s[((n - rest) + 1) + (i - 0)]
    BY <1>1, <1>5, <1>6 DEF Placed
  <2>2. PICK j : j = ((n - rest) + 1) + (i - 0)
    OBVIOUS
  <2>3. j \in 1 .. n /\ b + j = (((b + n) - rest) + 1) + i
    BY <1>1, <1>6, <2>2
  <2> QED
    BY <2>1, <2>2, <2>3 DEF Continues
<1>7. ASSUME NEW i \in 0 .. WSIZE - 1, i >= rest
      PROVE  v[i] = t[((((b + n) - rest) - WSIZE) + 1) + i]
  <2>1. v[i] = first[i]
    BY <1>1, <1>5, <1>7 DEF Placed
  <2>2. PICK p : p = ((((b + n) - rest) - WSIZE) + 1) + i
    OBVIOUS
  <2>3. p = ((b - next) + 1) + i
    BY <1>1, <2>2
  <2>4. CASE i < next
    <3>1. first[i] = w[i]
      BY <1>3, <2>4 DEF Placed
    <3>2. w[i] = t[((b - next) + 1) + i]
      BY <2>4 DEF HoldsTail
    <3> QED
      BY <2>1, <2>2, <2>3, <3>1, <3>2
  <2>5. CASE ~(i < next)
    <3>1. PICK j : j = ((d - d) + 1) + (i - next)
      OBVIOUS
    <3>2. j \in 1 .. n /\ b + j = p /\ next <= i /\ i < next + d
      BY <1>1, <2>3, <2>5, <3>1
    <3>3. first[i] = s[j]
      BY <1>3, <3>1, <3>2 DEF Placed
    <3> QED
      BY <2>1, <2>2, <3>2, <3>3 DEF Continues
  <2> QED
    BY <2>4, <2>5
<1>8. WSIZE <= b + n /\ WSIZE = MIN(WSIZE, b + n) /\ rest <= WSIZE /\ rest \in 0 .. WSIZE - 1
      /\ ~(WSIZE < WSIZE)
  <2>1. WSIZE <= b + n /\ rest < WSIZE
    BY <1>1, <1>2
  <2>2. MIN(WSIZE, b + n) = WSIZE
    <3>1. WSIZE < b + n \/ b + n = WSIZE
      BY <1>1, <2>1
    <3> QED
      BY <3>1, Zenon DEF MIN
  <2>3. rest <= WSIZE /\ rest \in 0 .. WSIZE - 1 /\ ~(WSIZE < WSIZE)
    BY <1>1, <2>1
  <2> QED
    BY <2>1, <2>2, <2>3
<1>9. HoldsTail(v, WSIZE, WSIZE, rest, t, b + n)
  BY <1>6, <1>7, <1>8 DEF HoldsTail
<1> QED
  BY <1>5, <1>8, <1>9

\* What was written ends before the window's end.
LEMMA Advanced ==
  ASSUME SizeAssumption, NEW w \in Windows, NEW s \in Seq(Int), NEW t,
         NEW b \in Nat, Continues(s, t, b), NEW n \in Nat, n = Len(s),
         NEW have \in 0 .. WSIZE, NEW next \in 0 .. WSIZE - 1,
         HoldsTail(w, WSIZE, have, next, t, b), next + n <= WSIZE,
         NEW v, v = Stored(w, next, s, n, n),
         NEW have2, have2 = IF have < WSIZE THEN have + n ELSE have,
         NEW next2, next2 = IF next + n < WSIZE THEN next + n ELSE 0
  PROVE  /\ v \in Windows
         /\ HoldsTail(v, WSIZE, have2, next2, t, b + n)
         /\ have2 \in 0 .. WSIZE /\ next2 \in 0 .. WSIZE - 1
<1>1. WSIZE \in Nat \ {0} /\ have \in Nat /\ next \in Nat
      /\ have <= WSIZE /\ next < WSIZE
  BY DEF SizeAssumption
<1>2. have <= b /\ next <= have /\ (have < WSIZE => next = have) /\ have = MIN(WSIZE, b)
  BY <1>1 DEF HoldsTail
<1>3. have < WSIZE => have = b
  BY <1>1, <1>2 DEF MIN
<1>4. v \in Windows /\ Placed(v, w, next, s, n, n)
  <2>1. n <= Len(s) /\ n <= n /\ next \in Nat
    OBVIOUS
  <2> QED
    BY <1>1, <2>1, StoredIs
<1>5. ASSUME NEW i \in 0 .. WSIZE - 1, i < next + n
      PROVE  v[i] = t[((b - next) + 1) + i]
  <2>1. CASE i < next
    <3>1. v[i] = w[i]
      BY <1>4, <2>1 DEF Placed
    <3>2. w[i] = t[((b - next) + 1) + i]
      BY <2>1 DEF HoldsTail
    <3> QED
      BY <3>1, <3>2
  <2>2. CASE ~(i < next)
    <3>1. PICK j : j = ((n - n) + 1) + (i - next)
      OBVIOUS
    <3>2. j \in 1 .. n /\ b + j = ((b - next) + 1) + i /\ next <= i
      BY <1>1, <1>5, <2>2, <3>1
    <3> QED
      BY <1>4, <1>5, <3>1, <3>2 DEF Continues, Placed
  <2> QED
    BY <2>1, <2>2
<1>6. have2 <= b + n /\ next2 <= have2 /\ (have2 < WSIZE => next2 = have2)
      /\ have2 = MIN(WSIZE, b + n) /\ have2 \in 0 .. WSIZE /\ next2 \in 0 .. WSIZE - 1
  BY <1>1, <1>2, <1>3 DEF MIN
<1>7. ASSUME NEW i \in 0 .. WSIZE - 1, i < next2
      PROVE  v[i] = t[(((b + n) - next2) + 1) + i]
  <2>2. next2 = next + n
    BY <1>7
  <2>3. i < next + n
    BY <1>7, <2>2
  <2>4. (b + n) - (next + n) = b - next
    BY <1>1
  <2>1. (((b + n) - next2) + 1) + i = ((b - next) + 1) + i /\ i < next + n
    BY <2>2, <2>3, <2>4
  <2> QED
    BY <1>5, <2>1
<1>8. ASSUME NEW i \in 0 .. WSIZE - 1, i >= next2, have2 = WSIZE
      PROVE  v[i] = t[((((b + n) - next2) - WSIZE) + 1) + i]
  <2>1. CASE next + n < WSIZE
    <3>1. have = WSIZE /\ next + n <= i /\ i >= next
      BY <1>1, <1>2, <1>8, <2>1
    <3>2. v[i] = w[i]
      BY <1>4, <3>1 DEF Placed
    <3>4. w[i] = t[(((b - next) - WSIZE) + 1) + i]
      BY <3>1 DEF HoldsTail
    <3>5. ((((b + n) - next2) - WSIZE) + 1) + i = (((b - next) - WSIZE) + 1) + i
      BY <1>1, <2>1
    <3> QED
      BY <3>2, <3>4, <3>5
  <2>2. CASE ~(next + n < WSIZE)
    <3>2. next2 = 0 /\ next + n = WSIZE
      BY <1>1, <2>2
    <3>3. i < next + n
      BY <1>1, <3>2
    <3>4. ((b + n) - 0) - WSIZE = b - next
      BY <1>1, <3>2
    <3>1. ((((b + n) - next2) - WSIZE) + 1) + i = ((b - next) + 1) + i /\ i < next + n
      BY <3>2, <3>3, <3>4
    <3> QED
      BY <1>5, <3>1
  <2> QED
    BY <2>1, <2>2
<1>9. HoldsTail(v, WSIZE, have2, next2, t, b + n)
  BY <1>6, <1>7, <1>8 DEF HoldsTail
<1> QED
  BY <1>4, <1>6, <1>9

\* updatewindow(): the window holds the end of what has been written.
LEMMA UpdateRight ==
  ASSUME SizeAssumption, IndInv, calling, wsize = 0 => mode # "BAD",
         updatewindow(Len(span))
  PROVE  /\ wsize' = WSIZE /\ window' \in Windows
         /\ whave' \in 0 .. WSIZE /\ wnext' \in 0 .. WSIZE - 1
         /\ HoldsTail(window', WSIZE, whave', wnext', text, Base + Len(span))
<1>0. Numbers
  BY Counters
<1>1. /\ WSIZE \in Nat \ {0} /\ Len(span) \in Nat /\ Base \in Nat
      /\ wsize \in {0, WSIZE} /\ wnext \in Nat /\ wnext < WSIZE /\ whave \in Nat
      /\ whave <= wsize
  BY <1>0 DEF Numbers
<1>2. /\ span \in Seq(Int) /\ \A i \in 1 .. Len(span) : span[i] = text[Base + i]
      /\ HoldsTail(window, wsize, whave, wnext, text, Base)
      /\ wsize = 0 => Base = 0
      /\ window \in [0 .. wsize - 1 -> Int]
  BY DEF IndInv, Types, SpanIsText, WindowRight
<1> DEFINE size == IF wsize = 0 THEN WSIZE ELSE wsize
           w == IF wsize = 0 THEN [i \in 0 .. size - 1 |-> Fresh] ELSE window
           n == Len(span)
           dist == MIN(size - wnext, n)
           first == Stored(w, wnext, span, (Len(span) - n) + dist, dist)
           rest == n - dist
<1>3. /\ wsize' = size
      /\ n >= size => window' = Stored(w, 0, span, Len(span), size)
                      /\ wnext' = 0 /\ whave' = size
      /\ ~(n >= size) /\ rest > 0 => window' = SecondPart(first, span, rest)
                                     /\ wnext' = WrapsTo(rest) /\ whave' = size
      /\ ~(n >= size) /\ ~(rest > 0) => window' = first /\ wnext' = (wnext + dist) % size
                            /\ whave' = IF whave < size THEN whave + dist ELSE whave
  BY DEF updatewindow
<1>4. size = WSIZE
  BY <1>1
<1>5. w \in Windows
  BY <1>1, <1>2 DEF Fresh, Windows
<1>6. HoldsTail(w, WSIZE, whave, wnext, text, Base)
  <2>1. CASE wsize = 0
    <3>1. whave = 0 /\ Base = 0 /\ wnext = 0
      BY <1>1, <1>2, <2>1 DEF HoldsTail
    <3>2. 0 = MIN(WSIZE, 0) /\ 0 # WSIZE /\ \A i \in 0 .. WSIZE - 1 : ~(i < 0)
      BY <1>1 DEF MIN
    <3> HIDE DEF w
    <3> QED
      BY <3>1, <3>2 DEF HoldsTail
  <2>2. CASE wsize # 0
    BY <1>1, <1>2, <2>2
  <2> QED
    BY <2>1, <2>2
<1>7. dist = MIN(WSIZE - wnext, Len(span)) /\ (Len(span) - n) + dist = dist
  BY <1>1, <1>4 DEF MIN
<1>8. whave \in 0 .. WSIZE /\ wnext \in 0 .. WSIZE - 1
  BY <1>1
<1>12. Continues(span, text, Base)
  BY <1>2 DEF Continues
<1> HIDE DEF size, w
<1>9. CASE Len(span) >= WSIZE
  <2>1. window' = Stored(w, 0, span, Len(span), WSIZE) /\ wnext' = 0 /\ whave' = WSIZE
    BY <1>3, <1>4, <1>9
  <2>2. PICK v : v = Stored(w, 0, span, Len(span), WSIZE)
    OBVIOUS
  <2>3. v \in Windows /\ HoldsTail(v, WSIZE, WSIZE, 0, text, Base + Len(span))
    BY <1>1, <1>2, <1>5, <1>9, <1>12, <2>2, Refilled
  <2>4. WSIZE \in 0 .. WSIZE /\ 0 \in 0 .. WSIZE - 1
    BY <1>1
  <2> QED
    BY <1>3, <1>4, <2>1, <2>2, <2>3, <2>4
<1>10. CASE ~(Len(span) >= WSIZE) /\ Len(span) > WSIZE - wnext
  <2>1. dist = WSIZE - wnext
    BY <1>1, <1>7, <1>10 DEF MIN
  <2>2. PICK r, d : r = Len(span) - (WSIZE - wnext) /\ d = WSIZE - wnext
    OBVIOUS
  <2>3. /\ r \in Nat \ {0} /\ rest = r /\ r > 0 /\ Len(span) < WSIZE
        /\ d \in Nat /\ r = Len(span) - d /\ dist = d
    BY <1>1, <1>10, <2>1, <2>2
  <2>4. PICK f : f = Stored(w, wnext, span, d, d)
    OBVIOUS
  <2>5. first = f
    BY <1>7, <2>3, <2>4
  <2>9. PICK v : v = SecondPart(f, span, r)
    OBVIOUS
  <2>6. window' = v /\ wnext' = r /\ whave' = WSIZE
    BY <1>3, <1>4, <1>10, <2>3, <2>5, <2>9 DEF WrapsTo
  <2>7. WSIZE \in 0 .. WSIZE
    BY <1>1
  <2> HIDE DEF first, rest, dist, n
  <2>8. /\ v \in Windows
        /\ HoldsTail(v, WSIZE, WSIZE, r, text, Base + Len(span))
        /\ r \in 0 .. WSIZE - 1
    BY <1>1, <1>2, <1>5, <1>6, <1>8, <1>12, <2>2, <2>3, <2>4, <2>9, Wrapped
  <2> QED
    BY <1>3, <1>4, <2>6, <2>7, <2>8
<1>11. CASE ~(Len(span) >= WSIZE) /\ ~(Len(span) > WSIZE - wnext)
  <2>1. dist = Len(span) /\ rest = 0
    BY <1>1, <1>7, <1>11 DEF MIN
  <2>2. PICK v : v = Stored(w, wnext, span, Len(span), Len(span))
    OBVIOUS
  <2>3. first = v
    BY <1>7, <2>1, <2>2
  <2>4. PICK h : h = IF whave < WSIZE THEN whave + Len(span) ELSE whave
    OBVIOUS
  <2>5. PICK x : x = IF wnext + Len(span) < WSIZE THEN wnext + Len(span) ELSE 0
    OBVIOUS
  <2>7. wnext + Len(span) <= WSIZE
    BY <1>1, <1>11
  <2>9. (wnext + Len(span)) % WSIZE = x
    <3>1. wnext + Len(span) \in Nat
      BY <1>1
    <3>2. CASE wnext + Len(span) < WSIZE
      BY <1>1, <2>5, <3>1, <3>2, ModStep
    <3>3. CASE ~(wnext + Len(span) < WSIZE)
      <4>1. wnext + Len(span) = WSIZE /\ WSIZE % WSIZE = 0
        BY <1>1, <2>7, <3>3
      <4> QED
        BY <2>5, <3>3, <4>1
    <3> QED
      BY <3>2, <3>3
  <2>6. window' = v /\ wnext' = x /\ whave' = h
    BY <1>3, <1>4, <1>11, <2>1, <2>3, <2>4, <2>9
  <2> HIDE DEF first, rest, dist, n
  <2>8. /\ v \in Windows
        /\ HoldsTail(v, WSIZE, h, x, text, Base + Len(span))
        /\ h \in 0 .. WSIZE /\ x \in 0 .. WSIZE - 1
    BY <1>1, <1>2, <1>5, <1>6, <1>8, <1>12, <2>2, <2>4, <2>5, <2>7, Advanced
  <2> QED
    BY <1>3, <1>4, <2>6, <2>8
<1> QED
  BY <1>9, <1>10, <1>11

\* The end of a call
LEMMA LeaveKeeps ==
  ASSUME SizeAssumption, IndInv, Leave
  PROVE  IndInv'
<1>0. Numbers
  BY Counters
<1>1. /\ calling /\ copy = 0 /\ calling' = FALSE /\ mode \in {"LEN", "BAD", "LIT", "MATCH"}
      /\ mode' = mode /\ span' = span /\ out' = out /\ left' = left /\ length' = length
      /\ offset' = offset /\ source' = source /\ from' = from /\ copy' = copy
      /\ text' = text /\ reach' = reach /\ asked' = asked
  BY DEF Leave, loop
<1>2. out - left = Len(span) /\ (out # left <=> Len(span) # 0)
  <2>1. mode # "fast"
    BY <1>1
  <2> QED
    BY <1>0, <1>1, <2>1 DEF IndInv, StaysInSpan, Numbers
<1>3. Made' = Made /\ Base' = Made /\ Base + Len(span) = Made
  BY <1>0, <1>1 DEF Made, Base, Numbers
<1>4. SpanIsText'
  BY <1>0, <1>1, <1>3 DEF SpanIsText, Numbers
<1>5. Phases' /\ MatchIsText' /\ LoopIsRight' /\ StaysInSpan' /\ OnlyImpossibleRefused'
  BY <1>1, <1>3 DEF IndInv, Phases, MatchIsText, Matching, LoopIsRight, StaysInSpan,
                    OnlyImpossibleRefused
<1>6. CASE wsize # 0 \/ (Len(span) # 0 /\ mode # "BAD")
  <2>1. updatewindow(Len(span))
    BY <1>2, <1>6 DEF Leave
  <2>2. /\ wsize' = WSIZE /\ window' \in [0 .. WSIZE - 1 -> Int]
        /\ whave' \in 0 .. WSIZE /\ wnext' \in 0 .. WSIZE - 1
        /\ HoldsTail(window', WSIZE, whave', wnext', text, Base + Len(span))
    BY <1>1, <1>6, <2>1, UpdateRight DEF Windows
  <2>3. WindowRight'
    <3>1. wsize' # 0
      BY <1>0, <2>2 DEF Numbers
    <3> QED
      BY <1>1, <1>3, <2>2, <3>1 DEF WindowRight
  <2>4. Types'
    BY <1>1, <2>2 DEF IndInv, Types, TypeOK
  <2> QED
    BY <1>4, <1>5, <2>3, <2>4 DEF IndInv
<1>7. CASE ~(wsize # 0 \/ (Len(span) # 0 /\ mode # "BAD"))
  <2>1. UNCHANGED win
    BY <1>2, <1>7 DEF Leave
  <2>2. Types'
    BY <1>1, <2>1 DEF IndInv, Types, TypeOK, win
  <2>3. WindowRight'
    <3>1. wsize = 0 /\ whave = 0 /\ wnext = 0 /\ WSIZE \in Nat \ {0} /\ Made \in Nat
      BY <1>0, <1>7 DEF IndInv, WindowRight, HoldsTail, Numbers
    <3>2. HoldsTail(window, 0, 0, 0, text, Made)
      BY <3>1 DEF HoldsTail
    <3>3. Made = 0 \/ mode = "BAD"
      BY <1>0, <1>3, <1>7 DEF IndInv, WindowRight, Numbers
    <3> QED
      BY <1>1, <1>3, <2>1, <3>1, <3>2, <3>3 DEF WindowRight, win
  <2> QED
    BY <1>4, <1>5, <2>2, <2>3 DEF IndInv
<1> QED
  BY <1>6, <1>7

\* The invariant is about the variables alone.
LEMMA Stutters ==
  ASSUME IndInv, UNCHANGED vars
  PROVE  IndInv'
<1>1. /\ mode' = mode /\ calling' = calling /\ UNCHANGED win /\ span' = span /\ out' = out
      /\ left' = left /\ length' = length /\ offset' = offset /\ source' = source
      /\ from' = from /\ copy' = copy /\ text' = text /\ reach' = reach /\ asked' = asked
  BY DEF vars, loop
<1>2. Made' = Made /\ Base' = Base /\ Back' = Back
  BY <1>1 DEF Made, Base, Back
<1>3. Types' /\ SpanIsText' /\ WindowRight'
  BY <1>1, <1>2 DEF IndInv, Types, TypeOK, SpanIsText, WindowRight, win
<1>4. Phases' /\ MatchIsText' /\ StaysInSpan' /\ OnlyImpossibleRefused'
  BY <1>1, <1>2 DEF IndInv, Phases, MatchIsText, Matching, StaysInSpan, OnlyImpossibleRefused
<1>5. LoopIsRight'
  BY <1>1, <1>2 DEF IndInv, LoopIsRight, InPart, EndOfPart, win
<1> QED
  BY <1>3, <1>4, <1>5 DEF IndInv

\* Every step keeps the invariant.
LEMMA Inductive ==
  ASSUME SizeAssumption, LengthsAssumption, SpansAssumption, SpansFit, IndInv, [Next]_vars
  PROVE  IndInv'
<1>1. ASSUME NEW m \in Spans, Call(m) PROVE IndInv'
  BY <1>1, CallKeeps
<1>2. CASE Literal
  BY <1>2, LiteralKeeps
<1>3. CASE FastLiteral
  BY <1>3, FastLiteralKeeps
<1>4. ASSUME NEW n \in Lengths, NEW d \in 1 .. MaxDistance, LengthDistance(n, d) PROVE IndInv'
  BY <1>4, LengthDistanceKeeps
<1>5. ASSUME NEW n \in Lengths, NEW d \in 1 .. MaxDistance, FastMatch(n, d) PROVE IndInv'
  BY <1>5, FastMatchKeeps
<1>6. CASE Lit
  BY <1>6, LitKeeps
<1>7. CASE Match
  BY <1>7, MatchKeeps
<1>8. CASE CopyByte
  BY <1>8, CopyByteKeeps
<1>9. CASE FastNextPart
  BY <1>9, FastNextPartKeeps
<1>10. CASE FastReturn
  BY <1>10, FastReturnKeeps
<1>11. CASE Leave
  BY <1>11, LeaveKeeps
<1>12. CASE UNCHANGED vars
  BY <1>12, Stutters
<1> QED
  BY <1>1, <1>2, <1>3, <1>4, <1>5, <1>6, <1>7, <1>8, <1>9, <1>10, <1>11, <1>12 DEF Next, Symbols

\* The invariant implies what a run checks.
LEMMA Implied ==
  ASSUME SizeAssumption, IndInv
  PROVE  TypeOK /\ OutputIsText /\ WindowIsTail /\ OnlyImpossibleRefused /\ StaysInSpan
<1>0. Numbers
  BY Counters
<1>1. OutputIsText
  <2>1. SUFFICES ASSUME calling
                 PROVE  /\ Len(span) <= Made
                        /\ \A i \in 1 .. Len(span) : span[i] = text[(Made - Len(span)) + i]
    BY DEF OutputIsText
  <2>2. Base = Made - Len(span) /\ Len(span) <= Made
    BY <1>0, <2>1 DEF Numbers
  <2> QED
    BY <2>1, <2>2 DEF IndInv, SpanIsText
<1>2. WindowIsTail
  <2>1. SUFFICES ASSUME ~calling, wsize # 0
                 PROVE  /\ whave = MIN(wsize, Made)
                        /\ \A k \in 1 .. whave : window[(wnext - k) % wsize] = text[(Made - k) + 1]
    BY DEF WindowIsTail
  <2>2. /\ wsize = WSIZE /\ Base = Made /\ WSIZE \in Nat \ {0} /\ Made \in Nat
        /\ wnext \in Nat /\ wnext < WSIZE /\ whave \in Nat /\ whave <= WSIZE
    BY <1>0, <2>1 DEF Numbers, Base
  <2>3. HoldsTail(window, WSIZE, whave, wnext, text, Made)
    BY <2>2 DEF IndInv, WindowRight
  <2>4. whave = MIN(WSIZE, Made) /\ (whave < WSIZE => wnext = whave)
    BY <2>2, <2>3 DEF HoldsTail
  <2>5. ASSUME NEW k \in 1 .. whave
        PROVE  window[(wnext - k) % wsize] = text[(Made - k) + 1]
    <3>1. (wnext - k) % WSIZE = IF k <= wnext THEN wnext - k ELSE (wnext - k) + WSIZE
      <4>1. k \in 1 .. WSIZE /\ wnext \in 0 .. WSIZE - 1
        BY <2>2
      <4> QED
        BY <2>2, <4>1, Backwards
    <3>2. CASE k <= wnext
      <4>1. PICK i : i = wnext - k
        OBVIOUS
      <4>2. i \in 0 .. WSIZE - 1 /\ i < wnext /\ ((Made - wnext) + 1) + i = (Made - k) + 1
        BY <2>2, <3>2, <4>1
      <4>3. window[i] = text[((Made - wnext) + 1) + i]
        BY <2>3, <4>2 DEF HoldsTail
      <4> QED
        BY <2>2, <3>1, <3>2, <4>1, <4>2, <4>3
    <3>3. CASE ~(k <= wnext)
      <4>1. PICK i : i = (wnext - k) + WSIZE
        OBVIOUS
      <4>2. whave = WSIZE
        BY <2>2, <2>4, <3>3
      <4>3. i \in 0 .. WSIZE - 1 /\ i >= wnext
            /\ (((Made - wnext) - WSIZE) + 1) + i = (Made - k) + 1
        BY <2>2, <3>3, <4>1
      <4>4. window[i] = text[(((Made - wnext) - WSIZE) + 1) + i]
        BY <2>3, <4>2, <4>3 DEF HoldsTail
      <4> QED
        BY <2>2, <3>1, <3>3, <4>1, <4>3, <4>4
    <3> QED
      BY <3>2, <3>3
  <2> QED
    BY <2>2, <2>4, <2>5
<1> QED
  BY <1>1, <1>2 DEF IndInv, Types

\* Whatever the calls' spans, and from whichever parts of the window and the
\* output inflate() and inflate_fast() copy, the output is what the symbols
\* mean, the window keeps its tail, only impossible distances are refused and
\* no copy runs past its span.
THEOREM OutputIsRight ==
  ASSUME SizeAssumption, LengthsAssumption, SpansAssumption, SpansFit
  PROVE  Spec => [](TypeOK /\ OutputIsText /\ WindowIsTail
                      /\ OnlyImpossibleRefused /\ StaysInSpan)
<1>1. Init => IndInv
  BY InitInv
<1>2. IndInv /\ [Next]_vars => IndInv'
  BY Inductive
<1>3. IndInv => TypeOK /\ OutputIsText /\ WindowIsTail /\ OnlyImpossibleRefused /\ StaysInSpan
  BY Implied
<1> QED
  BY <1>1, <1>2, <1>3, PTL DEF Spec

=============================================================================
