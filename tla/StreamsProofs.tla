---------------------------- MODULE StreamsProofs ----------------------------
(***************************************************************************)
(* Proofs about Streams: both checksums are those of the whole text by     *)
(* their definitions, the bits read are the bits sent, and what inflate()  *)
(* copies is what its symbols mean.                                        *)
(*                                                                         *)
(* The definitions are recursive functions; what they compute is proved by *)
(* induction over a set of naturals.                                       *)
(***************************************************************************)
EXTENDS Streams, TLAPS

CP == INSTANCE WindowCopyProofs WITH MaxText <- MaxCopied, text <- text_copy

BP == INSTANCE BitChannelProofs WITH length <- rest

----------------------------------------------------------------------------
(***************************************************************************)
(* adler32(): arithmetic.                                                  *)
(***************************************************************************)

\* The numbers in adler32.cpp meet the assumption, and NMAX is the largest
\* that does.
THEOREM SourceSizes ==
  /\ 255 * (5552 * (5552 + 1)) + 2 * ((5552 + 1) * (65521 - 1)) < 2 * (65536 * 65536)
  /\ ~(255 * (5553 * (5553 + 1)) + 2 * ((5553 + 1) * (65521 - 1)) < 2 * (65536 * 65536))
  BY SMT

\* A number below the modulus is its own remainder.
LEMMA SmallRemainder ==
  ASSUME NEW x \in Nat, NEW w \in Nat, x < w
  PROVE  x % w = x
  BY SMT

\* A remainder is below the modulus.
LEMMA RemainderBelow ==
  ASSUME NEW x \in Nat, NEW w \in Nat \ {0}
  PROVE  x % w \in Nat /\ x % w < w
  BY SMT

\* The halves of a combined sum.
LEMMA Halves ==
  ASSUME NEW h \in Nat, NEW a \in Nat, NEW b \in Nat, a < h, b < h
  PROVE  (a + b * h) % h = a /\ ((a + b * h) \div h) % h = b
  <1>1. (a + b * h) % h = a /\ (a + b * h) \div h = b
    BY SMT
  <1> QED
    BY <1>1, SmallRemainder

\* A product of factors that do not shrink does not shrink.
LEMMA ProductGrows ==
  ASSUME NEW a \in Nat, NEW b \in Nat, NEW x \in Nat, NEW y \in Nat, a <= x, b <= y
  PROVE  a * b \in Nat /\ a * b <= x * y
  <1>1. a * b <= x * b
    BY SMT
  <1>2. x * b <= x * y
    BY SMT
  <1> QED
    BY <1>1, <1>2, SMT

\* The room k bytes after a reduction can take: what one more byte adds to it.
LEMMA OneMoreByte ==
  ASSUME NEW k \in Nat, NEW m \in Nat, NEW r \in Nat
  PROVE  /\ m * ((k + 1) * (k + 2)) = m * (k * (k + 1)) + 2 * ((k + 1) * m)
         /\ (k + 2) * r = (k + 1) * r + r
         /\ (k + 1) * m = k * m + m
  <1>1. (k + 1) * (k + 2) = k * (k + 1) + 2 * (k + 1)
    BY SMT
  <1>2. m * ((k + 1) * (k + 2)) = m * (k * (k + 1)) + m * (2 * (k + 1))
    BY <1>1, SMT
  <1>3. m * (2 * (k + 1)) = 2 * ((k + 1) * m)
    BY SMT
  <1>4. (k + 2) * r = (k + 1) * r + r /\ (k + 1) * m = k * m + m
    BY SMT
  <1> QED
    BY <1>2, <1>3, <1>4

----------------------------------------------------------------------------
(***************************************************************************)
(* The inductive invariant: how large the sums can be k bytes after they   *)
(* were last reduced.                                                      *)
(***************************************************************************)

AdlerRoom(k) == k * MaxByte + (BASE - 1)

\* Twice the room of sum2.
Sum2Room(k) == MaxByte * (k * (k + 1)) + 2 * ((k + 1) * (BASE - 1))

Combined == \E a, b \in 0 .. BASE - 1 : check = a + b * HALF

AdlerInv ==
  /\ TypeOK
  /\ Combined
  /\ pc = "inner" => adler <= AdlerRoom(NMAX - n) /\ 2 * sum2 <= Sum2Room(NMAX - n)

\* Before the last byte of a batch there is room for another.
LEMMA RoomForOne ==
  ASSUME SizeAssumption, NEW k \in Nat, k < NMAX,
         NEW a \in Nat, NEW s \in Nat, a <= AdlerRoom(k), 2 * s <= Sum2Room(k),
         NEW byte \in 0 .. MaxByte
  PROVE  /\ a + byte <= AdlerRoom(k + 1)
         /\ 2 * (s + (a + byte)) <= Sum2Room(k + 1)
         /\ a + byte < UINT32
         /\ s + (a + byte) < UINT32
  <1> DEFINE r == BASE - 1
  <1>1. r \in Nat /\ NMAX \in Nat /\ MaxByte \in Nat /\ HALF \in Nat /\ byte <= MaxByte
        /\ byte \in Nat
    BY DEF SizeAssumption
  <1>2. /\ MaxByte * ((k + 1) * (k + 2)) = MaxByte * (k * (k + 1)) + 2 * ((k + 1) * MaxByte)
        /\ (k + 2) * r = (k + 1) * r + r
        /\ (k + 1) * MaxByte = k * MaxByte + MaxByte
    BY <1>1, OneMoreByte
  <1>3. a + byte <= AdlerRoom(k + 1)
    <2>1. a <= k * MaxByte + r
      BY DEF AdlerRoom
    <2>2. a + byte <= (k + 1) * MaxByte + r
      <3>1. k * MaxByte \in Nat
        BY <1>1, SMT
      <3> QED
        BY <2>1, <3>1, <1>1, <1>2, SMT
    <2> QED
      BY <2>2 DEF AdlerRoom
  <1>4. 2 * (s + (a + byte)) <= Sum2Room(k + 1)
    <2>1. 2 * s <= MaxByte * (k * (k + 1)) + 2 * ((k + 1) * r)
      BY DEF Sum2Room
    <2>2. a + byte <= (k + 1) * MaxByte + r
      BY <1>3 DEF AdlerRoom
    <2>3. /\ MaxByte * (k * (k + 1)) \in Nat /\ (k + 1) * r \in Nat
          /\ (k + 1) * MaxByte \in Nat
      BY <1>1, SMT
    <2>4. 2 * (s + (a + byte)) <= MaxByte * ((k + 1) * (k + 2)) + 2 * ((k + 2) * r)
      BY <2>1, <2>2, <2>3, <1>1, <1>2, SMT
    <2>5. (k + 1) + 1 = k + 2
      BY SMT
    <2> QED
      BY <2>4, <2>5 DEF Sum2Room
  <1>5. Sum2Room(k + 1) < 2 * UINT32
    <2>1. k + 1 \in Nat /\ k + 2 \in Nat /\ k + 1 <= NMAX /\ k + 2 <= NMAX + 1
          /\ NMAX + 1 \in Nat
      BY <1>1, SMT
    <2>2. (k + 1) * (k + 2) \in Nat /\ (k + 1) * (k + 2) <= NMAX * (NMAX + 1)
      BY <2>1, <1>1, ProductGrows
    <2>3. NMAX * (NMAX + 1) \in Nat /\ MaxByte <= MaxByte
      BY <1>1, SMT
    <2>4. MaxByte * ((k + 1) * (k + 2)) <= MaxByte * (NMAX * (NMAX + 1))
      BY <2>2, <2>3, <1>1, ProductGrows
    <2>5. (k + 2) * r \in Nat /\ (k + 2) * r <= (NMAX + 1) * r
      BY <2>1, <1>1, ProductGrows, r <= r
    <2>6. /\ MaxByte * ((k + 1) * (k + 2)) \in Nat
          /\ MaxByte * (NMAX * (NMAX + 1)) \in Nat
          /\ (NMAX + 1) * r \in Nat /\ HALF * HALF \in Nat
      BY <1>1, <2>2, <2>3, SMT
    <2>7. MaxByte * (NMAX * (NMAX + 1)) + 2 * ((NMAX + 1) * r) < 2 * (HALF * HALF)
      BY DEF SizeAssumption
    <2>8. MaxByte * ((k + 1) * (k + 2)) + 2 * ((k + 2) * r) < 2 * (HALF * HALF)
      BY <2>4, <2>5, <2>6, <2>7, SMT
    <2>9. (k + 1) + 1 = k + 2
      BY SMT
    <2> QED
      BY <2>8, <2>9 DEF Sum2Room, UINT32
  <1>6. UINT32 \in Nat /\ Sum2Room(k + 1) \in Int
    BY <1>1, SMT DEF UINT32, Sum2Room
  <1>7. s + (a + byte) < UINT32
    BY <1>1, <1>4, <1>5, <1>6, SMT
  <1> QED
    BY <1>1, <1>3, <1>4, <1>6, <1>7, SMT

----------------------------------------------------------------------------
(***************************************************************************)
(* The invariant holds from the start and is kept by every step.           *)
(***************************************************************************)

\* Init establishes the invariant.
LEMMA AdlerStarts ==
  ASSUME SizeAssumption, BytesAssumption, Init
  PROVE  AdlerInv
  <1>1. BASE - 1 \in Nat /\ 1 \in 0 .. BASE - 1 /\ 0 \in 0 .. BASE - 1 /\ HALF \in Nat
        /\ NMAX \in Nat /\ 0 < BASE
    BY DEF SizeAssumption
  <1>2. 1 = 1 + 0 * HALF
    BY <1>1, SMT
  <1>3. Combined
    BY <1>1, <1>2 DEF Init, Combined
  <1>4. 1 <= (BASE - 1) * (HALF + 1)
    <2>1. 1 * 1 <= (BASE - 1) * (HALF + 1)
      <3>1. 1 \in Nat /\ BASE - 1 \in Nat /\ HALF + 1 \in Nat /\ 1 <= BASE - 1 /\ 1 <= HALF + 1
        BY <1>1
      <3> QED
        BY <3>1, ProductGrows
    <2> QED
      BY <2>1
  <1>5. (BASE - 1) * (HALF + 1) \in Int
    BY <1>1, SMT
  <1>6. TypeOK
    BY <1>1, <1>4, <1>5 DEF Init, TypeOK
  <1> QED
    BY <1>3, <1>6 DEF AdlerInv, Init

\* A call starts from the halves of the last checksum, each below BASE.
LEMMA AdlerCallKeeps ==
  ASSUME SizeAssumption, BytesAssumption, AdlerInv, Call
  PROVE  AdlerInv'
  <1>1. PICK a \in 0 .. BASE - 1, b \in 0 .. BASE - 1 : check = a + b * HALF
    BY DEF AdlerInv, Combined
  <1>2. a \in Nat /\ b \in Nat /\ HALF \in Nat /\ a < BASE /\ b < BASE
        /\ a < HALF /\ b < HALF
    BY <1>1 DEF SizeAssumption
  <1>3. adler' = a /\ sum2' = b
    BY <1>1, <1>2, Halves DEF Call
  <1>4. TypeOK'
    <2>1. len' \in Nat /\ text' = text /\ n' = n /\ check' = check /\ pc' = "outer"
      BY DEF Call, AdlerInv, TypeOK, BytesAssumption
    <2> QED
      BY <2>1, <1>2, <1>3 DEF AdlerInv, TypeOK
  <1>5. Combined' /\ pc' # "inner"
    BY DEF Call, AdlerInv, Combined
  <1> QED
    BY <1>4, <1>5 DEF AdlerInv

\* A batch starts with reduced sums, which its room includes.
LEMMA AdlerSplitKeeps ==
  ASSUME SizeAssumption, BytesAssumption, AdlerInv, Split
  PROVE  AdlerInv'
  <1>1. /\ BASE \in Nat \ {0} /\ NMAX \in Nat \ {0} /\ MaxByte \in Nat /\ HALF \in Nat
        /\ NMAX < HALF /\ len \in Nat /\ len > 0
        /\ adler \in Nat /\ sum2 \in Nat /\ adler < BASE /\ sum2 < BASE
    BY DEF SizeAssumption, AdlerInv, TypeOK, Split
  <1>2. Batch \in 0 .. NMAX /\ len - Batch \in Nat
    <2>1. CASE len < NMAX
      <3>1. len < HALF
        BY <2>1, <1>1
      <3>2. len % HALF = len
        BY <3>1, <1>1, SmallRemainder
      <3>3. Batch = len
        BY <3>2, <2>1 DEF Batch
      <3> QED
        BY <3>3, <2>1, <1>1
    <2>2. CASE ~(len < NMAX)
      <3>1. NMAX % HALF = NMAX
        BY <1>1, SmallRemainder
      <3>2. Batch = NMAX
        BY <3>1, <2>2 DEF Batch
      <3> QED
        BY <3>2, <2>2, <1>1
    <2> QED
      BY <2>1, <2>2
  <1>3. n' = Batch /\ len' = len - Batch /\ pc' = "inner" /\ adler' = adler /\ sum2' = sum2
        /\ check' = check /\ text' = text
    BY DEF Split
  <1>4. TypeOK' /\ Combined'
    BY <1>1, <1>2, <1>3 DEF AdlerInv, TypeOK, Combined
  <1>5. adler <= AdlerRoom(NMAX - Batch) /\ 2 * sum2 <= Sum2Room(NMAX - Batch)
    <2> DEFINE k == NMAX - Batch
               r == BASE - 1
    <2> HIDE DEF k, r
    <2>1. k \in Nat /\ r \in Nat /\ adler <= r /\ sum2 <= r
      BY <1>1, <1>2 DEF k, r
    <2>2. k * MaxByte \in Nat /\ k * (k + 1) \in Nat
      BY <2>1, <1>1, SMT
    <2>3. MaxByte * (k * (k + 1)) \in Nat
      BY <2>2, <1>1, SMT
    <2>4. 1 * r <= (k + 1) * r /\ (k + 1) * r \in Nat
      <3>1. 1 \in Nat /\ k + 1 \in Nat /\ 1 <= k + 1 /\ r <= r
        BY <2>1
      <3> QED
        BY <3>1, <2>1, ProductGrows, SMT
    <2>5. adler <= k * MaxByte + r
      BY <2>1, <2>2, <1>1
    <2>6. 2 * sum2 <= MaxByte * (k * (k + 1)) + 2 * ((k + 1) * r)
      BY <2>1, <2>3, <2>4, <1>1, SMT
    <2> QED
      BY <2>5, <2>6 DEF AdlerRoom, Sum2Room, k, r
  <1> QED
    BY <1>3, <1>4, <1>5 DEF AdlerInv

\* One more byte: within the room, so the 32-bit sums do not wrap.
LEMMA AdlerAddKeeps ==
  ASSUME SizeAssumption, BytesAssumption, AdlerInv, Add
  PROVE  AdlerInv'
  <1> DEFINE k == NMAX - n
  <1>1. /\ NMAX \in Nat /\ n \in 0 .. NMAX /\ n > 0 /\ HALF \in Nat
        /\ adler \in Nat /\ sum2 \in Nat /\ pc = "inner"
        /\ adler <= AdlerRoom(k) /\ 2 * sum2 <= Sum2Room(k)
    BY DEF SizeAssumption, AdlerInv, TypeOK, Add
  <1>2. PICK byte \in Bytes :
          /\ adler' = (adler + byte) % UINT32
          /\ sum2' = (sum2 + adler') % UINT32
          /\ text' = Append(text, byte)
    BY DEF Add
  <1>3. byte \in 0 .. MaxByte /\ byte \in Nat
    BY <1>2 DEF BytesAssumption, SizeAssumption
  <1>4. k \in Nat /\ k < NMAX /\ k + 1 = NMAX - (n - 1)
    BY <1>1
  <1>5. /\ adler + byte <= AdlerRoom(k + 1)
        /\ 2 * (sum2 + (adler + byte)) <= Sum2Room(k + 1)
        /\ adler + byte < UINT32
        /\ sum2 + (adler + byte) < UINT32
    BY <1>1, <1>3, <1>4, RoomForOne
  <1>6. UINT32 \in Nat
    BY <1>1, SMT DEF UINT32
  <1>7. adler' = adler + byte
    <2>1. adler + byte \in Nat
      BY <1>1, <1>3
    <2> QED
      BY <2>1, <1>2, <1>5, <1>6, SmallRemainder
  <1>8. sum2' = sum2 + (adler + byte)
    <2>1. sum2 + (adler + byte) \in Nat
      BY <1>1, <1>3
    <2> QED
      BY <2>1, <1>2, <1>5, <1>6, <1>7, SmallRemainder
  <1>9. pc' = "inner" /\ check' = check /\ len' = len /\ n' = n - 1
    BY <1>1 DEF Add
  <1>10. TypeOK'
    <2>1. adler' \in Nat /\ sum2' \in Nat /\ n' \in 0 .. NMAX
      BY <1>1, <1>3, <1>7, <1>8, <1>9
    <2>2. text' \in Seq(0 .. MaxByte)
      BY <1>2, <1>3 DEF AdlerInv, TypeOK
    <2> QED
      BY <2>1, <2>2, <1>9 DEF AdlerInv, TypeOK
  <1>11. Combined'
    BY <1>9 DEF AdlerInv, Combined
  <1>12. adler' <= AdlerRoom(NMAX - n') /\ 2 * sum2' <= Sum2Room(NMAX - n')
    BY <1>4, <1>5, <1>7, <1>8, <1>9
  <1>13. (AdlerRoom(NMAX - n))' = AdlerRoom(NMAX - n') /\ (Sum2Room(NMAX - n))' = Sum2Room(NMAX - n')
    BY DEF AdlerRoom, Sum2Room
  <1> QED
    BY <1>10, <1>11, <1>12, <1>13 DEF AdlerInv

\* Reducing brings both sums below BASE.
LEMMA AdlerReduceKeeps ==
  ASSUME SizeAssumption, BytesAssumption, AdlerInv, Reduce
  PROVE  AdlerInv'
  <1>1. adler \in Nat /\ sum2 \in Nat /\ BASE \in Nat \ {0}
    BY DEF SizeAssumption, AdlerInv, TypeOK
  <1>2. adler' \in Nat /\ adler' < BASE /\ sum2' \in Nat /\ sum2' < BASE
    BY <1>1, RemainderBelow DEF Reduce, Reduced
  <1>3. pc' = "outer" /\ check' = check /\ len' = len /\ n' = n /\ text' = text
    BY DEF Reduce
  <1>4. TypeOK' /\ Combined'
    BY <1>2, <1>3 DEF AdlerInv, TypeOK, Combined
  <1> QED
    BY <1>3, <1>4 DEF AdlerInv

\* What is returned has a reduced sum in each half.
LEMMA AdlerReturnKeeps ==
  ASSUME SizeAssumption, BytesAssumption, AdlerInv, Return
  PROVE  AdlerInv'
  <1> DEFINE r == BASE - 1
  <1>1. /\ adler \in 0 .. r /\ sum2 \in 0 .. r /\ HALF \in Nat /\ r \in Nat
        /\ check' = adler + sum2 * HALF
        /\ pc' = "idle" /\ adler' = adler /\ sum2' = sum2 /\ len' = len /\ n' = n
        /\ text' = text
    BY DEF SizeAssumption, AdlerInv, TypeOK, Return
  <1>2. Combined'
    BY <1>1 DEF Combined
  <1>3. check' \in 0 .. r * (HALF + 1)
    <2>1. adler \in Nat /\ sum2 \in Nat /\ sum2 <= r /\ adler <= r /\ HALF <= HALF
      BY <1>1
    <2>2. sum2 * HALF \in Nat /\ sum2 * HALF <= r * HALF
      BY <2>1, <1>1, ProductGrows
    <2>3. r * (HALF + 1) = r * HALF + r /\ r * HALF \in Nat
      BY <1>1, SMT
    <2> QED
      BY <2>1, <2>2, <2>3, <1>1
  <1>4. TypeOK'
    BY <1>1, <1>3 DEF AdlerInv, TypeOK
  <1> QED
    BY <1>1, <1>2, <1>4 DEF AdlerInv

\* The invariant is inductive.
LEMMA AdlerInductive ==
  ASSUME SizeAssumption, BytesAssumption
  PROVE  AdlerInv /\ [Next]_vars => AdlerInv'
  <1> SUFFICES ASSUME AdlerInv, [Next]_vars PROVE AdlerInv'
    OBVIOUS
  <1>1. CASE Call
    BY <1>1, AdlerCallKeeps
  <1>2. CASE Split
    BY <1>2, AdlerSplitKeeps
  <1>3. CASE Add
    BY <1>3, AdlerAddKeeps
  <1>4. CASE Reduce
    BY <1>4, AdlerReduceKeeps
  <1>5. CASE Return
    BY <1>5, AdlerReturnKeeps
  <1>6. CASE UNCHANGED vars
    <2>1. TypeOK' /\ Combined'
      BY <1>6 DEF vars, AdlerInv, TypeOK, Combined
    <2>2. pc' = "inner" => adler' <= (AdlerRoom(NMAX - n))' /\ 2 * sum2' <= (Sum2Room(NMAX - n))'
      BY <1>6 DEF vars, AdlerInv, AdlerRoom, Sum2Room
    <2> QED
      BY <2>1, <2>2 DEF AdlerInv
  <1> QED
    BY <1>1, <1>2, <1>3, <1>4, <1>5, <1>6 DEF Next

\* The sums and the checksum keep their ranges; between batches both sums are
\* reduced (adler32.cpp, the outer loop).
THEOREM SumsInRange == Spec => []TypeOK
  <1>1. Init => AdlerInv
    BY AdlerStarts, SizeAssumption, BytesAssumption
  <1>2. AdlerInv /\ [Next]_vars => AdlerInv'
    BY AdlerInductive, SizeAssumption, BytesAssumption
  <1>3. AdlerInv => TypeOK
    BY DEF AdlerInv
  <1> QED
    BY <1>1, <1>2, <1>3, PTL DEF Spec

\* The invariant leaves room for a byte of any value wherever one is added.
LEMMA RoomEverywhere ==
  ASSUME SizeAssumption, AdlerInv
  PROVE  NeverWraps
  <1> SUFFICES ASSUME pc = "inner", n > 0
               PROVE  adler + MaxByte < UINT32 /\ sum2 + (adler + MaxByte) < UINT32
    BY DEF NeverWraps
  <1>1. /\ n \in 0 .. NMAX /\ NMAX \in Nat /\ MaxByte \in Nat /\ adler \in Nat /\ sum2 \in Nat
        /\ adler <= AdlerRoom(NMAX - n) /\ 2 * sum2 <= Sum2Room(NMAX - n)
    BY DEF AdlerInv, TypeOK, SizeAssumption
  <1>2. NMAX - n \in Nat /\ NMAX - n < NMAX /\ MaxByte \in 0 .. MaxByte
    BY <1>1
  <1> QED
    BY <1>1, <1>2, RoomForOne

\* adler32() reduces its sums only once per NMAX bytes, and they never pass 32
\* bits in between: with SourceSizes, that holds for the numbers in the source.
THEOREM SumsNeverWrap == Spec => []NeverWraps
  <1>1. Init => AdlerInv
    BY AdlerStarts, SizeAssumption, BytesAssumption
  <1>2. AdlerInv /\ [Next]_vars => AdlerInv'
    BY AdlerInductive, SizeAssumption, BytesAssumption
  <1>3. AdlerInv => NeverWraps
    BY RoomEverywhere, SizeAssumption
  <1> QED
    BY <1>1, <1>2, <1>3, PTL DEF Spec

----------------------------------------------------------------------------
(***************************************************************************)
(* adler32(): what the sums are.                                           *)
(***************************************************************************)

\* A multiple of the divisor does not show in the remainder.
LEMMA ModShift ==
  ASSUME NEW d \in Nat \ {0}, NEW q \in Nat, NEW z \in Nat
  PROVE  (d * q + z) % d = z % d
  <1>1. PICK p \in Nat, r \in 0 .. d - 1 : z = d * p + r /\ z % d = r
    BY CP!Division
  <1>2. d * (q + p) = d * q + d * p /\ d * q \in Nat /\ d * p \in Nat
    BY SMT
  <1>3. d * q + z = d * (q + p) + r /\ q + p \in Nat /\ d * q + z \in Nat
    BY <1>1, <1>2
  <1> QED
    BY <1>1, <1>3, CP!RemainderIs

\* A sum may be reduced before or after an addition.
LEMMA ModAdd ==
  ASSUME NEW d \in Nat \ {0}, NEW x \in Nat, NEW y \in Nat
  PROVE  (x + y) % d = ((x % d) + y) % d
  <1>1. PICK p \in Nat, r \in 0 .. d - 1 : x = d * p + r /\ x % d = r
    BY CP!Division
  <1>2. d * p \in Nat /\ r + y \in Nat
    BY SMT
  <1>3. x + y = d * p + (r + y)
    BY <1>1, <1>2
  <1>4. (d * p + (r + y)) % d = (r + y) % d
    BY <1>1, <1>2, ModShift
  <1> QED
    BY <1>1, <1>3, <1>4, Zenon

Halved == (0 .. BASE - 1) \X (0 .. BASE - 1)

\* The sums after a byte.
LEMMA AfterIs ==
  ASSUME SizeAssumption, NEW s \in Halved, NEW byte \in 0 .. MaxByte
  PROVE  /\ After(s, byte) \in Halved
         /\ After(s, byte)[1] = (s[1] + byte) % BASE
         /\ After(s, byte)[2] = (s[2] + ((s[1] + byte) % BASE)) % BASE
  <1> DEFINE a == (s[1] + byte) % BASE
             b == (s[2] + a) % BASE
  <1>1. s[1] \in Nat /\ s[2] \in Nat /\ byte \in Nat /\ BASE \in Nat \ {0}
    BY DEF SizeAssumption, Halved
  <1>2. a \in 0 .. BASE - 1
    <2>1. s[1] + byte \in Nat
      BY <1>1
    <2> QED
      BY <1>1, <2>1, CP!ModStep
  <1> HIDE DEF a
  <1>3. b \in 0 .. BASE - 1
    <2>1. s[2] + a \in Nat
      BY <1>1, <1>2
    <2> QED
      BY <1>1, <2>1, CP!ModStep
  <1> HIDE DEF b
  <1>4. After(s, byte) = <<a, b>>
    BY DEF After, a, b
  <1>5. <<a, b>> \in Halved
    BY <1>2, <1>3 DEF Halved
  <1>6. After(s, byte)[1] = a /\ After(s, byte)[2] = b
    BY <1>4
  <1> QED
    BY <1>4, <1>5, <1>6, Zenon DEF a, b

\* The sums of a text, as a fold over it
SumStep(t) == [p \in (1 .. Len(t)) \X Halved |-> After(p[2], t[p[1]])]

\* The sums of a text by the definition are those of the fold.
LEMMA SumsFold ==
  ASSUME SizeAssumption, NEW t \in Seq(0 .. MaxByte)
  PROVE  \E s \in [0 .. Len(t) -> Halved] :
           BP!IsFold(s, Len(t), SumStep(t), Start) /\ Sums(t) = s[Len(t)]
  <1> DEFINE Is(s) == s = [i \in 0 .. Len(t) |-> IF i = 0 THEN Start ELSE After(s[i - 1], t[i])]
             m == Len(t)
             F == SumStep(t)
  <1>1. m \in Nat /\ \A i \in 1 .. m : t[i] \in 0 .. MaxByte
    OBVIOUS
  <1>2. Start \in Halved
    BY DEF Start, Halved, SizeAssumption
  <1>3. F \in [(1 .. m) \X Halved -> Halved]
    <2>1. \A p \in (1 .. m) \X Halved : After(p[2], t[p[1]]) \in Halved
      BY <1>1, AfterIs
    <2> QED
      BY <2>1 DEF SumStep
  <1>4. \A i \in 1 .. m, x \in Halved : F[<<i, x>>] = After(x, t[i])
    BY DEF SumStep
  <1>5. Sums(t) = (CHOOSE s : Is(s))[Len(t)]
    BY DEF Sums
  <1> HIDE DEF m, F
  <1>6. PICK g \in [0 .. m -> Halved] : BP!IsFold(g, m, F, Start)
    BY <1>1, <1>2, <1>3, BP!FoldExists
  <1>7. Is(g)
    <2>1. \A i \in 0 .. m : g[i] = IF i = 0 THEN Start ELSE After(g[i - 1], t[i])
      <3> TAKE i \in 0 .. m
      <3>1. CASE i = 0
        BY <1>6, <3>1 DEF BP!IsFold
      <3>2. CASE i # 0
        <4>1. i \in 1 .. m /\ i - 1 \in 0 .. m
          BY <1>1, <3>2
        <4>2. g[i] = F[<<i, g[i - 1]>>] /\ g[i - 1] \in Halved
          BY <1>6, <4>1 DEF BP!IsFold
        <4> QED
          BY <1>4, <3>2, <4>1, <4>2
      <3> QED
        BY <3>1, <3>2
    <2> QED
      BY <1>6, <2>1 DEF m
  <1> DEFINE s == CHOOSE s : Is(s)
  <1>8. Is(s)
    BY <1>7
  <1> HIDE DEF s
  <1>9. \A i \in 0 .. m : s[i] = IF i = 0 THEN Start ELSE After(s[i - 1], t[i])
    BY <1>8 DEF m
  <1>10. BP!On(s, m)
    BY <1>8 DEF m, BP!On
  <1> HIDE DEF Is
  <1>11. s \in [0 .. m -> Halved] /\ BP!IsFold(s, m, F, Start)
    <2>1. s[0] = Start
      BY <1>1, <1>9
    <2>2. ASSUME NEW i \in 1 .. m, s[i - 1] \in Halved PROVE s[i] = F[<<i, s[i - 1]>>]
      <3>1. i \in 0 .. m /\ i # 0
        BY <1>1
      <3> QED
        BY <1>4, <1>9, <2>2, <3>1
    <2> QED
      <3>1. BP!Folding(Halved, Start, m, F, s)
        BY <1>1, <1>2, <1>3, <1>10, <2>1, <2>2 DEF BP!Folding
      <3> QED
        BY <3>1, BP!Folded
  <1> QED
    BY <1>5, <1>11 DEF s, m, F

\* The sums of no bytes.
LEMMA SumsEmpty ==
  ASSUME SizeAssumption
  PROVE  Sums(<<>>) = Start
  <1>1. <<>> \in Seq(0 .. MaxByte) /\ Len(<<>>) = 0
    OBVIOUS
  <1> QED
    BY <1>1, SumsFold DEF BP!IsFold

\* The sums of one byte more.
LEMMA SumsAppend ==
  ASSUME SizeAssumption, NEW t \in Seq(0 .. MaxByte), NEW byte \in 0 .. MaxByte
  PROVE  Sums(t) \in Halved /\ Sums(Append(t, byte)) = After(Sums(t), byte)
  <1>1. PICK u : u = Append(t, byte)
    OBVIOUS
  <1>2. /\ u \in Seq(0 .. MaxByte) /\ Len(t) \in Nat /\ Len(u) = Len(t) + 1
        /\ u[Len(t) + 1] = byte /\ \A i \in 1 .. Len(t) : u[i] = t[i]
    BY <1>1
  <1>3. PICK g \in [0 .. Len(t) -> Halved] :
          BP!IsFold(g, Len(t), SumStep(t), Start) /\ Sums(t) = g[Len(t)]
    BY SumsFold
  <1>4. PICK f \in [0 .. Len(u) -> Halved] :
          BP!IsFold(f, Len(u), SumStep(u), Start) /\ Sums(u) = f[Len(u)]
    BY <1>2, SumsFold
  <1>5. \A i \in 1 .. Len(t), x \in Halved : SumStep(u)[<<i, x>>] = SumStep(t)[<<i, x>>]
    <2> TAKE i \in 1 .. Len(t), x \in Halved
    <2>1. i \in 1 .. Len(u) /\ u[i] = t[i]
      BY <1>2
    <2>2. SumStep(u)[<<i, x>>] = After(x, u[i])
      BY <2>1 DEF SumStep
    <2>3. SumStep(t)[<<i, x>>] = After(x, t[i])
      BY DEF SumStep
    <2> QED
      BY <2>1, <2>2, <2>3
  <1>6. f[Len(t)] = g[Len(t)]
    <2>1. Len(t) \in 0 .. Len(u) /\ Len(u) \in Nat /\ Len(t) \in 0 .. Len(t)
      BY <1>2
    <2>2. \A i \in 0 .. Len(t) : f[i] = g[i]
      <3>1. PICK m \in Nat, k \in Nat : m = Len(t) /\ k = Len(u)
        BY <2>1
      <3>2. PICK G, F : G = SumStep(t) /\ F = SumStep(u)
        OBVIOUS
      <3>3. PICK a : a = Start
        OBVIOUS
      <3>4. m \in 0 .. k /\ f \in [0 .. k -> Halved] /\ g \in [0 .. m -> Halved]
        BY <2>1, <3>1
      <3>5. BP!IsFold(f, k, F, a) /\ BP!IsFold(g, m, G, a)
        BY <1>3, <1>4, <3>1, <3>2, <3>3
      <3>6. \A i \in 1 .. m, x \in Halved : F[<<i, x>>] = G[<<i, x>>]
        BY <1>5, <3>1, <3>2
      <3>7. PICK Y : Y = Halved
        OBVIOUS
      <3>8. f \in [0 .. k -> Y] /\ g \in [0 .. m -> Y]
            /\ \A i \in 1 .. m, x \in Y : F[<<i, x>>] = G[<<i, x>>]
        BY <3>4, <3>6, <3>7
      <3>9. \A i \in 0 .. m : f[i] = g[i]
        BY <3>4, <3>5, <3>8, BP!FoldsAgree
      <3> QED
        BY <3>1, <3>9
    <2> QED
      BY <2>1, <2>2
  <1>7. f[Len(u)] = SumStep(u)[<<Len(u), f[Len(t)]>>]
    <2>1. Len(u) \in 1 .. Len(u) /\ Len(u) - 1 = Len(t)
      BY <1>2
    <2> QED
      BY <1>4, <2>1 DEF BP!IsFold
  <1>8. g[Len(t)] \in Halved /\ Len(u) \in 1 .. Len(u)
    <2>1. Len(t) \in 0 .. Len(t) /\ Len(u) \in 1 .. Len(u)
      BY <1>2
    <2> QED
      BY <1>3, <2>1
  <1>9. SumStep(u)[<<Len(u), g[Len(t)]>>] = After(g[Len(t)], u[Len(u)])
    BY <1>8 DEF SumStep
  <1> QED
    BY <1>1, <1>2, <1>3, <1>4, <1>6, <1>7, <1>8, <1>9

AdlerExact ==
  /\ pc # "idle" => adler % BASE = Sums(text)[1] /\ sum2 % BASE = Sums(text)[2]
  /\ pc = "idle" => check = Sums(text)[1] + Sums(text)[2] * HALF

\* The sums are right before the first call.
LEMMA AdlerExactStarts ==
  ASSUME SizeAssumption, Init
  PROVE  AdlerExact
  <1>1. 1 = 1 + 0 * HALF
    BY SMT DEF SizeAssumption
  <1> QED
    BY <1>1, SumsEmpty DEF Init, AdlerExact, Start

\* Every step keeps the sums congruent to the definition's.
LEMMA AdlerExactKept ==
  ASSUME SizeAssumption, BytesAssumption, AdlerInv, AdlerExact, [Next]_vars
  PROVE  AdlerExact'
  <1>1. /\ BASE \in Nat \ {0} /\ HALF \in Nat /\ BASE <= HALF /\ NMAX \in Nat /\ UINT32 \in Nat
        /\ adler \in Nat /\ sum2 \in Nat /\ text \in Seq(0 .. MaxByte)
        /\ pc \in {"idle", "outer", "inner"}
        /\ pc = "outer" => adler < BASE /\ sum2 < BASE
    BY SMT DEF SizeAssumption, AdlerInv, TypeOK, UINT32
  <1>2. PICK s : s = Sums(text)
    OBVIOUS
  <1>3. s \in Halved /\ s[1] \in 0 .. BASE - 1 /\ s[2] \in 0 .. BASE - 1
    <2>1. 0 \in 0 .. MaxByte
      BY DEF SizeAssumption
    <2> QED
      BY <1>1, <1>2, <2>1, SumsAppend DEF Halved
  <1>4. pc # "idle" => adler % BASE = s[1] /\ sum2 % BASE = s[2]
    BY <1>2 DEF AdlerExact
  <1>5. CASE Call
    <2>1. check = s[1] + s[2] * HALF /\ adler' = check % HALF /\ sum2' = (check \div HALF) % HALF
          /\ text' = text /\ pc' = "outer"
      BY <1>2, <1>5 DEF Call, AdlerExact
    <2>2. adler' = s[1] /\ sum2' = s[2]
      <3>1. s[1] \in Nat /\ s[2] \in Nat /\ s[1] < HALF /\ s[2] < HALF
        BY <1>1, <1>3
      <3>2. PICK x \in Nat, y \in Nat : x = s[1] /\ y = s[2]
        BY <3>1
      <3>3. (x + y * HALF) % HALF = x /\ ((x + y * HALF) \div HALF) % HALF = y
        <4>1. HALF \in Nat /\ x < HALF /\ y < HALF
          BY <1>1, <3>1, <3>2
        <4> QED
          BY <4>1, Halves, Zenon
      <3> QED
        BY <2>1, <3>2, <3>3
    <2>3. s[1] % BASE = s[1] /\ s[2] % BASE = s[2]
      <3>1. s[1] \in Nat /\ s[2] \in Nat /\ s[1] < BASE /\ s[2] < BASE
        BY <1>1, <1>3
      <3> QED
        BY <1>1, <3>1, SmallRemainder
    <2> QED
      BY <1>2, <2>1, <2>2, <2>3 DEF AdlerExact
  <1>6. CASE Split
    BY <1>6 DEF Split, AdlerExact
  <1>7. CASE Add
    <2>1. PICK byte \in Bytes :
            /\ adler' = (adler + byte) % UINT32
            /\ sum2' = (sum2 + adler') % UINT32
            /\ text' = Append(text, byte)
      BY <1>7 DEF Add
    <2>2. byte \in 0 .. MaxByte /\ byte \in Nat
      BY <2>1 DEF BytesAssumption, SizeAssumption
    <2>3. adler' = adler + byte /\ sum2' = sum2 + (adler + byte)
      <3> DEFINE k == NMAX - n
      <3>1. /\ k \in Nat /\ k < NMAX /\ adler <= AdlerRoom(k) /\ 2 * sum2 <= Sum2Room(k)
        BY <1>1, <1>7 DEF AdlerInv, TypeOK, Add
      <3>2. adler + byte < UINT32 /\ sum2 + (adler + byte) < UINT32
        BY <1>1, <2>2, <3>1, RoomForOne
      <3>3. adler + byte \in Nat /\ sum2 + (adler + byte) \in Nat
        BY <1>1, <2>2
      <3>4. (adler + byte) % UINT32 = adler + byte
            /\ (sum2 + (adler + byte)) % UINT32 = sum2 + (adler + byte)
        BY <1>1, <3>2, <3>3, SmallRemainder
      <3> QED
        BY <2>1, <3>4
    <2>4. /\ Sums(text') = After(s, byte)
          /\ After(s, byte)[1] = (s[1] + byte) % BASE
          /\ After(s, byte)[2] = (s[2] + ((s[1] + byte) % BASE)) % BASE
      BY <1>1, <1>2, <1>3, <2>1, <2>2, SumsAppend, AfterIs
    <2>5. adler % BASE = s[1] /\ sum2 % BASE = s[2]
      BY <1>4, <1>7 DEF Add
    <2>6. (adler + byte) % BASE = (s[1] + byte) % BASE
      <3>1. (adler + byte) % BASE = ((adler % BASE) + byte) % BASE
        BY <1>1, <2>2, ModAdd
      <3> QED
        BY <2>5, <3>1, Zenon
    <2>7. (sum2 + (adler + byte)) % BASE = (s[2] + ((s[1] + byte) % BASE)) % BASE
      <3>1. PICK x : x = adler + byte
        OBVIOUS
      <3>2. x \in Nat /\ x % BASE = (s[1] + byte) % BASE /\ s[2] \in Nat
        BY <1>1, <1>3, <2>2, <2>6, <3>1
      <3>3. (sum2 + x) % BASE = (s[2] + x) % BASE
        <4>1. (sum2 + x) % BASE = ((sum2 % BASE) + x) % BASE
          BY <1>1, <3>2, ModAdd
        <4> QED
          BY <2>5, <4>1, Zenon
      <3>4. (x + s[2]) % BASE = ((x % BASE) + s[2]) % BASE
        BY <1>1, <3>2, ModAdd
      <3>5. x % BASE \in Nat
        BY <1>1, <3>2, RemainderBelow
      <3>6. s[2] + x = x + s[2] /\ (x % BASE) + s[2] = s[2] + (x % BASE)
        <4>1. PICK y : y = x % BASE
          OBVIOUS
        <4> QED
          BY <3>2, <3>5, <4>1
      <3> QED
        BY <3>1, <3>2, <3>3, <3>4, <3>6, Zenon
    <2>8. pc' # "idle"
      BY <1>7 DEF Add
    <2> QED
      BY <2>3, <2>4, <2>6, <2>7, <2>8, Zenon DEF AdlerExact
  <1>8. CASE Reduce
    <2>1. adler' = adler % BASE /\ sum2' = sum2 % BASE /\ text' = text /\ pc' = "outer" /\ pc # "idle"
      BY <1>8 DEF Reduce, Reduced
    <2>2. adler % BASE = s[1] /\ sum2 % BASE = s[2]
      BY <1>4, <2>1
    <2>3. s[1] % BASE = s[1] /\ s[2] % BASE = s[2]
      <3>1. s[1] \in Nat /\ s[2] \in Nat /\ s[1] < BASE /\ s[2] < BASE
        BY <1>1, <1>3
      <3> QED
        BY <1>1, <3>1, SmallRemainder
    <2> QED
      BY <1>2, <2>1, <2>2, <2>3 DEF AdlerExact
  <1>9. CASE Return
    <2>1. pc = "outer" /\ check' = adler + sum2 * HALF /\ pc' = "idle" /\ text' = text
      BY <1>9 DEF Return
    <2>2. adler % BASE = adler /\ sum2 % BASE = sum2
      BY <1>1, <2>1, SmallRemainder
    <2> QED
      BY <1>2, <1>4, <2>1, <2>2 DEF AdlerExact
  <1>10. CASE UNCHANGED vars
    BY <1>10 DEF vars, AdlerExact
  <1> QED
    BY <1>5, <1>6, <1>7, <1>8, <1>9, <1>10 DEF Next

\* However a text is cut into calls and batches, adler32() returns the sums of
\* the whole of it.
THEOREM AdlerIsExact == Spec => []IsChecksum
  <1>1. Init => AdlerInv /\ AdlerExact
    BY AdlerStarts, AdlerExactStarts, SizeAssumption, BytesAssumption
  <1>2. AdlerInv /\ AdlerExact /\ [Next]_vars => (AdlerInv /\ AdlerExact)'
    BY AdlerInductive, AdlerExactKept, SizeAssumption, BytesAssumption
  <1>3. AdlerExact => IsChecksum
    BY DEF AdlerExact, IsChecksum
  <1> QED
    BY <1>1, <1>2, <1>3, PTL DEF Spec

----------------------------------------------------------------------------
(***************************************************************************)
(* crc32(): exclusive or and shifts.                                       *)
(***************************************************************************)

\* Exclusive or is a commutative group.
LEMMA XorIs ==
  ASSUME NEW a, NEW b, NEW d
  PROVE  /\ Crc!Xor(a, b) = Crc!Xor(b, a)
         /\ Crc!Xor(Crc!Xor(a, b), d) = Crc!Xor(a, Crc!Xor(b, d))
         /\ Crc!Xor(a, {}) = a /\ Crc!Xor({}, a) = a
         /\ \A i : i \in Crc!Xor(a, b) <=> ~(i \in a <=> i \in b)
  BY DEF Crc!Xor

\* Exclusive or stays within the register.
LEMMA WordsXor ==
  ASSUME NEW a \in Crc!Word, NEW b \in Crc!Word
  PROVE  Crc!Xor(a, b) \in Crc!Word
  BY DEF Crc!Xor, Crc!Word

\* The bits of a number shifted down.
LEMMA InShr ==
  ASSUME NEW a \in SUBSET Nat, NEW k \in Nat
  PROVE  /\ \A i : i \in Crc!Shr(a, k) <=> i \in Nat /\ i + k \in a
         /\ Crc!Shr(a, k) \in SUBSET Nat
  <1>1. ASSUME NEW i \in Crc!Shr(a, k) PROVE i \in Nat /\ i + k \in a
    <2>1. PICK j \in a : j >= k /\ i = j - k
      BY <1>1 DEF Crc!Shr
    <2> QED
      BY <2>1
  <1>2. ASSUME NEW i \in Nat, i + k \in a PROVE i \in Crc!Shr(a, k)
    <2>1. i + k >= k /\ i = (i + k) - k
      OBVIOUS
    <2>2. i + k \in {j \in a : j >= k}
      BY <1>2, <2>1
    <2> QED
      BY <2>1, <2>2 DEF Crc!Shr
  <1> QED
    BY <1>1, <1>2

\* Shifting down distributes over exclusive or.
LEMMA ShrXor ==
  ASSUME NEW a \in SUBSET Nat, NEW b \in SUBSET Nat, NEW k \in Nat
  PROVE  Crc!Shr(Crc!Xor(a, b), k) = Crc!Xor(Crc!Shr(a, k), Crc!Shr(b, k))
  <1>1. Crc!Xor(a, b) \in SUBSET Nat
    BY DEF Crc!Xor
  <1>2. \A i : i \in Crc!Shr(Crc!Xor(a, b), k) <=> i \in Nat /\ i + k \in Crc!Xor(a, b)
    BY <1>1, InShr
  <1>3. \A i : i \in Crc!Shr(a, k) <=> i \in Nat /\ i + k \in a
    BY InShr
  <1>4. \A i : i \in Crc!Shr(b, k) <=> i \in Nat /\ i + k \in b
    BY InShr
  <1>5. ASSUME NEW i PROVE i + k \in Crc!Xor(a, b) <=> ~(i + k \in a <=> i + k \in b)
    BY DEF Crc!Xor
  <1>6. \A i : i \in Crc!Xor(Crc!Shr(a, k), Crc!Shr(b, k))
                 <=> ~(i \in Crc!Shr(a, k) <=> i \in Crc!Shr(b, k))
    BY DEF Crc!Xor
  <1>7. \A i : i \in Crc!Shr(Crc!Xor(a, b), k) <=> i \in Crc!Xor(Crc!Shr(a, k), Crc!Shr(b, k))
    BY <1>2, <1>3, <1>4, <1>5, <1>6, Zenon
  <1> QED
    BY <1>7

\* Two shifts down are one.
LEMMA ShrShr ==
  ASSUME NEW a \in SUBSET Nat, NEW j \in Nat, NEW k \in Nat
  PROVE  Crc!Shr(Crc!Shr(a, j), k) = Crc!Shr(a, j + k)
  <1>1. \A i : i \in Crc!Shr(Crc!Shr(a, j), k) <=> i \in Nat /\ i + k \in Crc!Shr(a, j)
    BY InShr
  <1>2. \A i : i \in Crc!Shr(a, j) <=> i \in Nat /\ i + j \in a
    BY InShr
  <1>3. \A i : i \in Crc!Shr(a, j + k) <=> i \in Nat /\ i + (j + k) \in a
    BY InShr
  <1>4. \A i \in Nat : i + k \in Nat /\ (i + k) + j = i + (j + k)
    OBVIOUS
  <1> QED
    BY <1>1, <1>2, <1>3, <1>4

\* Shifting down stays within the register.
LEMMA WordsShr ==
  ASSUME Crc!SizeAssumption, NEW a \in Crc!Word, NEW k \in Nat
  PROVE  /\ a \in SUBSET Nat /\ Crc!Shr(a, k) \in Crc!Word
         /\ k >= Crc!WIDTH => Crc!Shr(a, k) = {}
  <1>1. Crc!WIDTH \in Nat
    BY DEF Crc!WIDTH, Crc!SizeAssumption
  <1>2. a \in SUBSET Nat /\ \A i \in a : i \in Nat /\ i < Crc!WIDTH
    BY <1>1 DEF Crc!Word
  <1>3. \A i : i \in Crc!Shr(a, k) <=> i \in Nat /\ i + k \in a
    BY <1>2, InShr
  <1>4. \A i \in Crc!Shr(a, k) : i \in Nat /\ i + k < Crc!WIDTH
    BY <1>2, <1>3
  <1>5. Crc!Shr(a, k) \in Crc!Word
    BY <1>1, <1>4 DEF Crc!Word
  <1>6. k >= Crc!WIDTH => Crc!Shr(a, k) = {}
    BY <1>1, <1>4
  <1> QED
    BY <1>2, <1>5, <1>6

----------------------------------------------------------------------------
(***************************************************************************)
(* crc32(): a bit, and the bits of a byte, out of the register.            *)
(***************************************************************************)

\* A bit out of the register is linear.
LEMMA BitIs ==
  ASSUME Crc!SizeAssumption, NEW a \in Crc!Word, NEW b \in Crc!Word
  PROVE  Crc!Bit(a) \in Crc!Word /\ Crc!Bit(Crc!Xor(a, b)) = Crc!Xor(Crc!Bit(a), Crc!Bit(b))
  <1> DEFINE Poly(r) == IF 0 \in r THEN POLY ELSE {}
  <1>1. POLY \in Crc!Word /\ {} \in Crc!Word
    BY DEF Crc!SizeAssumption, Crc!Word
  <1>2. a \in SUBSET Nat /\ b \in SUBSET Nat /\ Crc!Shr(a, 1) \in Crc!Word
    BY WordsShr
  <1>3. Crc!Bit(a) = Crc!Xor(Crc!Shr(a, 1), Poly(a)) /\ Crc!Bit(b) = Crc!Xor(Crc!Shr(b, 1), Poly(b))
        /\ Crc!Bit(Crc!Xor(a, b)) = Crc!Xor(Crc!Shr(Crc!Xor(a, b), 1), Poly(Crc!Xor(a, b)))
    BY DEF Crc!Bit
  <1>4. Poly(a) \in Crc!Word
    BY <1>1
  <1>5. Crc!Bit(a) \in Crc!Word
    BY <1>2, <1>3, <1>4, WordsXor
  <1>6. Poly(Crc!Xor(a, b)) = Crc!Xor(Poly(a), Poly(b))
    <2>1. 0 \in Crc!Xor(a, b) <=> ~(0 \in a <=> 0 \in b)
      BY DEF Crc!Xor
    <2>2. Crc!Xor(POLY, {}) = POLY /\ Crc!Xor({}, POLY) = POLY /\ Crc!Xor(POLY, POLY) = {}
          /\ Crc!Xor({}, {}) = {}
      BY DEF Crc!Xor
    <2> QED
      BY <2>1, <2>2
  <1>7. Crc!Shr(Crc!Xor(a, b), 1) = Crc!Xor(Crc!Shr(a, 1), Crc!Shr(b, 1))
    BY <1>2, ShrXor
  <1> HIDE DEF Poly
  <1>8. \A w, x, y, z : Crc!Xor(Crc!Xor(w, x), Crc!Xor(y, z)) = Crc!Xor(Crc!Xor(w, y), Crc!Xor(x, z))
    BY DEF Crc!Xor
  <1> QED
    BY <1>3, <1>5, <1>6, <1>7, <1>8

\* What has gone out after each bit
Out(r, b) == /\ b \in [0 .. BYTE -> Crc!Word] /\ b[0] = r
             /\ \A k \in 1 .. BYTE : b[k] = Crc!Bit(b[k - 1])

\* A byte's bits by the definition are those of the fold.
LEMMA BitsFold ==
  ASSUME Crc!SizeAssumption, NEW r \in Crc!Word
  PROVE  \E b : Out(r, b) /\ Crc!Bits(r) = b[BYTE]
  <1> DEFINE Is(b) == b = [k \in 0 .. BYTE |-> IF k = 0 THEN r ELSE Crc!Bit(b[k - 1])]
             F == [p \in (1 .. BYTE) \X Crc!Word |-> Crc!Bit(p[2])]
  <1>1. BYTE \in Nat
    BY DEF Crc!SizeAssumption
  <1>2. F \in [(1 .. BYTE) \X Crc!Word -> Crc!Word]
    <2>1. \A p \in (1 .. BYTE) \X Crc!Word : Crc!Bit(p[2]) \in Crc!Word
      BY BitIs
    <2> QED
      BY <2>1
  <1>3. \A k \in 1 .. BYTE, x \in Crc!Word : F[<<k, x>>] = Crc!Bit(x)
    OBVIOUS
  <1>4. Crc!Bits(r) = (CHOOSE b : Is(b))[BYTE]
    BY DEF Crc!Bits
  <1> HIDE DEF F
  <1>5. PICK g \in [0 .. BYTE -> Crc!Word] : BP!IsFold(g, BYTE, F, r)
    BY <1>1, <1>2, BP!FoldExists
  <1>6. Is(g)
    <2>1. \A k \in 0 .. BYTE : g[k] = IF k = 0 THEN r ELSE Crc!Bit(g[k - 1])
      <3> TAKE k \in 0 .. BYTE
      <3>1. CASE k = 0
        BY <1>5, <3>1 DEF BP!IsFold
      <3>2. CASE k # 0
        <4>1. k \in 1 .. BYTE /\ k - 1 \in 0 .. BYTE
          BY <1>1, <3>2
        <4>2. g[k] = F[<<k, g[k - 1]>>] /\ g[k - 1] \in Crc!Word
          BY <1>5, <4>1 DEF BP!IsFold
        <4> QED
          BY <1>3, <3>2, <4>1, <4>2
      <3> QED
        BY <3>1, <3>2
    <2> QED
      BY <1>5, <2>1
  <1> DEFINE b == CHOOSE b : Is(b)
  <1>7. Is(b)
    BY <1>6
  <1> HIDE DEF b
  <1>8. \A k \in 0 .. BYTE : b[k] = IF k = 0 THEN r ELSE Crc!Bit(b[k - 1])
    BY <1>7
  <1>9. BP!On(b, BYTE)
    BY <1>7 DEF BP!On
  <1> HIDE DEF Is
  <1>10. b \in [0 .. BYTE -> Crc!Word] /\ BP!IsFold(b, BYTE, F, r)
    <2>1. b[0] = r
      BY <1>1, <1>8
    <2>2. ASSUME NEW k \in 1 .. BYTE, b[k - 1] \in Crc!Word PROVE b[k] = F[<<k, b[k - 1]>>]
      <3>1. k \in 0 .. BYTE /\ k # 0
        BY <1>1
      <3> QED
        BY <1>3, <1>8, <2>2, <3>1
    <2> DEFINE W == Crc!Word
               m == BYTE
    <2>3. /\ m \in Nat /\ BP!On(b, m) /\ r \in W /\ F \in [(1 .. m) \X W -> W]
          /\ \A k \in 1 .. m : b[k - 1] \in W => b[k] = F[<<k, b[k - 1]>>]
      BY <1>1, <1>2, <1>9, <2>2
    <2> HIDE DEF W, m
    <2>4. BP!Folding(W, r, m, F, b)
      BY <2>1, <2>3 DEF BP!Folding
    <2>5. b \in [0 .. m -> W] /\ BP!IsFold(b, m, F, r)
      BY <2>4, BP!Folded
    <2> QED
      BY <2>5 DEF W, m
  <1>11. \A k \in 1 .. BYTE : b[k] = Crc!Bit(b[k - 1])
    <2>1. \A k \in 1 .. BYTE : k \in 0 .. BYTE /\ k # 0
      BY <1>1
    <2> QED
      BY <1>8, <2>1
  <1>12. Out(r, b)
    BY <1>1, <1>8, <1>10, <1>11 DEF Out
  <1> QED
    BY <1>4, <1>12 DEF b

\* The register is linear.
LEMMA BitsXor ==
  ASSUME Crc!SizeAssumption, NEW x \in Crc!Word, NEW y \in Crc!Word
  PROVE  /\ Crc!Bits(x) \in Crc!Word
         /\ Crc!Bits(Crc!Xor(x, y)) = Crc!Xor(Crc!Bits(x), Crc!Bits(y))
  <1>1. BYTE \in Nat
    BY DEF Crc!SizeAssumption
  <1>2. PICK b : Out(x, b) /\ Crc!Bits(x) = b[BYTE]
    BY BitsFold
  <1>3. PICK d : Out(y, d) /\ Crc!Bits(y) = d[BYTE]
    BY BitsFold
  <1>4. PICK e : Out(Crc!Xor(x, y), e) /\ Crc!Bits(Crc!Xor(x, y)) = e[BYTE]
    BY BitsFold, WordsXor
  <1> DEFINE S == {k \in Nat : k <= BYTE => e[k] = Crc!Xor(b[k], d[k])}
  <1>5. 0 \in S
    BY <1>2, <1>3, <1>4 DEF Out
  <1>6. ASSUME NEW k \in S PROVE k + 1 \in S
    <2>1. CASE k + 1 <= BYTE
      <3>1. k + 1 \in 1 .. BYTE /\ (k + 1) - 1 = k /\ k \in 0 .. BYTE /\ e[k] = Crc!Xor(b[k], d[k])
        BY <1>1, <2>1
      <3>2. b[k] \in Crc!Word /\ d[k] \in Crc!Word
        BY <1>2, <1>3, <3>1 DEF Out
      <3>3. /\ b[k + 1] = Crc!Bit(b[k]) /\ d[k + 1] = Crc!Bit(d[k])
            /\ e[k + 1] = Crc!Bit(e[k])
        BY <1>2, <1>3, <1>4, <3>1 DEF Out
      <3>4. Crc!Bit(Crc!Xor(b[k], d[k])) = Crc!Xor(Crc!Bit(b[k]), Crc!Bit(d[k]))
        BY <3>2, BitIs
      <3>5. e[k + 1] = Crc!Xor(b[k + 1], d[k + 1])
        BY <3>1, <3>3, <3>4
      <3> QED
        BY <3>5
    <2>2. CASE ~(k + 1 <= BYTE)
      BY <2>2
    <2> QED
      BY <2>1, <2>2
  <1>7. S = Nat
    <2>1. S \in SUBSET Nat
      OBVIOUS
    <2> HIDE DEF S
    <2> QED
      BY <1>5, <1>6, <2>1, BP!Induct
  <1>8. e[BYTE] = Crc!Xor(b[BYTE], d[BYTE])
    <2>1. BYTE \in S
      BY <1>1, <1>7
    <2> QED
      BY <1>1, <2>1
  <1>9. b[BYTE] \in Crc!Word
    BY <1>1, <1>2 DEF Out
  <1> QED
    BY <1>2, <1>3, <1>4, <1>8, <1>9

\* Bits above the byte only move down.
LEMMA BitsAbove ==
  ASSUME Crc!SizeAssumption, NEW x \in Crc!Word, \A i \in x : i >= BYTE
  PROVE  Crc!Bits(x) = Crc!Shr(x, BYTE)
  <1>1. BYTE \in Nat
    BY DEF Crc!SizeAssumption
  <1>2. PICK b : Out(x, b) /\ Crc!Bits(x) = b[BYTE]
    BY BitsFold
  <1>3. x \in SUBSET Nat
    BY WordsShr, <1>1
  <1> DEFINE S == {k \in Nat : k <= BYTE => b[k] = Crc!Shr(x, k)}
  <1>5. 0 \in S
    <2>1. \A i : i \in Crc!Shr(x, 0) <=> i \in Nat /\ i + 0 \in x
      BY <1>3, InShr
    <2>2. \A i \in Nat : i + 0 = i
      OBVIOUS
    <2>3. Crc!Shr(x, 0) = x
      BY <1>3, <2>1, <2>2
    <2> QED
      BY <1>2, <2>3 DEF Out
  <1>6. ASSUME NEW k \in S PROVE k + 1 \in S
    <2>1. CASE k + 1 <= BYTE
      <3>1. k + 1 \in 1 .. BYTE /\ (k + 1) - 1 = k /\ k \in Nat /\ b[k] = Crc!Shr(x, k)
        BY <1>1, <2>1
      <3>2. b[k + 1] = Crc!Bit(b[k])
        BY <1>2, <3>1 DEF Out
      <3>3. ~(0 \in Crc!Shr(x, k))
        <4>1. 0 \in Crc!Shr(x, k) => 0 + k \in x
          BY <1>3, <3>1, InShr
        <4>2. ~(0 + k >= BYTE)
          BY <1>1, <2>1, <3>1
        <4> QED
          BY <4>1, <4>2
      <3>4. Crc!Bit(Crc!Shr(x, k)) = Crc!Shr(Crc!Shr(x, k), 1)
        <4>1. Crc!Xor(Crc!Shr(Crc!Shr(x, k), 1), {}) = Crc!Shr(Crc!Shr(x, k), 1)
          BY XorIs
        <4> QED
          BY <3>3, <4>1 DEF Crc!Bit
      <3>5. Crc!Shr(Crc!Shr(x, k), 1) = Crc!Shr(x, k + 1)
        BY <1>3, <3>1, ShrShr
      <3>6. b[k + 1] = Crc!Shr(x, k + 1)
        BY <3>1, <3>2, <3>4, <3>5
      <3> QED
        BY <3>6
    <2>2. CASE ~(k + 1 <= BYTE)
      BY <2>2
    <2> QED
      BY <2>1, <2>2
  <1>7. S = Nat
    <2>1. S \in SUBSET Nat
      OBVIOUS
    <2> HIDE DEF S
    <2> QED
      BY <1>5, <1>6, <2>1, BP!Induct
  <1>8. b[BYTE] = Crc!Shr(x, BYTE)
    <2>1. BYTE \in S
      BY <1>1, <1>7
    <2> QED
      BY <1>1, <2>1
  <1> QED
    BY <1>2, <1>8

\* The bits of a byte of the register.
LEMMA ByteOfIs ==
  ASSUME Crc!SizeAssumption, NEW x \in Crc!Word, NEW k \in Nat
  PROVE  /\ Crc!ByteOf(x, k) \in Crc!Byte /\ Crc!ByteOf(x, k) \in Crc!Word
         /\ \A i : i \in Crc!ByteOf(x, k) <=> i \in 0 .. BYTE - 1 /\ i + k * BYTE \in x
  <1>1. BYTE \in Nat \ {0} /\ k * BYTE \in Nat /\ Crc!WIDTH \in Nat /\ BYTE <= Crc!WIDTH
    BY SMT DEF Crc!SizeAssumption, Crc!WIDTH
  <1>2. x \in SUBSET Nat
    BY WordsShr, <1>1
  <1>3. \A i : i \in Crc!Shr(x, k * BYTE) <=> i \in Nat /\ i + k * BYTE \in x
    BY <1>1, <1>2, InShr
  <1>4. \A i \in 0 .. BYTE - 1 : i \in Nat /\ i \in 0 .. Crc!WIDTH - 1
    BY <1>1
  <1>5. Crc!ByteOf(x, k) = Crc!Shr(x, k * BYTE) \cap (0 .. BYTE - 1)
    BY DEF Crc!ByteOf
  <1>6. \A i : i \in Crc!ByteOf(x, k) <=> i \in 0 .. BYTE - 1 /\ i + k * BYTE \in x
    BY <1>3, <1>4, <1>5
  <1> QED
    BY <1>4, <1>6 DEF Crc!Byte, Crc!Word

\* A byte fits the register.
LEMMA BytesAreWords ==
  ASSUME Crc!SizeAssumption, NEW b \in Crc!Byte
  PROVE  b \in Crc!Word /\ b \in SUBSET Nat /\ \A i \in b : i < BYTE
  <1>1. BYTE \in Nat \ {0} /\ Crc!WIDTH \in Nat /\ BYTE <= Crc!WIDTH
    BY SMT DEF Crc!SizeAssumption, Crc!WIDTH
  <1> QED
    BY <1>1 DEF Crc!Byte, Crc!Word

\* What eight bits do is a byte's entry of the table and a shift.
LEMMA BitsByTable ==
  ASSUME Crc!SizeAssumption, NEW x \in Crc!Word
  PROVE  Crc!Bits(x) = Crc!Xor(Crc!crc_table0[Crc!ByteOf(x, 0)], Crc!Shr(x, BYTE))
  <1>1. BYTE \in Nat \ {0} /\ 0 * BYTE = 0 /\ x \in SUBSET Nat
    <2>1. BYTE \in Nat \ {0} /\ 0 * BYTE = 0
      BY SMT DEF Crc!SizeAssumption
    <2> QED
      BY <2>1, WordsShr
  <1> DEFINE low == Crc!ByteOf(x, 0)
             high == {i \in x : i >= BYTE}
  <1>2. low \in Crc!Byte /\ low \in Crc!Word
        /\ \A i : i \in low <=> i \in 0 .. BYTE - 1 /\ i \in x
    <2>1. \A i : i \in Crc!ByteOf(x, 0) <=> i \in 0 .. BYTE - 1 /\ i + 0 * BYTE \in x
      BY ByteOfIs
    <2>2. \A i \in 0 .. BYTE - 1 : i + 0 * BYTE = i
      BY <1>1
    <2>3. Crc!ByteOf(x, 0) \in Crc!Byte /\ Crc!ByteOf(x, 0) \in Crc!Word
      BY ByteOfIs
    <2> QED
      BY <2>1, <2>2, <2>3
  <1>3. high \in Crc!Word /\ \A i \in high : i >= BYTE
    BY DEF Crc!Word
  <1> HIDE DEF low
  <1>4. x = Crc!Xor(low, high)
    <2>1. ASSUME NEW i \in Nat PROVE i \in x <=> ~(i \in low <=> i \in high)
      <3>1. i \in 0 .. BYTE - 1 <=> ~(i >= BYTE)
        BY <1>1
      <3>2. i \in low <=> i \in 0 .. BYTE - 1 /\ i \in x
        BY <1>2
      <3>3. i \in high <=> i \in x /\ i >= BYTE
        OBVIOUS
      <3> QED
        BY <3>1, <3>2, <3>3
    <2>2. low \in SUBSET Nat /\ high \in SUBSET Nat
      BY <1>1, <1>2, BytesAreWords
    <2>3. \A i : i \in Crc!Xor(low, high) <=> ~(i \in low <=> i \in high)
      BY XorIs
    <2>4. \A i \in Nat : i \in x <=> i \in Crc!Xor(low, high)
      BY <2>1, <2>3
    <2>5. Crc!Xor(low, high) \in SUBSET Nat
      BY <2>2 DEF Crc!Xor
    <2> QED
      BY <1>1, <2>4, <2>5
  <1>5. Crc!Shr(high, BYTE) = Crc!Shr(x, BYTE)
    <2>1. high \in SUBSET Nat
      BY <1>1
    <2>2. \A i : i \in Crc!Shr(high, BYTE) <=> i \in Nat /\ i + BYTE \in high
      BY <1>1, <2>1, InShr
    <2>3. \A i : i \in Crc!Shr(x, BYTE) <=> i \in Nat /\ i + BYTE \in x
      BY <1>1, InShr
    <2>4. \A i \in Nat : i + BYTE \in high <=> i + BYTE \in x
      BY <1>1
    <2> QED
      BY <2>2, <2>3, <2>4
  <1> HIDE DEF high
  <1>6. Crc!Bits(x) = Crc!Xor(Crc!Bits(low), Crc!Bits(high))
    BY <1>2, <1>3, <1>4, BitsXor
  <1>7. Crc!Bits(high) = Crc!Shr(x, BYTE)
    BY <1>3, <1>5, BitsAbove
  <1>8. Crc!crc_table0[low] = Crc!Bits(low)
    BY <1>2 DEF Crc!crc_table0
  <1> QED
    BY <1>6, <1>7, <1>8 DEF low

\* The tables: one, two, three and four bytes' worth of bits
LEMMA TablesAre ==
  ASSUME Crc!SizeAssumption, NEW b \in Crc!Byte
  PROVE  /\ Crc!crc_table0[b] = Crc!Bits(b)
         /\ Crc!crc_table1[b] = Crc!Bits(Crc!Bits(b))
         /\ Crc!crc_table2[b] = Crc!Bits(Crc!Bits(Crc!Bits(b)))
         /\ Crc!crc_table3[b] = Crc!Bits(Crc!Bits(Crc!Bits(Crc!Bits(b))))
  <1>1. Crc!crc_table0[b] = Crc!Bits(b) /\ b \in Crc!Word
    BY BytesAreWords DEF Crc!crc_table0
  <1>2. ASSUME NEW t, t[b] \in Crc!Word PROVE Crc!Behind(t)[b] = Crc!Bits(t[b])
    <2>1. Crc!Behind(t)[b] = Crc!Xor(Crc!crc_table0[Crc!ByteOf(t[b], 0)], Crc!Shr(t[b], BYTE))
      BY DEF Crc!Behind
    <2>2. Crc!Bits(t[b]) = Crc!Xor(Crc!crc_table0[Crc!ByteOf(t[b], 0)], Crc!Shr(t[b], BYTE))
      BY <1>2, BitsByTable
    <2> QED
      BY <2>1, <2>2
  <1>3. Crc!Bits(b) \in Crc!Word /\ Crc!Bits(Crc!Bits(b)) \in Crc!Word
        /\ Crc!Bits(Crc!Bits(Crc!Bits(b))) \in Crc!Word
    BY <1>1, BitsXor
  <1>4. Crc!crc_table1[b] = Crc!Bits(Crc!Bits(b))
    BY <1>1, <1>2, <1>3 DEF Crc!crc_table1
  <1>5. Crc!crc_table2[b] = Crc!Bits(Crc!Bits(Crc!Bits(b)))
    BY <1>2, <1>3, <1>4 DEF Crc!crc_table2
  <1>6. Crc!crc_table3[b] = Crc!Bits(Crc!Bits(Crc!Bits(Crc!Bits(b))))
    BY <1>2, <1>3, <1>5 DEF Crc!crc_table3
  <1> QED
    BY <1>1, <1>4, <1>5, <1>6

\* Four bytes of bits of a register, as Through() has them
LEMMA ThroughIs ==
  ASSUME Crc!SizeAssumption, NEW d \in Crc!Word
  PROVE  Crc!Through(d) = Crc!Bits(Crc!Bits(Crc!Bits(Crc!Bits(d))))
  <1> DEFINE G(x) == Crc!Bits(x)
             X(x, y) == Crc!Xor(x, y)
             B(k) == Crc!ByteOf(d, k)
             H(k) == Crc!Shr(d, k * BYTE)
  <1>1. BYTE \in Nat \ {0} /\ Crc!WIDTH = 4 * BYTE /\ Crc!WIDTH \in Nat /\ d \in SUBSET Nat
        /\ BYTE = 1 * BYTE /\ (\A k \in Nat : k * BYTE \in Nat)
        /\ (\A k \in Nat : k * BYTE + BYTE = (k + 1) * BYTE)
    <2>1. BYTE \in Nat \ {0}
      BY DEF Crc!SizeAssumption
    <2>2. Crc!WIDTH = 4 * BYTE
      BY DEF Crc!WIDTH
    <2>3. d \in SUBSET Nat
      BY WordsShr, <2>1
    <2>4. (\A k \in Nat : k * BYTE \in Nat) /\ (\A k \in Nat : k * BYTE + BYTE = (k + 1) * BYTE)
      BY <2>1, SMT
    <2>5. BYTE = 1 * BYTE /\ 4 * BYTE \in Nat
      BY <2>1
    <2> QED
      BY <2>1, <2>2, <2>3, <2>4, <2>5
  <1>2. \A k \in Nat : H(k) \in Crc!Word /\ B(k) \in Crc!Byte /\ B(k) \in Crc!Word
    BY <1>1, WordsShr, ByteOfIs
  <1>3. ASSUME NEW k \in Nat PROVE G(H(k)) = X(G(B(k)), H(k + 1))
    <2>1. Crc!Bits(H(k)) = Crc!Xor(Crc!crc_table0[Crc!ByteOf(H(k), 0)], Crc!Shr(H(k), BYTE))
      BY <1>2, BitsByTable
    <2>2. Crc!ByteOf(H(k), 0) = B(k)
      <3>1. \A i : i \in Crc!ByteOf(H(k), 0) <=> i \in 0 .. BYTE - 1 /\ i + 0 * BYTE \in H(k)
        BY <1>2, ByteOfIs
      <3>2. \A i : i \in H(k) <=> i \in Nat /\ i + k * BYTE \in d
        BY <1>1, InShr
      <3>3. \A i : i \in B(k) <=> i \in 0 .. BYTE - 1 /\ i + k * BYTE \in d
        BY ByteOfIs
      <3>4. \A i \in 0 .. BYTE - 1 : i \in Nat /\ i + 0 * BYTE = i
        BY <1>1
      <3> HIDE DEF H, B
      <3> QED
        BY <3>1, <3>2, <3>3, <3>4
    <2>3. Crc!Shr(H(k), BYTE) = H(k + 1)
      <3>1. k * BYTE \in Nat /\ k * BYTE + BYTE = (k + 1) * BYTE
        BY <1>1
      <3>2. Crc!Shr(Crc!Shr(d, k * BYTE), BYTE) = Crc!Shr(d, k * BYTE + BYTE)
        BY <1>1, <3>1, ShrShr
      <3> QED
        BY <3>1, <3>2
    <2>4. Crc!crc_table0[B(k)] = G(B(k))
      BY <1>2, TablesAre
    <2> QED
      BY <2>1, <2>2, <2>3, <2>4
  <1>4. d = H(0)
    <2>1. 0 * BYTE = 0 /\ \A i \in Nat : i + 0 = i
      BY <1>1
    <2>2. \A i : i \in Crc!Shr(d, 0) <=> i \in Nat /\ i + 0 \in d
      BY <1>1, InShr
    <2>3. \A i \in Nat : i \in Crc!Shr(d, 0) <=> i \in d
      BY <2>1, <2>2
    <2>4. Crc!Shr(d, 0) = d
      <3>1. Crc!Shr(d, 0) \in SUBSET Nat /\ d \in SUBSET Nat
        BY <1>1, InShr
      <3> QED
        BY <2>3, <3>1
    <2>5. H(0) = Crc!Shr(d, 0)
      BY <2>1, Zenon
    <2> QED
      BY <2>4, <2>5
  <1>5. H(3) \in Crc!Byte
    <2>1. \A i : i \in H(3) <=> i \in Nat /\ i + 3 * BYTE \in d
      BY <1>1, InShr
    <2>2. \A i \in d : i < 4 * BYTE
      BY <1>1 DEF Crc!Word
    <2> HIDE DEF H
    <2>3. \A i \in H(3) : i \in 0 .. BYTE - 1
      BY <1>1, <2>1, <2>2
    <2> QED
      BY <2>3 DEF Crc!Byte
  <1> HIDE DEF H, B
  <1>6. \A x, y \in Crc!Word : G(X(x, y)) = X(G(x), G(y)) /\ G(x) \in Crc!Word
    BY BitsXor
  <1>7. \A x, y, z : X(x, X(y, z)) = X(X(x, y), z)
    BY DEF Crc!Xor
  <1>8. \A x, y \in Crc!Word : X(x, y) \in Crc!Word
    BY WordsXor
  <1>9. Crc!Through(d) = X(X(X(G(G(G(G(B(0))))), G(G(G(B(1))))), G(G(B(2)))), G(H(3)))
    <2>1. /\ Crc!crc_table[4] = Crc!crc_table3 /\ Crc!crc_table[3] = Crc!crc_table2
          /\ Crc!crc_table[2] = Crc!crc_table1 /\ Crc!crc_table[1] = Crc!crc_table0
      BY DEF Crc!crc_table
    <2>2. Crc!Through(d) =
            X(X(X(Crc!crc_table[4][B(0)], Crc!crc_table[3][B(1)]), Crc!crc_table[2][B(2)]),
              Crc!crc_table[1][H(3)])
      BY DEF Crc!Through, B, H
    <2>3. /\ Crc!crc_table3[B(0)] = G(G(G(G(B(0))))) /\ Crc!crc_table2[B(1)] = G(G(G(B(1))))
          /\ Crc!crc_table1[B(2)] = G(G(B(2))) /\ Crc!crc_table0[H(3)] = G(H(3))
      BY <1>2, <1>5, TablesAre
    <2> QED
      BY <2>1, <2>2, <2>3
  <1>10. /\ B(0) \in Crc!Word /\ B(1) \in Crc!Word /\ B(2) \in Crc!Word
         /\ H(1) \in Crc!Word /\ H(2) \in Crc!Word /\ H(3) \in Crc!Word
    BY <1>2
  <1>11. G(d) = X(G(B(0)), H(1)) /\ G(H(1)) = X(G(B(1)), H(2)) /\ G(H(2)) = X(G(B(2)), H(3))
    <2>1. 0 + 1 = 1 /\ 1 + 1 = 2 /\ 2 + 1 = 3
      OBVIOUS
    <2> QED
      BY <1>3, <1>4, <2>1
  <1> HIDE DEF G, X
  <1>12. G(G(d)) = X(G(G(B(0))), X(G(B(1)), H(2)))
    BY <1>6, <1>10, <1>11
  <1>13. G(G(G(d))) = X(G(G(G(B(0)))), X(G(G(B(1))), X(G(B(2)), H(3))))
    BY <1>6, <1>8, <1>10, <1>11, <1>12
  <1>14. G(G(G(G(d)))) = X(G(G(G(G(B(0))))), X(G(G(G(B(1)))), X(G(G(B(2))), G(H(3)))))
    BY <1>6, <1>8, <1>10, <1>13
  <1> QED
    BY <1>7, <1>9, <1>14 DEF G, X

----------------------------------------------------------------------------
(***************************************************************************)
(* crc32(): bytes into the register.                                       *)
(***************************************************************************)

\* The bits of a number shifted up.
LEMMA InShl ==
  ASSUME NEW a \in SUBSET Nat, NEW k \in Nat
  PROVE  /\ \A i \in Nat : i \in Crc!Shl(a, k) <=> i >= k /\ i - k \in a
         /\ Crc!Shl(a, k) \in SUBSET Nat
  <1>1. ASSUME NEW i \in Crc!Shl(a, k) PROVE i \in Nat /\ i >= k /\ i - k \in a
    <2>1. PICK j \in a : i = j + k
      BY <1>1 DEF Crc!Shl
    <2>2. j \in Nat /\ (j + k) - k = j
      BY <2>1
    <2> QED
      BY <2>1, <2>2
  <1>2. ASSUME NEW i \in Nat, i >= k, i - k \in a PROVE i \in Crc!Shl(a, k)
    <2>1. i = (i - k) + k
      OBVIOUS
    <2> QED
      BY <1>2, <2>1 DEF Crc!Shl
  <1> QED
    BY <1>1, <1>2

\* Two shifts up are one.
LEMMA ShlShl ==
  ASSUME NEW a \in SUBSET Nat, NEW j \in Nat, NEW k \in Nat
  PROVE  Crc!Shl(Crc!Shl(a, j), k) = Crc!Shl(a, j + k)
  <1>1. Crc!Shl(a, j) \in SUBSET Nat /\ Crc!Shl(Crc!Shl(a, j), k) \in SUBSET Nat
        /\ Crc!Shl(a, j + k) \in SUBSET Nat
    <2>1. Crc!Shl(a, j) \in SUBSET Nat
      BY InShl
    <2>2. Crc!Shl(Crc!Shl(a, j), k) \in SUBSET Nat
      BY <2>1, InShl
    <2>3. j + k \in Nat
      OBVIOUS
    <2>4. Crc!Shl(a, j + k) \in SUBSET Nat
      BY <2>3, InShl
    <2> QED
      BY <2>1, <2>2, <2>4
  <1>2. ASSUME NEW i \in Nat PROVE i \in Crc!Shl(Crc!Shl(a, j), k) <=> i \in Crc!Shl(a, j + k)
    <2>1. i \in Crc!Shl(Crc!Shl(a, j), k) <=> i >= k /\ i - k \in Crc!Shl(a, j)
      BY <1>1, InShl
    <2>2. i >= k => (i - k \in Crc!Shl(a, j) <=> i - k >= j /\ (i - k) - j \in a)
      BY InShl
    <2>3. i \in Crc!Shl(a, j + k) <=> i >= j + k /\ i - (j + k) \in a
      BY InShl
    <2>4. (i - k) - j = i - (j + k) /\ (i >= j + k <=> i >= k /\ i - k >= j)
      OBVIOUS
    <2> QED
      BY <2>1, <2>2, <2>3, <2>4
  <1> QED
    BY <1>1, <1>2

\* Shifting up goes bit by bit.
LEMMA ShlJoin ==
  ASSUME NEW a, NEW b, NEW k
  PROVE  Crc!Shl(a \cup b, k) = Crc!Shl(a, k) \cup Crc!Shl(b, k)
  BY DEF Crc!Shl

\* Shifting down undoes shifting up.
LEMMA ShrShl ==
  ASSUME NEW a \in SUBSET Nat, NEW k \in Nat
  PROVE  Crc!Shr(Crc!Shl(a, k), k) = a
  <1>1. Crc!Shl(a, k) \in SUBSET Nat
    BY InShl
  <1>2. \A i : i \in Crc!Shr(Crc!Shl(a, k), k) <=> i \in Nat /\ i + k \in Crc!Shl(a, k)
    BY <1>1, InShr
  <1>3. \A i \in Nat : i + k \in Crc!Shl(a, k) <=> i \in a
    <2> TAKE i \in Nat
    <2>1. i + k \in Nat /\ i + k >= k /\ (i + k) - k = i
      OBVIOUS
    <2>2. i + k \in Crc!Shl(a, k) <=> i + k >= k /\ (i + k) - k \in a
      BY <2>1, InShl
    <2> QED
      BY <2>1, <2>2
  <1>4. Crc!Shr(Crc!Shl(a, k), k) \in SUBSET Nat
    BY <1>1, InShr
  <1> QED
    BY <1>2, <1>3, <1>4

\* Of what has been added to the register at once, a byte's bits take in the
\* lowest byte and bring the others down by one.
LEMMA ShiftIn ==
  ASSUME Crc!SizeAssumption, NEW r \in Crc!Word, NEW b \in Crc!Byte, NEW h \in SUBSET Nat,
         Crc!Shl(h, BYTE) \in Crc!Word
  PROVE  Crc!Bits(Crc!Xor(r, b \cup Crc!Shl(h, BYTE))) = Crc!Xor(Crc!After(r, b), h)
  <1>1. PICK s : s = Crc!Shl(h, BYTE)
    OBVIOUS
  <1>2. BYTE \in Nat /\ s \in Crc!Word /\ b \in Crc!Word /\ \A i \in b : i < BYTE
    BY <1>1, BytesAreWords DEF Crc!SizeAssumption
  <1>3. \A i \in s : i \in Nat /\ i >= BYTE
    BY <1>1, <1>2, InShl
  <1>4. b \cup s = Crc!Xor(b, s)
    <2>1. \A i \in s : ~(i \in b)
      <3> TAKE i \in s
      <3>1. ~(i < BYTE)
        BY <1>2, <1>3
      <3> QED
        BY <1>2, <3>1
    <2> QED
      BY <2>1 DEF Crc!Xor
  <1>5. Crc!Xor(r, b \cup s) = Crc!Xor(Crc!Xor(r, b), s)
    <2>1. Crc!Xor(Crc!Xor(r, b), s) = Crc!Xor(r, Crc!Xor(b, s))
      BY XorIs
    <2> QED
      BY <1>4, <2>1
  <1>6. Crc!Xor(r, b) \in Crc!Word
    BY <1>2, WordsXor
  <1>7. Crc!Bits(Crc!Xor(Crc!Xor(r, b), s)) = Crc!Xor(Crc!Bits(Crc!Xor(r, b)), Crc!Bits(s))
    BY <1>2, <1>6, BitsXor
  <1>8. Crc!Bits(s) = Crc!Shr(s, BYTE)
    BY <1>2, <1>3, BitsAbove
  <1>9. Crc!Shr(s, BYTE) = h
    BY <1>1, <1>2, ShrShl
  <1> QED
    BY <1>1, <1>5, <1>7, <1>8, <1>9 DEF Crc!After

\* A byte leaves the register a register.
LEMMA AfterIsWord ==
  ASSUME Crc!SizeAssumption, NEW r \in Crc!Word, NEW b \in Crc!Byte
  PROVE  Crc!After(r, b) \in Crc!Word
  BY BytesAreWords, WordsXor, BitsXor DEF Crc!After

\* crc32()'s step of four bytes
LEMMA FourIs ==
  ASSUME Crc!SizeAssumption, NEW r \in Crc!Word,
         NEW b1 \in Crc!Byte, NEW b2 \in Crc!Byte, NEW b3 \in Crc!Byte, NEW b4 \in Crc!Byte
  PROVE  Crc!Through(Crc!Xor(r, Crc!Shl(b4, 3 * BYTE) \cup Crc!Shl(b3, 2 * BYTE)
                                  \cup Crc!Shl(b2, BYTE) \cup b1))
           = Crc!After(Crc!After(Crc!After(Crc!After(r, b1), b2), b3), b4)
  <1>1. BYTE \in Nat \ {0} /\ Crc!WIDTH = 4 * BYTE /\ 2 * BYTE = BYTE + BYTE
        /\ 3 * BYTE = BYTE + (BYTE + BYTE)
    BY DEF Crc!SizeAssumption, Crc!WIDTH
  <1>2. /\ b1 \in Crc!Word /\ b2 \in Crc!Word /\ b3 \in Crc!Word /\ b4 \in Crc!Word
        /\ b1 \in SUBSET Nat /\ b2 \in SUBSET Nat /\ b3 \in SUBSET Nat /\ b4 \in SUBSET Nat
    BY BytesAreWords
  <1> DEFINE S(a) == Crc!Shl(a, BYTE)
  <1>3. \A a \in SUBSET Nat : S(a) \in SUBSET Nat
    BY <1>1, InShl
  <1>4. \A a, b : S(a \cup b) = S(a) \cup S(b)
    BY ShlJoin
  <1>5. \A a \in SUBSET Nat :
          Crc!Shl(a, 2 * BYTE) = S(S(a)) /\ Crc!Shl(a, 3 * BYTE) = S(S(S(a)))
    <2> TAKE a \in SUBSET Nat
    <2>1. S(S(a)) = Crc!Shl(a, BYTE + BYTE)
      BY <1>1, ShlShl
    <2>2. Crc!Shl(Crc!Shl(a, BYTE + BYTE), BYTE) = Crc!Shl(a, (BYTE + BYTE) + BYTE)
      <3>1. PICK j : j = BYTE + BYTE
        OBVIOUS
      <3>2. j \in Nat /\ BYTE \in Nat
        BY <1>1, <3>1
      <3>3. Crc!Shl(Crc!Shl(a, j), BYTE) = Crc!Shl(a, j + BYTE)
        BY <3>2, ShlShl
      <3> QED
        BY <3>1, <3>3
    <2>3. (BYTE + BYTE) + BYTE = BYTE + (BYTE + BYTE)
      BY <1>1
    <2> QED
      BY <1>1, <2>1, <2>2, <2>3
  \* In k bytes
  <1> DEFINE Fits(a, k) == a \in SUBSET Nat /\ \A i \in a : i < k * BYTE
  <1>6. \A a : Fits(a, 4) => a \in Crc!Word
    BY <1>1 DEF Crc!Word
  <1>7. \A b \in Crc!Byte : Fits(b, 1)
    BY <1>1, BytesAreWords
  <1>8. \A a, k : k \in Nat /\ Fits(a, k) => Fits(S(a), k + 1)
    <2> SUFFICES ASSUME NEW a, NEW k \in Nat, Fits(a, k)
                 PROVE  Fits(S(a), k + 1)
      OBVIOUS
    <2>1. (k + 1) * BYTE = k * BYTE + BYTE /\ k * BYTE \in Nat
      BY <1>1, SMT
    <2>2. \A i \in Nat : i \in S(a) <=> i >= BYTE /\ i - BYTE \in a
      BY <1>1, InShl
    <2>3. S(a) \in SUBSET Nat
      BY <1>3
    <2>4. ASSUME NEW i \in S(a) PROVE i < (k + 1) * BYTE
      <3>1. i \in Nat /\ i - BYTE \in a
        BY <2>2, <2>3
      <3>2. i - BYTE < k * BYTE
        BY <3>1
      <3> QED
        BY <1>1, <2>1, <3>1, <3>2
    <2> QED
      BY <2>3, <2>4
  <1> HIDE DEF Fits
  <1>9. \A a, b, k : k \in Nat \ {0} /\ Fits(a, k) /\ b \in Crc!Byte => Fits(b \cup a, k)
    <2> SUFFICES ASSUME NEW a, NEW b \in Crc!Byte, NEW k \in Nat \ {0}, Fits(a, k)
                 PROVE  Fits(b \cup a, k)
      BY Zenon
    <2> USE DEF Fits
    <2>1. k * BYTE >= BYTE
      <3>1. PICK p \in Nat : k = p + 1
        <4>1. k - 1 \in Nat /\ k = (k - 1) + 1
          OBVIOUS
        <4> QED
          BY <4>1
      <3>2. (p + 1) * BYTE = p * BYTE + BYTE /\ p * BYTE \in Nat
        BY <1>1, SMT
      <3> QED
        BY <1>1, <3>1, <3>2
    <2>2. b \in SUBSET Nat /\ \A i \in b : i < BYTE
      BY BytesAreWords
    <2>3. k * BYTE \in Int
      BY <1>1
    <2>4. ASSUME NEW i \in b PROVE i < k * BYTE
      <3>1. i \in Nat /\ i < BYTE
        BY <2>2
      <3> QED
        BY <1>1, <2>1, <2>3, <3>1
    <2> QED
      BY <2>2, <2>4
  <1> HIDE DEF Fits
  <1> DEFINE h2 == b3 \cup S(b4)
             h1 == b2 \cup S(h2)
  <1>10. Fits(S(b4), 2) /\ Fits(S(h2), 3) /\ Fits(S(h1), 4)
    <2>1. Fits(b4, 1) /\ 1 + 1 = 2 /\ 2 + 1 = 3 /\ 3 + 1 = 4
      BY <1>7
    <2>2. Fits(S(b4), 2)
      BY <1>8, <2>1
    <2>3. Fits(h2, 2)
      BY <1>9, <2>2
    <2>4. Fits(S(h2), 3)
      BY <1>8, <2>1, <2>3
    <2>5. Fits(h1, 3)
      <3> HIDE DEF h2
      <3>1. 3 \in Nat \ {0} /\ b2 \in Crc!Byte
        OBVIOUS
      <3> QED
        BY <1>9, <2>4, <3>1
    <2>6. Fits(S(h1), 4)
      BY <1>8, <2>1, <2>5
    <2> QED
      BY <2>2, <2>4, <2>6
  <1>11. S(h1) \in Crc!Word /\ S(h2) \in Crc!Word /\ S(b4) \in Crc!Word
         /\ h1 \in SUBSET Nat /\ h2 \in SUBSET Nat
    <2>1. h2 \in SUBSET Nat
      BY <1>2, <1>3
    <2>2. h1 \in SUBSET Nat
      BY <1>2, <1>3, <2>1
    <2>3. S(h1) \in Crc!Word
      BY <1>6, <1>10
    <2>4. \A a : Fits(a, 3) => a \in Crc!Word
      BY <1>1 DEF Fits, Crc!Word
    <2>5. \A a : Fits(a, 2) => a \in Crc!Word
      BY <1>1 DEF Fits, Crc!Word
    <2> QED
      BY <1>10, <2>1, <2>2, <2>3, <2>4, <2>5
  <1>12. Crc!Shl(b4, 3 * BYTE) \cup Crc!Shl(b3, 2 * BYTE) \cup Crc!Shl(b2, BYTE) \cup b1 = b1 \cup S(h1)
    <2>1. Crc!Shl(b4, 3 * BYTE) = S(S(S(b4))) /\ Crc!Shl(b3, 2 * BYTE) = S(S(b3))
          /\ Crc!Shl(b2, BYTE) = S(b2)
      BY <1>2, <1>5
    <2>2. S(h1) = S(b2) \cup S(S(h2))
      BY <1>4
    <2>3. S(h2) = S(b3) \cup S(S(b4))
      BY <1>4
    <2>4. S(S(h2)) = S(S(b3)) \cup S(S(S(b4)))
      BY <1>4, <2>3
    <2> HIDE DEF S, h1, h2
    <2> QED
      BY <2>1, <2>2, <2>4
  <1> DEFINE r1 == Crc!After(r, b1)
             r2 == Crc!After(r1, b2)
             r3 == Crc!After(r2, b3)
  <1>13. r1 \in Crc!Word
    BY AfterIsWord
  <1> HIDE DEF r1
  <1>14. r2 \in Crc!Word
    BY <1>13, AfterIsWord
  <1> HIDE DEF r2
  <1>15. r3 \in Crc!Word
    BY <1>14, AfterIsWord
  <1> HIDE DEF r3
  <1>16. Crc!Bits(Crc!Xor(r, b1 \cup S(h1))) = Crc!Xor(r1, h1)
    <2> HIDE DEF h1
    <2> QED
      BY <1>11, ShiftIn DEF r1
  <1>17. Crc!Bits(Crc!Xor(r1, h1)) = Crc!Xor(r2, h2)
    <2> HIDE DEF h2
    <2> QED
      BY <1>11, <1>13, ShiftIn DEF r2
  <1>18. Crc!Bits(Crc!Xor(r2, h2)) = Crc!Xor(r3, b4)
    BY <1>2, <1>11, <1>14, ShiftIn DEF r3
  <1>19. Crc!Bits(Crc!Xor(r3, b4)) = Crc!After(r3, b4)
    BY DEF Crc!After
  <1> HIDE DEF h1, h2
  <1>20. Crc!Xor(r, b1 \cup S(h1)) \in Crc!Word
    <2>1. b1 \cup S(h1) \in Crc!Word
      BY <1>2, <1>11 DEF Crc!Word
    <2> QED
      BY <2>1, WordsXor
  <1>21. Crc!Through(Crc!Xor(r, b1 \cup S(h1)))
           = Crc!Bits(Crc!Bits(Crc!Bits(Crc!Bits(Crc!Xor(r, b1 \cup S(h1))))))
    BY <1>20, ThroughIs
  <1> HIDE DEF S
  <1> QED
    BY <1>12, <1>16, <1>17, <1>18, <1>19, <1>21 DEF r1, r2, r3

\* crc32()'s step of one byte
LEMMA OneIs ==
  ASSUME Crc!SizeAssumption, NEW r \in Crc!Word, NEW b \in Crc!Byte
  PROVE  Crc!Xor(Crc!crc_table[1][Crc!ByteOf(Crc!Xor(r, b), 0)], Crc!Shr(r, BYTE))
           = Crc!After(r, b)
  <1>1. BYTE \in Nat /\ b \in Crc!Word /\ r \in SUBSET Nat /\ b \in SUBSET Nat
        /\ (\A i \in b : i < BYTE) /\ Crc!Xor(r, b) \in Crc!Word
    BY BytesAreWords, WordsShr, WordsXor DEF Crc!SizeAssumption
  <1>2. Crc!Shr(b, BYTE) = {}
    <2>1. \A i : i \in Crc!Shr(b, BYTE) <=> i \in Nat /\ i + BYTE \in b
      BY <1>1, InShr
    <2>2. \A i \in Nat : ~(i + BYTE < BYTE)
      BY <1>1
    <2> QED
      BY <1>1, <2>1, <2>2
  <1>3. Crc!Shr(Crc!Xor(r, b), BYTE) = Crc!Shr(r, BYTE)
    <2>1. Crc!Shr(Crc!Xor(r, b), BYTE) = Crc!Xor(Crc!Shr(r, BYTE), Crc!Shr(b, BYTE))
      BY <1>1, ShrXor
    <2>2. Crc!Xor(Crc!Shr(r, BYTE), {}) = Crc!Shr(r, BYTE)
      BY XorIs
    <2> QED
      BY <1>2, <2>1, <2>2
  <1>4. Crc!crc_table[1] = Crc!crc_table0
    BY DEF Crc!crc_table
  <1> QED
    BY <1>1, <1>3, <1>4, BitsByTable DEF Crc!After

----------------------------------------------------------------------------
(***************************************************************************)
(* crc32(): what the register is.                                          *)
(***************************************************************************)

AllOnes == Crc!Not({})

\* The register of a text, as a fold over it
RegisterStep(t) == [p \in (1 .. Len(t)) \X Crc!Word |-> Crc!After(p[2], t[p[1]])]

\* The register of a text by the definition is that of the fold.
LEMMA RegisterFold ==
  ASSUME Crc!SizeAssumption, NEW t \in Seq(Crc!Byte)
  PROVE  \E s \in [0 .. Len(t) -> Crc!Word] :
           BP!IsFold(s, Len(t), RegisterStep(t), AllOnes) /\ Crc!Register(t) = s[Len(t)]
  <1> DEFINE W == Crc!Word
             Is(s) == s = [i \in 0 .. Len(t) |->
                             IF i = 0 THEN AllOnes ELSE Crc!After(s[i - 1], t[i])]
             m == Len(t)
             F == RegisterStep(t)
  <1>1. m \in Nat /\ \A i \in 1 .. m : t[i] \in Crc!Byte
    OBVIOUS
  <1>2. AllOnes \in W
    BY DEF AllOnes, Crc!Not, Crc!Word
  <1>3. F \in [(1 .. m) \X W -> W]
    <2>1. \A p \in (1 .. m) \X W : Crc!After(p[2], t[p[1]]) \in W
      BY <1>1, AfterIsWord
    <2> QED
      BY <2>1 DEF RegisterStep
  <1>4. \A i \in 1 .. m, x \in W : F[<<i, x>>] = Crc!After(x, t[i])
    BY DEF RegisterStep
  <1>5. Crc!Register(t) = (CHOOSE s : Is(s))[Len(t)]
    BY DEF Crc!Register, AllOnes
  <1> HIDE DEF m, F, W
  <1>6. PICK g \in [0 .. m -> W] : BP!IsFold(g, m, F, AllOnes)
    BY <1>1, <1>2, <1>3, BP!FoldExists
  <1>7. Is(g)
    <2>1. \A i \in 0 .. m : g[i] = IF i = 0 THEN AllOnes ELSE Crc!After(g[i - 1], t[i])
      <3> TAKE i \in 0 .. m
      <3>1. CASE i = 0
        BY <1>6, <3>1 DEF BP!IsFold
      <3>2. CASE i # 0
        <4>1. i \in 1 .. m /\ i - 1 \in 0 .. m
          BY <1>1, <3>2
        <4>2. g[i] = F[<<i, g[i - 1]>>] /\ g[i - 1] \in W
          BY <1>6, <4>1 DEF BP!IsFold
        <4> QED
          BY <1>4, <3>2, <4>1, <4>2
      <3> QED
        BY <3>1, <3>2
    <2> QED
      BY <1>6, <2>1 DEF m
  <1> DEFINE s == CHOOSE s : Is(s)
  <1>8. Is(s)
    BY <1>7
  <1> HIDE DEF s
  <1>9. \A i \in 0 .. m : s[i] = IF i = 0 THEN AllOnes ELSE Crc!After(s[i - 1], t[i])
    BY <1>8 DEF m
  <1>10. BP!On(s, m)
    BY <1>8 DEF m, BP!On
  <1> HIDE DEF Is
  <1>11. s \in [0 .. m -> W] /\ BP!IsFold(s, m, F, AllOnes)
    <2>1. s[0] = AllOnes
      BY <1>1, <1>9
    <2>2. ASSUME NEW i \in 1 .. m, s[i - 1] \in W PROVE s[i] = F[<<i, s[i - 1]>>]
      <3>1. i \in 0 .. m /\ i # 0
        BY <1>1
      <3> QED
        BY <1>4, <1>9, <2>2, <3>1
    <2>3. BP!Folding(W, AllOnes, m, F, s)
      BY <1>1, <1>2, <1>3, <1>10, <2>1, <2>2 DEF BP!Folding
    <2> QED
      BY <2>3, BP!Folded
  <1> QED
    BY <1>5, <1>11 DEF s, m, F, W

\* The register of no bytes.
LEMMA RegisterEmpty ==
  ASSUME Crc!SizeAssumption
  PROVE  Crc!Register(<<>>) = AllOnes
  <1>1. <<>> \in Seq(Crc!Byte) /\ Len(<<>>) = 0
    OBVIOUS
  <1> QED
    BY <1>1, RegisterFold DEF BP!IsFold

\* The register of one byte more.
LEMMA RegisterAppend ==
  ASSUME Crc!SizeAssumption, NEW t \in Seq(Crc!Byte), NEW byte \in Crc!Byte
  PROVE  /\ Crc!Register(t) \in Crc!Word
         /\ Crc!Register(Append(t, byte)) = Crc!After(Crc!Register(t), byte)
  <1> DEFINE W == Crc!Word
  <1>1. PICK u : u = Append(t, byte)
    OBVIOUS
  <1>2. /\ u \in Seq(Crc!Byte) /\ Len(t) \in Nat /\ Len(u) = Len(t) + 1
        /\ u[Len(t) + 1] = byte /\ \A i \in 1 .. Len(t) : u[i] = t[i]
    BY <1>1
  <1>3. PICK g \in [0 .. Len(t) -> W] :
          BP!IsFold(g, Len(t), RegisterStep(t), AllOnes) /\ Crc!Register(t) = g[Len(t)]
    BY RegisterFold
  <1>4. PICK f \in [0 .. Len(u) -> W] :
          BP!IsFold(f, Len(u), RegisterStep(u), AllOnes) /\ Crc!Register(u) = f[Len(u)]
    BY <1>2, RegisterFold
  <1>5. \A i \in 1 .. Len(t), x \in W : RegisterStep(u)[<<i, x>>] = RegisterStep(t)[<<i, x>>]
    <2> TAKE i \in 1 .. Len(t), x \in W
    <2>1. i \in 1 .. Len(u) /\ u[i] = t[i]
      BY <1>2
    <2>2. RegisterStep(u)[<<i, x>>] = Crc!After(x, u[i])
      BY <2>1 DEF RegisterStep
    <2>3. RegisterStep(t)[<<i, x>>] = Crc!After(x, t[i])
      BY DEF RegisterStep
    <2> QED
      BY <2>1, <2>2, <2>3
  <1>8. /\ g[Len(t)] \in W /\ Len(u) \in 1 .. Len(u)
        /\ RegisterStep(u)[<<Len(u), g[Len(t)]>>] = Crc!After(g[Len(t)], u[Len(u)])
    <2>1. Len(t) \in 0 .. Len(t) /\ Len(u) \in 1 .. Len(u)
      BY <1>2
    <2>2. g[Len(t)] \in W
      BY <1>3, <2>1
    <2> QED
      BY <2>1, <2>2 DEF RegisterStep
  <1> HIDE DEF W
  <1>6. f[Len(t)] = g[Len(t)]
    <2>1. Len(t) \in 0 .. Len(u) /\ Len(u) \in Nat /\ Len(t) \in 0 .. Len(t)
      BY <1>2
    <2>2. \A i \in 0 .. Len(t) : f[i] = g[i]
      <3>1. PICK m \in Nat, k \in Nat : m = Len(t) /\ k = Len(u)
        BY <2>1
      <3>2. PICK G, F : G = RegisterStep(t) /\ F = RegisterStep(u)
        OBVIOUS
      <3>3. PICK a : a = AllOnes
        OBVIOUS
      <3>4. m \in 0 .. k /\ f \in [0 .. k -> W] /\ g \in [0 .. m -> W]
        BY <2>1, <3>1
      <3>5. BP!IsFold(f, k, F, a) /\ BP!IsFold(g, m, G, a)
        BY <1>3, <1>4, <3>1, <3>2, <3>3
      <3>6. \A i \in 1 .. m, x \in W : F[<<i, x>>] = G[<<i, x>>]
        BY <1>5, <3>1, <3>2
      <3>7. \A i \in 0 .. m : f[i] = g[i]
        BY <3>4, <3>5, <3>6, BP!FoldsAgree
      <3> QED
        BY <3>1, <3>7
    <2> QED
      BY <2>1, <2>2
  <1>7. f[Len(u)] = RegisterStep(u)[<<Len(u), f[Len(t)]>>]
    <2>1. Len(u) \in 1 .. Len(u) /\ Len(u) - 1 = Len(t)
      BY <1>2
    <2> QED
      BY <1>4, <2>1 DEF BP!IsFold
  <1> QED
    BY <1>1, <1>2, <1>3, <1>4, <1>6, <1>7, <1>8 DEF W

\* A prefix grows by the byte after it.
LEMMA PrefixAppend ==
  ASSUME NEW S, NEW t \in Seq(S), NEW k \in Nat, k < Len(t)
  PROVE  /\ SubSeq(t, 1, k) \in Seq(S) /\ t[k + 1] \in S
         /\ SubSeq(t, 1, k + 1) = Append(SubSeq(t, 1, k), t[k + 1])
  <1>1. Len(t) \in Nat /\ k + 1 \in 1 .. Len(t) /\ k \in 0 .. Len(t)
    OBVIOUS
  <1>2. SubSeq(t, 1, k) \in Seq(S) /\ Len(SubSeq(t, 1, k)) = k
        /\ \A i \in 1 .. k : SubSeq(t, 1, k)[i] = t[i]
    BY <1>1
  <1>3. SubSeq(t, 1, k + 1) \in Seq(S) /\ Len(SubSeq(t, 1, k + 1)) = k + 1
        /\ \A i \in 1 .. k + 1 : SubSeq(t, 1, k + 1)[i] = t[i]
    BY <1>1
  <1>4. t[k + 1] \in S
    BY <1>1
  <1>5. PICK a : a = SubSeq(t, 1, k)
    OBVIOUS
  <1>6. PICK b : b = SubSeq(t, 1, k + 1)
    OBVIOUS
  <1>7. b = Append(a, t[k + 1])
    BY <1>2, <1>3, <1>4, <1>5, <1>6
  <1> QED
    BY <1>2, <1>4, <1>5, <1>6, <1>7

\* A sequence without its first four.
LEMMA DropFour ==
  ASSUME NEW S, NEW s \in Seq(S), Len(s) >= 4
  PROVE  /\ SubSeq(s, 5, Len(s)) \in Seq(S) /\ Len(SubSeq(s, 5, Len(s))) = Len(s) - 4
         /\ \A i \in 1 .. Len(s) - 4 : SubSeq(s, 5, Len(s))[i] = s[i + 4]
  <1>1. PICK k \in Nat : Len(s) = k
    OBVIOUS
  <1>2. \A i \in 5 .. k : s[i] \in S
    BY <1>1
  <1>3. Len(SubSeq(s, 5, k)) = k - 4
    <2>1. CASE k = 4
      BY <1>1, <2>1
    <2>2. CASE k > 4
      BY <1>1, <2>2
    <2> QED
      BY <1>1, <2>1, <2>2
  <1>4. \A i \in 1 .. k - 4 : SubSeq(s, 5, k)[i] = s[i + 4]
    BY <1>1
  <1>5. SubSeq(s, 5, k) \in Seq(S)
    BY <1>1, <1>2
  <1> QED
    BY <1>1, <1>3, <1>4, <1>5

CrcInv == Crc!TypeOK /\ Crc!IsCheck /\ Crc!RegisterIsCheck

\* Not() is its own inverse.
LEMMA Complement ==
  ASSUME NEW r \in Crc!Word
  PROVE  Crc!Not(r) \in Crc!Word /\ Crc!Not(Crc!Not(r)) = r
  BY DEF Crc!Not, Crc!Word

\* The check is right before the first call.
LEMMA CrcStarts ==
  ASSUME Crc!SizeAssumption, Crc!Init
  PROVE  CrcInv
  <1>1. {} \in Crc!Word /\ Crc!Not(Crc!Not({})) = {}
    BY Complement DEF Crc!Word
  <1>2. <<>> \in Seq(Crc!Byte) /\ Len(<<>>) = 0 /\ MaxCall \in Nat /\ MaxChecked \in Nat
    BY DEF Crc!SizeAssumption
  <1>3. Crc!TypeOK
    BY <1>1, <1>2 DEF Crc!Init, Crc!TypeOK
  <1>4. Crc!IsCheck /\ Crc!RegisterIsCheck
    BY <1>1, RegisterEmpty DEF Crc!Init, Crc!IsCheck, Crc!RegisterIsCheck, Crc!BitByBit, AllOnes
  <1> QED
    BY <1>3, <1>4 DEF CrcInv

\* The bytes of the text that are still to be read
Ahead == Len(text_crc) - Len(buf)

\* Every step keeps the register that of the bytes read.
LEMMA CrcKept ==
  ASSUME Crc!SizeAssumption, CrcInv, [Crc!Next]_crcVars
  PROVE  CrcInv'
  <1>1. /\ check_crc \in Crc!Word /\ c \in Crc!Word
        /\ pc_crc \in {"idle", "loop"}
        /\ text_crc \in Seq(Crc!Byte) /\ buf \in Seq(Crc!Byte)
        /\ Len(buf) <= MaxCall /\ Len(buf) <= Len(text_crc) /\ Len(text_crc) <= MaxChecked
        /\ \A i \in 1 .. Len(buf) : buf[i] = text_crc[(Len(text_crc) - Len(buf)) + i]
    BY DEF CrcInv, Crc!TypeOK
  <1>2. /\ pc_crc = "idle" => check_crc = Crc!Not(Crc!Register(text_crc))
        /\ pc_crc = "loop" => c = Crc!Register(SubSeq(text_crc, 1, Ahead))
    BY DEF CrcInv, Crc!IsCheck, Crc!RegisterIsCheck, Crc!BitByBit, Ahead
  <1>3. /\ Len(buf) \in Nat /\ Len(text_crc) \in Nat /\ Ahead \in Nat /\ Ahead + Len(buf) = Len(text_crc)
        /\ MaxCall \in Nat /\ MaxChecked \in Nat
    BY <1>1 DEF Ahead, Crc!SizeAssumption
  <1>4. \A i \in 1 .. Len(buf) : buf[i] = text_crc[Ahead + i] /\ buf[i] \in Crc!Byte
    BY <1>1 DEF Ahead
  <1>5. CASE Crc!Call
    <2>1. PICK size \in 0 .. MaxCall : Len(text_crc) + size <= MaxChecked /\ buf' \in [1 .. size -> Crc!Byte]
      BY <1>5 DEF Crc!Call
    <2>2. pc_crc = "idle" /\ c' = Crc!Not(check_crc) /\ pc_crc' = "loop"
          /\ text_crc' = text_crc \o buf' /\ check_crc' = check_crc
      BY <1>5 DEF Crc!Call
    <2>3. buf' \in Seq(Crc!Byte) /\ Len(buf') = size
      BY <2>1
    <2>4. /\ text_crc' \in Seq(Crc!Byte) /\ Len(text_crc') = Len(text_crc) + size
          /\ \A i \in 1 .. Len(text_crc) : text_crc'[i] = text_crc[i]
          /\ \A i \in 1 .. size : text_crc'[Len(text_crc) + i] = buf'[i]
      <3>1. ASSUME NEW t, NEW b, t \in Seq(Crc!Byte), b \in Seq(Crc!Byte)
            PROVE  /\ t \o b \in Seq(Crc!Byte) /\ Len(t \o b) = Len(t) + Len(b)
                   /\ \A i \in 1 .. Len(t) : (t \o b)[i] = t[i]
                   /\ \A i \in 1 .. Len(b) : (t \o b)[Len(t) + i] = b[i]
        BY <3>1
      <3>2. PICK b : b = buf'
        OBVIOUS
      <3>3. /\ text_crc \o b \in Seq(Crc!Byte) /\ Len(text_crc \o b) = Len(text_crc) + Len(b)
            /\ \A i \in 1 .. Len(text_crc) : (text_crc \o b)[i] = text_crc[i]
            /\ \A i \in 1 .. Len(b) : (text_crc \o b)[Len(text_crc) + i] = b[i]
        BY <1>1, <2>3, <3>1, <3>2
      <3> QED
        BY <2>2, <2>3, <3>2, <3>3, Zenon
    <2>5. Len(text_crc') - Len(buf') = Len(text_crc)
      BY <1>3, <2>1, <2>3, <2>4
    <2>6. Crc!Register(text_crc) \in Crc!Word
      BY <1>1, {} \in Crc!Byte, RegisterAppend DEF Crc!Byte
    <2>7. c' = Crc!Register(text_crc) /\ c' \in Crc!Word
      BY <1>2, <2>2, <2>6, Complement
    <2>8. SubSeq(text_crc', 1, Len(text_crc)) = text_crc
      BY <1>1, <1>3, <2>1, <2>4
    <2>9. (Crc!TypeOK)'
      BY <1>1, <1>3, <2>1, <2>2, <2>3, <2>4, <2>5, <2>7 DEF Crc!TypeOK
    <2>10. (Crc!RegisterIsCheck)'
      BY <2>5, <2>7, <2>8 DEF Crc!RegisterIsCheck
    <2>11. (Crc!IsCheck)'
      BY <2>2 DEF Crc!IsCheck
    <2> QED
      BY <2>9, <2>10, <2>11 DEF CrcInv
  <1>6. CASE Crc!FourBytes
    <2>1. /\ pc_crc = "loop" /\ Len(buf) >= 4 /\ c' = Crc!Through(Crc!Xor(c, Crc!Loaded))
          /\ buf' = SubSeq(buf, 5, Len(buf)) /\ check_crc' = check_crc /\ pc_crc' = pc_crc
          /\ text_crc' = text_crc
      BY <1>6 DEF Crc!FourBytes, Crc!Rest
    <2>2. /\ buf' \in Seq(Crc!Byte) /\ Len(buf') = Len(buf) - 4
          /\ \A i \in 1 .. Len(buf) - 4 : buf'[i] = buf[i + 4]
      BY <1>1, <2>1, DropFour
    <2>3. buf[1] \in Crc!Byte /\ buf[2] \in Crc!Byte /\ buf[3] \in Crc!Byte /\ buf[4] \in Crc!Byte
          /\ buf[1] = text_crc[Ahead + 1] /\ buf[2] = text_crc[Ahead + 2]
          /\ buf[3] = text_crc[Ahead + 3] /\ buf[4] = text_crc[Ahead + 4]
      BY <1>3, <1>4, <2>1
    <2>4. c' = Crc!After(Crc!After(Crc!After(Crc!After(c, buf[1]), buf[2]), buf[3]), buf[4])
      <3>1. Crc!Loaded = Crc!Shl(buf[4], 3 * BYTE) \cup Crc!Shl(buf[3], 2 * BYTE)
                           \cup Crc!Shl(buf[2], BYTE) \cup buf[1]
        BY DEF Crc!Loaded
      <3>2. PICK b1 \in Crc!Byte, b2 \in Crc!Byte, b3 \in Crc!Byte, b4 \in Crc!Byte :
              b1 = buf[1] /\ b2 = buf[2] /\ b3 = buf[3] /\ b4 = buf[4]
        BY <2>3
      <3>3. PICK r \in Crc!Word : r = c
        BY <1>1
      <3>4. Crc!Through(Crc!Xor(r, Crc!Shl(b4, 3 * BYTE) \cup Crc!Shl(b3, 2 * BYTE)
                                     \cup Crc!Shl(b2, BYTE) \cup b1))
              = Crc!After(Crc!After(Crc!After(Crc!After(r, b1), b2), b3), b4)
        BY FourIs
      <3> QED
        BY <2>1, <3>1, <3>2, <3>3, <3>4
    <2>5. c = Crc!Register(SubSeq(text_crc, 1, Ahead))
      BY <1>2, <2>1
    <2>6. ASSUME NEW k \in 0 .. 3
          PROVE  Crc!Register(SubSeq(text_crc, 1, (Ahead + k) + 1))
                   = Crc!After(Crc!Register(SubSeq(text_crc, 1, Ahead + k)), text_crc[(Ahead + k) + 1])
      <3>1. Ahead + k \in Nat /\ Ahead + k < Len(text_crc)
        BY <1>3, <2>1
      <3>2. PICK p : p = Ahead + k
        OBVIOUS
      <3>3. /\ SubSeq(text_crc, 1, p) \in Seq(Crc!Byte) /\ text_crc[p + 1] \in Crc!Byte
            /\ SubSeq(text_crc, 1, p + 1) = Append(SubSeq(text_crc, 1, p), text_crc[p + 1])
        BY <1>1, <3>1, <3>2, PrefixAppend
      <3>4. Crc!Register(SubSeq(text_crc, 1, p + 1))
              = Crc!After(Crc!Register(SubSeq(text_crc, 1, p)), text_crc[p + 1])
        BY <3>3, RegisterAppend
      <3> QED
        BY <3>2, <3>4
    <2>7. Crc!Register(SubSeq(text_crc, 1, Ahead + 4)) = c'
      <3>1. Ahead + 0 = Ahead /\ (Ahead + 0) + 1 = Ahead + 1 /\ (Ahead + 1) + 1 = Ahead + 2
            /\ (Ahead + 2) + 1 = Ahead + 3 /\ (Ahead + 3) + 1 = Ahead + 4
        BY <1>3
      <3> DEFINE R(k) == Crc!Register(SubSeq(text_crc, 1, k))
      <3>2. R(Ahead + 1) = Crc!After(R(Ahead), text_crc[Ahead + 1])
        BY <2>6, <3>1
      <3>3. R(Ahead + 2) = Crc!After(R(Ahead + 1), text_crc[Ahead + 2])
        BY <2>6, <3>1
      <3>4. R(Ahead + 3) = Crc!After(R(Ahead + 2), text_crc[Ahead + 3])
        BY <2>6, <3>1
      <3>5. R(Ahead + 4) = Crc!After(R(Ahead + 3), text_crc[Ahead + 4])
        BY <2>6, <3>1
      <3>6. R(Ahead) = c
        BY <2>5
      <3> HIDE DEF R
      <3>7. R(Ahead + 4) = c'
        BY <2>3, <2>4, <3>2, <3>3, <3>4, <3>5, <3>6
      <3> QED
        BY <3>7 DEF R
    <2>8. Len(text_crc') - Len(buf') = Ahead + 4
      <3>1. Len(text_crc') = Len(text_crc) /\ Len(buf') = Len(buf) - 4
        BY <2>1, <2>2
      <3> QED
        BY <1>3, <3>1
    <2>9. ASSUME NEW i \in 1 .. Len(buf') PROVE buf'[i] = text_crc'[(Ahead + 4) + i]
      <3>1. i + 4 \in 1 .. Len(buf) /\ Ahead + (i + 4) = (Ahead + 4) + i /\ i \in 1 .. Len(buf) - 4
        BY <1>3, <2>1, <2>2
      <3> QED
        BY <1>4, <2>1, <2>2, <3>1
    <2>10. c' \in Crc!Word
      BY <1>1, <2>3, <2>4, AfterIsWord
    <2>11. (Crc!TypeOK)'
      <3>1. /\ Len(buf') \in Nat /\ Len(buf') <= MaxCall /\ Len(buf') <= Len(text_crc')
            /\ \A i \in 1 .. Len(buf') : buf'[i] = text_crc'[(Len(text_crc') - Len(buf')) + i]
        <4>1. Len(text_crc') = Len(text_crc) /\ Len(buf') = Len(buf) - 4 /\ Len(buf) >= 4
          BY <2>1, <2>2
        <4>2. Len(buf') \in Nat /\ Len(buf') <= MaxCall /\ Len(buf') <= Len(text_crc')
          BY <1>1, <1>3, <4>1
        <4> QED
          BY <2>8, <2>9, <4>2
      <3> QED
        BY <1>1, <2>1, <2>2, <2>10, <3>1 DEF Crc!TypeOK
    <2>12. (Crc!RegisterIsCheck)'
      BY <2>1, <2>7, <2>8 DEF Crc!RegisterIsCheck
    <2>13. (Crc!IsCheck)'
      BY <2>1 DEF Crc!IsCheck
    <2> QED
      BY <2>11, <2>12, <2>13 DEF CrcInv
  <1>7. CASE Crc!OneByte
    <2>1. /\ pc_crc = "loop" /\ Len(buf) \in 1 .. 3
          /\ c' = Crc!Xor(Crc!crc_table[1][Crc!ByteOf(Crc!Xor(c, Head(buf)), 0)], Crc!Shr(c, BYTE))
          /\ buf' = Tail(buf) /\ check_crc' = check_crc /\ pc_crc' = pc_crc /\ text_crc' = text_crc
      BY <1>7 DEF Crc!OneByte
    <2>2. /\ buf' \in Seq(Crc!Byte) /\ Len(buf') = Len(buf) - 1
          /\ \A i \in 1 .. Len(buf) - 1 : buf'[i] = buf[i + 1]
          /\ Head(buf) = buf[1]
      BY <1>1, <1>3, <2>1
    <2>3. buf[1] \in Crc!Byte /\ buf[1] = text_crc[Ahead + 1]
      BY <1>3, <1>4, <2>1
    <2>4. c' = Crc!After(c, buf[1])
      BY <1>1, <2>1, <2>2, <2>3, OneIs
    <2>5. c = Crc!Register(SubSeq(text_crc, 1, Ahead))
      BY <1>2, <2>1
    <2>7. Crc!Register(SubSeq(text_crc, 1, Ahead + 1)) = c'
      <3>1. Ahead \in Nat /\ Ahead < Len(text_crc)
        BY <1>3, <2>1
      <3>2. PICK p : p = Ahead
        OBVIOUS
      <3>3. /\ SubSeq(text_crc, 1, p) \in Seq(Crc!Byte) /\ text_crc[p + 1] \in Crc!Byte
            /\ SubSeq(text_crc, 1, p + 1) = Append(SubSeq(text_crc, 1, p), text_crc[p + 1])
        BY <1>1, <3>1, <3>2, PrefixAppend
      <3>4. Crc!Register(SubSeq(text_crc, 1, p + 1))
              = Crc!After(Crc!Register(SubSeq(text_crc, 1, p)), text_crc[p + 1])
        BY <3>3, RegisterAppend
      <3> QED
        BY <2>3, <2>4, <2>5, <3>2, <3>4
    <2>8. Len(text_crc') - Len(buf') = Ahead + 1
      <3>1. Len(text_crc') = Len(text_crc) /\ Len(buf') = Len(buf) - 1
        BY <2>1, <2>2
      <3> QED
        BY <1>3, <3>1
    <2>9. ASSUME NEW i \in 1 .. Len(buf') PROVE buf'[i] = text_crc'[(Ahead + 1) + i]
      <3>1. i + 1 \in 1 .. Len(buf) /\ Ahead + (i + 1) = (Ahead + 1) + i /\ i \in 1 .. Len(buf) - 1
        BY <1>3, <2>1, <2>2
      <3> QED
        BY <1>4, <2>1, <2>2, <3>1
    <2>10. c' \in Crc!Word
      BY <1>1, <2>3, <2>4, AfterIsWord
    <2>11. (Crc!TypeOK)'
      <3>1. /\ Len(buf') \in Nat /\ Len(buf') <= MaxCall /\ Len(buf') <= Len(text_crc')
            /\ \A i \in 1 .. Len(buf') : buf'[i] = text_crc'[(Len(text_crc') - Len(buf')) + i]
        <4>1. Len(text_crc') = Len(text_crc) /\ Len(buf') = Len(buf) - 1 /\ Len(buf) \in 1 .. 3
          BY <2>1, <2>2
        <4>2. Len(buf') \in Nat /\ Len(buf') <= MaxCall /\ Len(buf') <= Len(text_crc')
          BY <1>1, <1>3, <4>1
        <4> QED
          BY <2>8, <2>9, <4>2
      <3> QED
        BY <1>1, <2>1, <2>2, <2>10, <3>1 DEF Crc!TypeOK
    <2>12. (Crc!RegisterIsCheck)'
      BY <2>1, <2>7, <2>8 DEF Crc!RegisterIsCheck
    <2>13. (Crc!IsCheck)'
      BY <2>1 DEF Crc!IsCheck
    <2> QED
      BY <2>11, <2>12, <2>13 DEF CrcInv
  <1>8. CASE Crc!Return
    <2>1. /\ pc_crc = "loop" /\ buf = <<>> /\ check_crc' = Crc!Not(c) /\ pc_crc' = "idle"
          /\ c' = c /\ buf' = buf /\ text_crc' = text_crc
      BY <1>8 DEF Crc!Return, Crc!Result
    <2>2. Ahead = Len(text_crc) /\ SubSeq(text_crc, 1, Len(text_crc)) = text_crc
      BY <1>1, <1>3, <2>1
    <2>3. c = Crc!Register(text_crc)
      BY <1>2, <2>1, <2>2
    <2>4. check_crc' \in Crc!Word
      BY <1>1, <2>1, Complement
    <2>5. (Crc!TypeOK)'
      BY <1>1, <2>1, <2>4 DEF Crc!TypeOK
    <2>6. (Crc!IsCheck)' /\ (Crc!RegisterIsCheck)'
      BY <2>1, <2>3 DEF Crc!IsCheck, Crc!RegisterIsCheck, Crc!BitByBit
    <2> QED
      BY <2>5, <2>6 DEF CrcInv
  <1>9. CASE UNCHANGED crcVars
    BY <1>9 DEF crcVars, CrcInv, Crc!TypeOK, Crc!IsCheck, Crc!RegisterIsCheck
  <1> QED
    BY <1>5, <1>6, <1>7, <1>8, <1>9 DEF Crc!Next

----------------------------------------------------------------------------
(***************************************************************************)
(* The definitions of Copy are those CP's lemmas are about.                *)
(***************************************************************************)

\* The assumptions on the constants.
LEMMA SameAssumptions ==
  /\ Copy!SizeAssumption => CP!SizeAssumption
  /\ Copy!LengthsAssumption => CP!LengthsAssumption
  /\ Copy!SpansAssumption => CP!SpansAssumption
  /\ Copy!SpansFit => CP!SpansFit
  BY DEF Copy!SizeAssumption, CP!SizeAssumption, Copy!LengthsAssumption, CP!LengthsAssumption,
         Copy!SpansAssumption, CP!SpansAssumption, Copy!SpansFit, CP!SpansFit

\* The initial states.
LEMMA SameInit == Copy!Init => CP!Init
  BY DEF Copy!Init, CP!Init

\* The smaller of two.
LEMMA SameMin ==
  ASSUME NEW a, NEW b
  PROVE  Copy!MIN(a, b) = CP!MIN(a, b)
  BY DEF Copy!MIN, CP!MIN

\* The properties.
LEMMA SameProperties ==
  /\ CP!TypeOK => Copy!TypeOK
  /\ CP!OutputIsText => Copy!OutputIsText
  /\ CP!WindowIsTail => Copy!WindowIsTail
  /\ CP!OnlyImpossibleRefused => Copy!OnlyImpossibleRefused
  /\ CP!StaysInSpan => Copy!StaysInSpan
  <1>1. CP!TypeOK => Copy!TypeOK
    BY DEF CP!TypeOK, Copy!TypeOK
  <1>2. CP!OutputIsText => Copy!OutputIsText
    BY DEF CP!OutputIsText, Copy!OutputIsText, CP!Made, Copy!Made
  <1>3. CP!WindowIsTail => Copy!WindowIsTail
    BY DEF CP!WindowIsTail, Copy!WindowIsTail, CP!Made, Copy!Made, CP!MIN, Copy!MIN
  <1>4. CP!OnlyImpossibleRefused => Copy!OnlyImpossibleRefused
    BY DEF CP!OnlyImpossibleRefused, Copy!OnlyImpossibleRefused
  <1>5. CP!StaysInSpan => Copy!StaysInSpan
    BY DEF CP!StaysInSpan, Copy!StaysInSpan
  <1> QED
    BY <1>1, <1>2, <1>3, <1>4, <1>5

\* The steps.
LEMMA SameNext == Copy!Next => CP!Next
  <1>1. ASSUME NEW m \in Spans, Copy!Call(m) PROVE CP!Call(m)
    BY <1>1 DEF Copy!Call, CP!Call, Copy!win, CP!win, Copy!loop, CP!loop
  <1>2. Copy!Literal => CP!Literal
    BY DEF Copy!Literal, CP!Literal, Copy!Decode, CP!Decode, Copy!win, CP!win, Copy!loop, CP!loop
  <1>3. Copy!FastLiteral => CP!FastLiteral
    BY DEF Copy!FastLiteral, CP!FastLiteral, Copy!FastRound, CP!FastRound, Copy!Room, CP!Room,
           Copy!win, CP!win, Copy!loop, CP!loop
  <1>4. ASSUME NEW d, NEW k PROVE Copy!Expanded(text_copy, d, k) = CP!Expanded(text_copy, d, k)
    BY DEF Copy!Expanded, CP!Expanded, Copy!Outside, CP!Outside
  <1>5. ASSUME NEW k \in Lengths, NEW d \in 1 .. MaxDistance, Copy!LengthDistance(k, d)
        PROVE  CP!LengthDistance(k, d)
    BY <1>4, <1>5 DEF Copy!LengthDistance, CP!LengthDistance, Copy!Decode, CP!Decode,
                      Copy!win, CP!win, Copy!loop, CP!loop
  <1>6. ASSUME NEW k \in Lengths, NEW d \in 1 .. MaxDistance, Copy!FastMatch(k, d)
        PROVE  CP!FastMatch(k, d)
    <2>1. ASSUME NEW b PROVE Copy!WindowPart(b, k) <=> CP!WindowPart(b, k)
      BY DEF Copy!WindowPart, CP!WindowPart, Copy!MIN, CP!MIN
    <2>2. Copy!FastRound <=> CP!FastRound
      BY DEF Copy!FastRound, CP!FastRound, Copy!Room, CP!Room
    <2>3. Copy!InOutput = CP!InOutput
      BY DEF Copy!InOutput, CP!InOutput
    <2>4. ASSUME NEW b PROVE Copy!TooFar(b) <=> CP!TooFar(b)
      BY DEF Copy!TooFar, CP!TooFar
    <2> QED
      BY <1>4, <1>6, <2>1, <2>2, <2>3, <2>4 DEF Copy!FastMatch, CP!FastMatch, Copy!win, CP!win,
           Copy!loop, CP!loop
  <1>7. Copy!Lit => CP!Lit
    BY DEF Copy!Lit, CP!Lit, Copy!win, CP!win, Copy!loop, CP!loop
  <1>8. Copy!Match => CP!Match
    BY DEF Copy!Match, CP!Match, Copy!win, CP!win, Copy!loop, CP!loop, Copy!WindowCount, CP!WindowCount,
           Copy!WindowFrom, CP!WindowFrom, Copy!MIN, CP!MIN, Copy!TooFar, CP!TooFar
  <1>9. Copy!CopyByte => CP!CopyByte
    BY DEF Copy!CopyByte, CP!CopyByte, Copy!win, CP!win, Copy!Byte, CP!Byte, Copy!Outside, CP!Outside
  <1>10. Copy!FastNextPart => CP!FastNextPart
    BY DEF Copy!FastNextPart, CP!FastNextPart, Copy!win, CP!win, Copy!Wraps, CP!Wraps,
           Copy!MIN, CP!MIN
  <1>11. Copy!FastReturn => CP!FastReturn
    BY DEF Copy!FastReturn, CP!FastReturn, Copy!win, CP!win, Copy!loop, CP!loop
  <1>12. Copy!Leave => CP!Leave
    <2>1. ASSUME NEW w, NEW at, NEW s, NEW end, NEW count
          PROVE  Copy!Stored(w, at, s, end, count) = CP!Stored(w, at, s, end, count)
      BY DEF Copy!Stored, CP!Stored, Copy!Byte, CP!Byte, Copy!Outside, CP!Outside
    <2>2. ASSUME NEW k PROVE Copy!updatewindow(k) <=> CP!updatewindow(k)
      BY DEF Copy!updatewindow, CP!updatewindow, Copy!SecondPart, CP!SecondPart,
             Copy!WrapsTo, CP!WrapsTo, Copy!MIN, CP!MIN, Copy!Fresh, CP!Fresh,
             Copy!Stored, CP!Stored, Copy!Byte, CP!Byte, Copy!Outside, CP!Outside
    <2> QED
      BY <2>2 DEF Copy!Leave, CP!Leave, Copy!win, CP!win, Copy!loop, CP!loop
  <1> QED
    BY <1>1, <1>2, <1>3, <1>5, <1>6, <1>7, <1>8, <1>9, <1>10, <1>11, <1>12
       DEF Copy!Next, CP!Next, Copy!Symbols, CP!Symbols

----------------------------------------------------------------------------
(***************************************************************************)
(* The definitions of Bits are those BP's lemmas are about.                *)
(***************************************************************************)

\* Sizes and shifts.
LEMMA SameNumbers ==
  /\ Bits!Buf_size = BP!Buf_size /\ Bits!HeaderBits = BP!HeaderBits
  /\ \A v, k : Bits!Shl(v, k) = BP!Shl(v, k) /\ Bits!Shr(v, k) = BP!Shr(v, k)
              /\ Bits!Low(v, k) = BP!Low(v, k)
  BY DEF Bits!Buf_size, BP!Buf_size, Bits!HeaderBits, BP!HeaderBits, Bits!Shl, BP!Shl, Bits!Shr,
         BP!Shr, Bits!Low, BP!Low

\* The assumptions on the constants.
LEMMA SameItems ==
  /\ Bits!SizeAssumption => BP!SizeAssumption
  /\ Bits!ItemsAssumption => BP!ItemsAssumption
  BY DEF Bits!SizeAssumption, BP!SizeAssumption, Bits!ItemsAssumption, BP!ItemsAssumption,
         Bits!Buf_size, BP!Buf_size

\* The initial states.
LEMMA SameStart == Bits!Init => BP!Init
  BY DEF Bits!Init, BP!Init

\* The encoder's operations.
LEMMA SameEncoding ==
  /\ Bits!Now = BP!Now
  /\ \A b : Bits!Becomes(b) <=> BP!Becomes(b)
  /\ \A b, v, k : Bits!send_bits(b, v, k) = BP!send_bits(b, v, k)
  /\ \A b : Bits!bi_flush(b) = BP!bi_flush(b) /\ Bits!bi_windup(b) = BP!bi_windup(b)
  /\ \A b, v, s : Bits!_tr_stored_block(b, v, s) = BP!_tr_stored_block(b, v, s)
  <1>1. Bits!Now = BP!Now
    BY DEF Bits!Now, BP!Now
  <1>2. ASSUME NEW b PROVE Bits!Becomes(b) <=> BP!Becomes(b)
    BY DEF Bits!Becomes, BP!Becomes
  <1>3. ASSUME NEW o, NEW v
        PROVE  Bits!put_byte(o, v) = BP!put_byte(o, v) /\ Bits!put_short(o, v) = BP!put_short(o, v)
    BY SameNumbers DEF Bits!put_byte, BP!put_byte, Bits!put_short, BP!put_short
  <1>4. ASSUME NEW o PROVE Bits!Empty(o) = BP!Empty(o)
    BY DEF Bits!Empty, BP!Empty
  <1>5. ASSUME NEW b, NEW v, NEW k PROVE Bits!send_bits(b, v, k) = BP!send_bits(b, v, k)
    BY SameNumbers, <1>3 DEF Bits!send_bits, BP!send_bits, Bits!Spills, BP!Spills, Bits!Carried,
           BP!Carried
  <1>6. ASSUME NEW b PROVE Bits!bi_flush(b) = BP!bi_flush(b)
    BY SameNumbers, <1>3, <1>4 DEF Bits!bi_flush, BP!bi_flush
  <1>7. ASSUME NEW b PROVE Bits!bi_windup(b) = BP!bi_windup(b)
    BY <1>3, <1>4 DEF Bits!bi_windup, BP!bi_windup
  <1>8. ASSUME NEW b, NEW v, NEW s PROVE Bits!_tr_stored_block(b, v, s) = BP!_tr_stored_block(b, v, s)
    BY SameNumbers, <1>3, <1>4, <1>5, <1>7 DEF Bits!_tr_stored_block, BP!_tr_stored_block
  <1> QED
    BY <1>1, <1>2, <1>5, <1>6, <1>7, <1>8

\* The steps.
LEMMA SameSteps == Bits!Next => BP!Next
  <1>2. UNCHANGED Bits!encoder => UNCHANGED BP!encoder
    BY DEF Bits!encoder, BP!encoder
  <1>3. UNCHANGED Bits!decoder => UNCHANGED BP!decoder
    BY DEF Bits!decoder, BP!decoder
  <1>4. Bits!Send => BP!Send
    BY SameNumbers, SameEncoding, <1>3 DEF Bits!Send, BP!Send
  <1>5. Bits!SendStored => BP!SendStored
    BY SameNumbers, SameEncoding, <1>3 DEF Bits!SendStored, BP!SendStored
  <1>6. Bits!Flush => BP!Flush
    BY SameEncoding, <1>3 DEF Bits!Flush, BP!Flush
  <1>7. Bits!Finish => BP!Finish
    BY SameEncoding, <1>3 DEF Bits!Finish, BP!Finish
  <1>8. Bits!Wanted = BP!Wanted
    BY DEF Bits!Wanted, BP!Wanted
  <1>9. ASSUME NEW k PROVE /\ Bits!Wants(k) <=> BP!Wants(k)
                           /\ Bits!Available(k) <=> BP!Available(k)
                           /\ Bits!Bits(k) = BP!Bits(k) /\ Bits!Left(k) = BP!Left(k)
    BY SameNumbers, <1>8 DEF Bits!Wants, BP!Wants, Bits!Available, BP!Available, Bits!Bits,
           BP!Bits, Bits!Left, BP!Left
  <1>10. ASSUME NEW k, Bits!Pull(k) PROVE BP!Pull(k)
    BY SameNumbers, <1>9, <1>10 DEF Bits!Pull, BP!Pull
  <1>11. ASSUME NEW k, Bits!Drop(k) PROVE BP!Drop(k)
    BY SameNumbers, <1>11 DEF Bits!Drop, BP!Drop
  <1>12. Bits!Padding = BP!Padding /\ Bits!Unused = BP!Unused /\ (Bits!HasRun <=> BP!HasRun)
    BY DEF Bits!Padding, BP!Padding, Bits!Unused, BP!Unused, Bits!HasRun, BP!HasRun
  <1>13. ASSUME NEW v PROVE Bits!LengthOf(v) = BP!LengthOf(v)
    BY DEF Bits!LengthOf, BP!LengthOf
  <1>14. Bits!NEEDBITS => BP!NEEDBITS
    BY <1>2, <1>8, <1>9, <1>10 DEF Bits!NEEDBITS, BP!NEEDBITS
  <1>15. Bits!Take => BP!Take
    BY <1>2, <1>8, <1>9, <1>11 DEF Bits!Take, BP!Take
  <1>16. Bits!AlignStored => BP!AlignStored
    BY <1>2, <1>9, <1>11, <1>12 DEF Bits!AlignStored, BP!AlignStored
  <1>17. Bits!NeedHeader => BP!NeedHeader
    BY SameNumbers, <1>2, <1>9, <1>10, <1>12 DEF Bits!NeedHeader, BP!NeedHeader
  <1>18. Bits!Header => BP!Header
    BY SameNumbers, <1>2, <1>9, <1>13 DEF Bits!Header, BP!Header
  <1>19. Bits!COPY => BP!COPY
    BY <1>2, <1>9 DEF Bits!COPY, BP!COPY
  <1>20. Bits!FastEntry => BP!FastEntry
    BY <1>2, <1>8, <1>9 DEF Bits!FastEntry, BP!FastEntry
  <1>21. Bits!FastPull => BP!FastPull
    BY SameNumbers, <1>2, <1>10 DEF Bits!FastPull, BP!FastPull
  <1>22. Bits!FastPullExtra => BP!FastPullExtra
    BY <1>2, <1>8, <1>9, <1>10 DEF Bits!FastPullExtra, BP!FastPullExtra
  <1>23. Bits!FastReturn => BP!FastReturn
    BY <1>2, <1>9, <1>12 DEF Bits!FastReturn, BP!FastReturn
  <1>24. Bits!Done => BP!Done
    BY DEF Bits!Done, BP!Done, Bits!vars, BP!vars, Bits!encoder, BP!encoder, Bits!decoder,
           BP!decoder
  <1>25. Bits!Encoder => BP!Encoder
    BY <1>4, <1>5, <1>6, <1>7 DEF Bits!Encoder, BP!Encoder
  <1>26. Bits!Decoder => BP!Decoder
    BY <1>14, <1>15, <1>16, <1>17, <1>18, <1>19, <1>20, <1>21, <1>22, <1>23
       DEF Bits!Decoder, BP!Decoder
  <1> QED
    BY <1>24, <1>25, <1>26 DEF Bits!Next, BP!Next

\* The properties.
LEMMA SameBitProperties ==
  /\ BP!TypeOK => Bits!TypeOK
  /\ BP!Packed => Bits!Packed
  /\ BP!Arrives => Bits!Arrives
  /\ BP!HoldsWhatWasRead => Bits!HoldsWhatWasRead
  /\ BP!HeaderIsAll => Bits!HeaderIsAll
  /\ BP!NotTooFarBack => Bits!NotTooFarBack
  <1>1. BP!TypeOK => Bits!TypeOK
    BY DEF Bits!TypeOK, BP!TypeOK, Bits!Buf_size, BP!Buf_size
  <1>2. ASSUME NEW s PROVE Bits!OfBytes(s) = BP!OfBytes(s)
    BY DEF Bits!OfBytes, BP!OfBytes, Bits!Shl, BP!Shl
  <1>3. ASSUME NEW s PROVE Bits!Layout(s) = BP!Layout(s)
    BY DEF Bits!Layout, BP!Layout, Bits!WithItem, BP!WithItem, Bits!Nothing, BP!Nothing,
           Bits!Then, BP!Then, Bits!StoredHeader, BP!StoredHeader, Bits!Padded, BP!Padded,
           Bits!LengthField, BP!LengthField, Bits!OfBytes, BP!OfBytes, Bits!Shl, BP!Shl, Bits!Buf_size,
           BP!Buf_size
  <1>4. BP!Packed => Bits!Packed
    BY SameNumbers, <1>2, <1>3 DEF Bits!Packed, BP!Packed, Bits!Written, BP!Written, Bits!WholeOut,
           BP!WholeOut, Bits!Then, BP!Then, Bits!Padded, BP!Padded
  <1>5. BP!Arrives => Bits!Arrives
    BY DEF Bits!Arrives, BP!Arrives
  <1>6. BP!HoldsWhatWasRead => Bits!HoldsWhatWasRead
    BY SameNumbers, <1>2 DEF Bits!HoldsWhatWasRead, BP!HoldsWhatWasRead
  <1>7. BP!HeaderIsAll => Bits!HeaderIsAll
    BY DEF Bits!HeaderIsAll, BP!HeaderIsAll, Bits!Wants, BP!Wants, Bits!Wanted, BP!Wanted,
           Bits!Buf_size, BP!Buf_size
  <1>8. BP!NotTooFarBack => Bits!NotTooFarBack
    BY DEF Bits!NotTooFarBack, BP!NotTooFarBack, Bits!HasRun, BP!HasRun, Bits!Unused, BP!Unused
  <1> QED
    BY <1>1, <1>4, <1>5, <1>6, <1>7, <1>8

----------------------------------------------------------------------------
(***************************************************************************)
(* The parts together: each behaviour runs one of them.                    *)
(***************************************************************************)

svars == <<part, vars, crcVars, bitVars, copyVars>>

\* What a step does to each part
LEMMA PartSteps ==
  ASSUME [SNext]_svars
  PROVE  /\ [Next]_vars /\ [Crc!Next]_crcVars
         /\ Copy!Next \/ UNCHANGED copyVars
         /\ Bits!Next \/ UNCHANGED bitVars
  <1>1. CASE SNext
    <2>1. UNCHANGED part
      BY <1>1 DEF SNext
    <2>2. CASE Next /\ UNCHANGED <<crcVars, bitVars, copyVars>>
      BY <2>2
    <2>3. CASE Crc!Next /\ UNCHANGED <<vars, bitVars, copyVars>>
      BY <2>3
    <2>4. CASE Bits!Next /\ UNCHANGED <<vars, crcVars, copyVars>>
      BY <2>4
    <2>5. CASE Copy!Next /\ UNCHANGED <<vars, crcVars, bitVars>>
      BY <2>5
    <2> QED
      BY <1>1, <2>2, <2>3, <2>4, <2>5 DEF SNext
  <1>2. CASE UNCHANGED svars
    BY <1>2 DEF svars
  <1> QED
    BY <1>1, <1>2

\* adler32() and crc32() return the checksums of the whole text by their
\* definitions, however the text is cut into calls and a call into batches and
\* words.
THEOREM ChecksumsAreExact == SSpec => []ChecksAreExact
  <1> DEFINE Inv == AdlerInv /\ AdlerExact /\ CrcInv
  <1>1. SInit => Inv
    BY AdlerStarts, AdlerExactStarts, CrcStarts, SizeAssumption, BytesAssumption, StreamAssumption
       DEF SInit
  <1>2. Inv /\ [SNext]_svars => Inv'
    <2> SUFFICES ASSUME AdlerInv, AdlerExact, CrcInv, [SNext]_svars PROVE Inv'
      OBVIOUS
    <2>1. [Next]_vars /\ [Crc!Next]_crcVars
      BY PartSteps
    <2>2. AdlerInv'
      BY <2>1, AdlerInductive, SizeAssumption, BytesAssumption
    <2>3. AdlerExact'
      BY <2>1, AdlerExactKept, SizeAssumption, BytesAssumption
    <2>4. CrcInv'
      BY <2>1, CrcKept, StreamAssumption
    <2> QED
      BY <2>2, <2>3, <2>4
  <1>3. Inv => ChecksAreExact
    BY DEF AdlerInv, AdlerExact, CrcInv, ChecksAreExact, IsChecksum
  <1> QED
    BY <1>1, <1>2, <1>3, PTL DEF SSpec, svars

\* inflate()'s and inflate_fast()'s output is what the symbols of the stream
\* mean, and the window keeps its tail between calls, as long as the spans the
\* caller passes have less than 4 GiB.
THEOREM CopyingIsExact ==
  ASSUME Copy!SpansFit
  PROVE  SSpec => []CopiesAreExact
  <1>1. SInit => CP!IndInv
    BY SameInit, SameAssumptions, StreamAssumption, CP!InitInv DEF SInit
  <1>2. CP!IndInv /\ [SNext]_svars => CP!IndInv'
    <2> SUFFICES ASSUME CP!IndInv, [SNext]_svars PROVE CP!IndInv'
      OBVIOUS
    <2>1. CP!SizeAssumption /\ CP!LengthsAssumption /\ CP!SpansAssumption /\ CP!SpansFit
      BY SameAssumptions, StreamAssumption
    <2>2. [CP!Next]_(CP!vars)
      BY PartSteps, SameNext DEF copyVars, CP!vars, CP!win, CP!loop
    <2> QED
      BY <2>1, <2>2, CP!Inductive
  <1>3. CP!IndInv => CopiesAreExact
    BY SameAssumptions, StreamAssumption, SameProperties, CP!Implied DEF CopiesAreExact
  <1> QED
    BY <1>1, <1>2, <1>3, PTL DEF SSpec, svars

\* Between send_bits() and its kin and inflate()'s and inflate_fast()'s reading
\* no bit is lost, doubled or moved, however writing and reading alternate, and
\* inflate_fast() gives back only bytes it has read itself.
THEOREM BitsAreExact == SSpec => []BitsArrive
  <1>1. SInit => BP!IndInv
    BY SameStart, SameItems, StreamAssumption, BP!Starts DEF SInit
  <1>2. BP!IndInv /\ [SNext]_svars => BP!IndInv'
    <2> SUFFICES ASSUME BP!IndInv, [SNext]_svars PROVE BP!IndInv'
      OBVIOUS
    <2>1. BP!SizeAssumption /\ BP!ItemsAssumption
      BY SameItems, StreamAssumption
    <2>2. [BP!Next]_(BP!vars)
      BY PartSteps, SameSteps DEF bitVars, BP!vars, BP!encoder, BP!decoder
    <2> QED
      BY <2>1, <2>2, BP!Steps
  <1>3. BP!IndInv => BitsArrive
    BY SameItems, StreamAssumption, SameBitProperties, BP!Implied DEF BitsArrive
  <1> QED
    BY <1>1, <1>2, <1>3, PTL DEF SSpec, svars

=============================================================================
