-------------------------- MODULE OtherCodecsProofs --------------------------
(***************************************************************************)
(* What the wrappers of bzip2, lzma and zstd and the loops over them rely  *)
(* on from one call to the next, as inductive invariants of the two parts, *)
(* and the theorems of OtherCodecs that follow.  They hold for all sizes   *)
(* of chunks and pieces that a bz_stream can count.                        *)
(***************************************************************************)
EXTENDS OtherCodecs, Sequences, TLAPS

LEMMA Zeros == \A n \in Nat : 0 \in 0 .. n
OBVIOUS

LEMMA WholeMod ==
  ASSUME NEW a \in Nat, NEW b \in Nat, a < b
  PROVE  a % b = a
OBVIOUS

----------------------------------------------------------------------------
(***************************************************************************)
(* Compression.                                                            *)
(***************************************************************************)

\* A call that did not fill its span has read all its input, and the library
\* holds nothing back once it finishes; what was not read waits in avail_in,
\* and only while compress() runs.  A loop goes on only after a call that wrote,
\* so that its next call is not lzma's second in a row without progress.
CInv ==
  /\ C!TypeOK
  /\ size = wrote
  /\ given = taken + avail_in
  /\ op = "none" => avail_in = 0
  /\ op = "compress" /\ wrote # chunkSize => avail_in = 0
  /\ op \in {"flush", "closed"} => avail_in = 0
  /\ op = "closed" \/ (op = "flush" /\ wrote # chunkSize) =>
       stage = "ended" /\ held = 0
  /\ stalled => wrote = 0
  /\ C!LossIsKnown

\* What a call into the library does, whichever it is.
LEMMA CLibrary ==
  ASSUME SpansFit, C!TypeOK, NEW n \in Nat, NEW finish \in BOOLEAN,
         C!Library(n, finish)
  PROVE  /\ read' \in 0 .. n
         /\ wrote' \in 0 .. chunkSize /\ held' \in Nat
         /\ read' < n => wrote' = chunkSize
         /\ wrote' # chunkSize => held' = 0
         /\ total' = total
         /\ stalled' \in BOOLEAN /\ (stalled' => wrote' = 0)
         /\ taken' = taken + read'
         /\ ~finish => stage' = stage
         /\ finish /\ read' = n /\ held' = 0 => stage' = "ended"
         /\ finish => stage' \in {"flushing", "ended"}
         /\ finish /\ held' > 0 => stage' = "flushing"
<1> DEFINE Made == IF finish THEN C!Ending ELSE 0 .. Yield
<1>1. chunkSize \in Nat /\ C!Width(chunkSize) = chunkSize
  BY CodecsAssumption, WholeMod
  DEF C!ChunkAssumption, C!TypeOK, SpansFit, C!Width
<1>2. Made \subseteq Nat
  BY CodecsAssumption DEF C!ChunkAssumption, C!Ending, C!TypeOK
<1>3. held \in Nat /\ codec # "brotli" /\ taken \in Nat
  BY CodecsAssumption DEF C!TypeOK, Wrapped, C!ChunkAssumption
<1> HIDE DEF Made
<1>4. PICK k \in 0 .. n, more \in Made :
        /\ wrote' = C!Smaller(held + more, C!Width(chunkSize))
        /\ k < n => wrote' = C!Width(chunkSize)
        /\ read' = k
        /\ held' = (held + more) - wrote'
        /\ total' = IF codec = "brotli" THEN total + wrote' ELSE total
        /\ stage' = CASE ~finish -> stage
                      [] finish /\ (held' > 0 \/ k < n) -> "flushing"
                      [] OTHER -> "ended"
        /\ stalled' = (codec = "lzma" /\ k = 0 /\ wrote' = 0 /\ stage' # "ended")
        /\ taken' = taken + k
  BY Zenon DEF C!Library, Made
<1>5. more \in Nat
  BY <1>2, <1>4
<1>6. /\ wrote' \in 0 .. chunkSize /\ held' \in Nat
      /\ wrote' # chunkSize => held' = 0
      /\ read' < n => wrote' = chunkSize
      /\ total' = total
  BY <1>1, <1>3, <1>4, <1>5 DEF C!Smaller
<1>7. /\ ~finish => stage' = stage
      /\ finish /\ read' = n /\ held' = 0 => stage' = "ended"
      /\ finish => stage' \in {"flushing", "ended"}
      /\ finish /\ held' > 0 => stage' = "flushing"
  BY <1>4
<1>8. stalled' \in BOOLEAN /\ (stalled' => wrote' = 0)
  BY <1>4
<1>9. QED
  BY <1>4, <1>6, <1>7, <1>8

\* A compress(in, out) keeps the invariant.
LEMMA CCompressInv ==
  ASSUME SpansFit, CInv, NEW n \in Nat, n < UINT32, C!compress(n),
         NEW before \in BOOLEAN, C!Inserted(before),
         \/ op = "none" /\ ~before /\ given + n <= MaxIn /\ given' = given + n
         \/ op = "compress" /\ C!Filled /\ n = 0 /\ given' = given
  PROVE  CInv'
<1>1. /\ C!TypeOK /\ MaxIn \in Nat /\ chunkSize \in Nat \ {0} /\ UINT32 \in Nat
      /\ chunkSize' = chunkSize
  BY CodecsAssumption DEF CInv, C!ChunkAssumption, C!TypeOK, C!compress
<1>2. /\ avail_in \in Nat /\ given \in Nat /\ taken \in Nat
      /\ given <= MaxIn /\ given = taken + avail_in
      /\ codec # "brotli" /\ codec' = codec
  BY <1>1 DEF CInv, C!TypeOK, Wrapped, C!compress
<1> DEFINE m == C!Offered(n)
<1>3. m \in Nat /\ given' = taken + m /\ given' \in 0 .. MaxIn
  BY <1>1, <1>2, WholeMod DEF C!Offered, C!Width, CInv
<1> HIDE DEF m
<1>4. C!Library(m, FALSE) /\ avail_in' = m - read' /\ size' = C!Returned
  BY DEF C!compress, C!Unread, m
<1>5. /\ read' \in 0 .. m
      /\ wrote' \in 0 .. chunkSize /\ held' \in Nat
      /\ read' < m => wrote' = chunkSize
      /\ wrote' # chunkSize => held' = 0
      /\ total' = total
      /\ stalled' \in BOOLEAN /\ (stalled' => wrote' = 0)
      /\ taken' = taken + read'
      /\ stage' = stage
  BY <1>1, <1>3, <1>4, CLibrary
<1>15. PICK k \in 0 .. m : read' = k /\ avail_in' = m - k /\ taken' = taken + k
  BY <1>4, <1>5
<1>6. size' = wrote'
  BY <1>2, <1>4 DEF C!Returned
<1>7. /\ avail_in' \in 0 .. MaxIn /\ read' \in 0 .. MaxIn
      /\ given' = taken' + avail_in' /\ taken' \in 0 .. given'
  <2>1. m <= MaxIn /\ taken + k <= taken + m
    BY <1>1, <1>2, <1>3
  <2>2. m = k + (m - k) /\ taken + m = (taken + k) + (m - k)
    BY <1>2, <1>3
  <2>3. QED
    BY <1>1, <1>2, <1>3, <1>15, <2>1, <2>2
<1>8. op' \in {"compress", "abort"}
  BY DEF C!compress
<1>9. op' = "abort" => read' = 0 /\ wrote' = 0
  BY DEF C!compress, C!Refused, C!Error, C!Idle
<1>10. C!TypeOK'
  <2>1. /\ codec' \in Wrapped /\ chunkSize' \in Chunks /\ collected' \in BOOLEAN
        /\ stage' \in {"run", "flushing", "ended"}
    BY <1>1, <1>2, <1>5 DEF C!TypeOK, C!Inserted
  <2>2. size' \in Nat /\ total' \in Nat
    BY <1>1, <1>5, <1>6 DEF C!TypeOK
  <2>3. wrote' \in 0 .. chunkSize' /\ op' \in {"compress", "abort"}
    BY <1>1, <1>5, <1>8
  <2>4. QED
    BY <1>3, <1>5, <1>7, <2>1, <2>2, <2>3 DEF C!TypeOK
<1>11. C!LossIsKnown'
  <2>1. op' = "abort" => avail_in' = 0 /\ held' = 0 /\ wrote' = 0
    BY <1>1, <1>3, <1>4, <1>5, <1>9
  <2>2. C!Lost' => op' = "abort" /\ op = "compress" /\ C!Filled
    <3>1. op' = "abort" /\ collected' => before
      BY Zenon DEF C!Inserted
    <3>2. C!Lost' => op' = "abort" /\ collected'
      BY <1>8, <1>9 DEF C!Lost
    <3>3. QED
      BY <3>1, <3>2
  <2>3. op = "compress" /\ C!Filled => ~stalled
    BY <1>1 DEF CInv, C!Filled
  <2>4. op' = "abort" /\ ~stalled => codec = "bzip2"
    BY DEF C!compress, C!Refused, C!Error
  <2>5. QED
    BY <1>2, <1>8, <2>1, <2>2, <2>3, <2>4 DEF C!LossIsKnown
<1>12. op' = "compress" /\ wrote' # chunkSize' => avail_in' = 0
  BY <1>1, <1>3, <1>5, <1>15
<1>13. QED
  BY <1>5, <1>6, <1>7, <1>8, <1>10, <1>11, <1>12 DEF CInv

\* So does a flush(out), which finds nothing unread.
LEMMA CFlushInv ==
  ASSUME SpansFit, CInv, C!flush,
         NEW before \in BOOLEAN, C!Inserted(before),
         (op = "none" /\ ~before) \/ (op = "flush" /\ C!Filled)
  PROVE  CInv'
<1>1. /\ C!TypeOK /\ MaxIn \in Nat /\ chunkSize \in Nat \ {0} /\ avail_in = 0
      /\ chunkSize' = chunkSize
  BY CodecsAssumption DEF CInv, C!ChunkAssumption, C!TypeOK, C!flush
<1>2. /\ given \in 0 .. MaxIn /\ given' = given /\ taken = given
      /\ codec \in Wrapped /\ codec' = codec
  BY <1>1 DEF CInv, C!TypeOK, C!flush
<1>3. codec # "brotli"
  BY <1>2 DEF Wrapped
<1>4. C!Library(0, TRUE) /\ avail_in' = 0 /\ size' = C!Returned
  BY <1>1, <1>3 DEF C!flush
<1>5. /\ read' = 0
      /\ wrote' \in 0 .. chunkSize /\ held' \in Nat
      /\ wrote' # chunkSize => held' = 0
      /\ total' = total
      /\ stalled' \in BOOLEAN /\ (stalled' => wrote' = 0)
      /\ taken' = taken
      /\ held' = 0 => stage' = "ended"
      /\ stage' \in {"flushing", "ended"}
      /\ held' > 0 => stage' = "flushing"
  <2>1. \A n \in Nat : n = 0 => C!Library(n, TRUE)
    BY <1>4
  <2>2. PICK n \in Nat : n = 0 /\ C!Library(n, TRUE)
    BY <2>1
  <2>3. /\ read' \in 0 .. n
        /\ wrote' \in 0 .. chunkSize /\ held' \in Nat
        /\ wrote' # chunkSize => held' = 0
        /\ total' = total
        /\ stalled' \in BOOLEAN /\ (stalled' => wrote' = 0)
        /\ taken' = taken + read'
        /\ read' = n /\ held' = 0 => stage' = "ended"
        /\ stage' \in {"flushing", "ended"}
        /\ held' > 0 => stage' = "flushing"
    BY <1>1, <2>2, CLibrary
  <2>4. taken \in Nat
    BY <1>1, <1>2
  <2>5. QED
    BY <2>2, <2>3, <2>4
<1>6. size' = wrote'
  BY <1>3, <1>4 DEF C!Returned
<1>7. op' \in {"flush", "abort", "threw"} /\ collected' \in BOOLEAN
  BY <1>1 DEF C!flush, C!Inserted, C!TypeOK
<1>8. op' = "threw" => codec = "zstd" /\ held' > 0
  BY DEF C!flush, C!Incomplete
<1>9. op' = "abort" => wrote' = 0 /\ held' = 0
  BY <1>1, <1>5 DEF C!flush, C!Refused, C!Error, C!Idle
<1>10. C!TypeOK'
  <2>1. codec' \in Wrapped /\ chunkSize' \in Chunks /\ read' \in 0 .. MaxIn
    BY <1>1, <1>2, <1>5, Zeros DEF C!TypeOK
  <2>2. QED
    BY <1>1, <1>2, <1>4, <1>5, <1>6, <1>7, <2>1 DEF C!TypeOK
<1>11. C!LossIsKnown'
  <2>1. op' = "threw" => stage' = "flushing" /\ held' > 0 /\ wrote' = chunkSize'
    BY <1>1, <1>5, <1>8
  <2>2. C!Lost' /\ op' = "abort" => op = "flush" /\ C!Filled
    <3>1. op' = "abort" /\ collected' => before
      BY Zenon DEF C!Inserted
    <3>2. C!Lost' /\ op' = "abort" => collected'
      BY <1>9 DEF C!Lost
    <3>3. QED
      BY <3>1, <3>2
  <2>3. op = "flush" /\ C!Filled => ~stalled
    BY <1>1 DEF CInv, C!Filled
  <2>4. op' = "abort" /\ ~stalled => codec = "bzip2"
    BY DEF C!flush, C!Refused, C!Error
  <2>5. C!Lost' => op' \in {"abort", "threw"}
    BY DEF C!Lost
  <2>6. QED
    BY <1>2, <1>4, <1>8, <1>9, <2>1, <2>2, <2>3, <2>4, <2>5 DEF C!LossIsKnown
<1>12. given' = taken' + avail_in'
  BY <1>2, <1>4, <1>5
<1>13. op' = "flush" /\ wrote' # chunkSize' => stage' = "ended" /\ held' = 0
  BY <1>1, <1>5
<1>14. QED
  BY <1>4, <1>5, <1>6, <1>7, <1>10, <1>11, <1>12, <1>13 DEF CInv

\* The start, every step, and the end of a method.
LEMMA CInitInv == C!Init => CInv
<1> SUFFICES ASSUME C!Init PROVE CInv
  OBVIOUS
<1>1. MaxIn \in Nat /\ chunkSize \in Nat /\ Header \in Nat /\ codec # "brotli"
  BY CodecsAssumption DEF C!ChunkAssumption, C!Init, Wrapped
<1>2. C!TypeOK
  <2>1. /\ codec \in Wrapped /\ chunkSize \in Chunks /\ stage = "run"
        /\ stalled = FALSE /\ collected = FALSE /\ op = "none"
    BY DEF C!Init
  <2>2. /\ avail_in = 0 /\ held \in Nat /\ total = 0 /\ read = 0 /\ wrote = 0
        /\ size = 0 /\ given = 0 /\ taken = 0
    BY <1>1 DEF C!Init
  <2>3. QED
    BY <1>1, <2>1, <2>2, Zeros DEF C!TypeOK
<1>3. QED
  BY <1>1, <1>2 DEF C!Init, CInv, C!LossIsKnown, C!Lost

LEMMA CStepInv == SpansFit /\ CInv /\ C!Next => CInv'
<1> SUFFICES ASSUME SpansFit, CInv, C!Next PROVE CInv'
  OBVIOUS
<1>1. UINT32 \in Nat \ {0} /\ Inputs \subseteq Nat
  BY CodecsAssumption DEF C!ChunkAssumption
<1>2. CASE C!BeginCompress
  BY <1>1, <1>2, CCompressInv, FALSE \in BOOLEAN DEF C!BeginCompress, SpansFit
<1>3. CASE C!CompressAgain
  BY <1>1, <1>3, CCompressInv DEF C!CompressAgain, CInv, C!TypeOK
<1>4. CASE C!CompressReturns \/ C!FlushReturns
  <2>1. /\ size = wrote /\ C!TypeOK
        /\ op' \in {"none", "closed"} /\ collected' = FALSE /\ wrote # chunkSize
        /\ UNCHANGED <<codec, chunkSize, avail_in, held, stage, stalled, total, read,
                       wrote, size, given, taken>>
    BY <1>4 DEF CInv, C!CompressReturns, C!FlushReturns, C!Returns, C!Filled
  <2>2. C!TypeOK' /\ C!LossIsKnown'
    BY <2>1 DEF C!TypeOK, C!LossIsKnown, C!Lost
  <2>3. CASE C!CompressReturns
    BY <2>1, <2>2, <2>3 DEF C!CompressReturns, C!Returns, CInv
  <2>4. CASE C!FlushReturns
    BY <2>1, <2>2, <2>4 DEF C!FlushReturns, C!Returns, CInv
  <2>5. QED
    BY <1>4, <2>3, <2>4
<1>5. CASE C!BeginFlush \/ C!FlushAgain
  BY <1>5, CFlushInv, FALSE \in BOOLEAN DEF C!BeginFlush, C!FlushAgain, CInv, C!TypeOK
<1>6. CASE C!Over
  BY <1>6 DEF C!Over, C!vars, CInv, C!TypeOK, C!LossIsKnown, C!Lost
<1>7. QED
  BY <1>2, <1>3, <1>4, <1>5, <1>6 DEF C!Next, C!Method

----------------------------------------------------------------------------
(***************************************************************************)
(* Decompression.                                                          *)
(***************************************************************************)

\* A call that did not fill its span has read what there is of the stream and
\* delivered it; once the end was reported there is nothing left of either.
DInv ==
  /\ D!TypeOK
  /\ size = wrote
  /\ in_used = taken
  /\ op \in {"none", "decompress", "abort", "threw"} => given = taken + avail_in
  /\ ended => taken = Stream /\ held = 0
  /\ op = "decompress" /\ wrote # chunkSize =>
       taken = D!Smaller(given, Stream) /\ held = 0
  /\ stalled => wrote = 0
  /\ D!NothingHeld /\ D!StreamIsTaken /\ D!LossIsKnown

LEMMA DLibrary ==
  ASSUME SpansFit, D!TypeOK, ended => taken = Stream /\ held = 0,
         NEW n \in Nat, D!Library(n)
  PROVE  \E k \in 0 .. n :
           /\ k <= Stream - taken
           /\ ended => k = 0 /\ wrote' = 0
           /\ wrote' \in 0 .. chunkSize /\ held' \in Nat
           /\ wrote' # chunkSize => held' = 0 /\ k = D!Smaller(n, Stream - taken)
           /\ total' = total
           /\ stalled' \in BOOLEAN /\ ended' \in BOOLEAN
           /\ stalled' => wrote' = 0
           /\ taken' = taken + k
           /\ ended' => taken' = Stream /\ held' = 0
           /\ ended => ended'
<1> DEFINE within == IF ended THEN 0 ELSE D!Smaller(n, Stream - taken)
<1>1. chunkSize \in Nat /\ D!Width(chunkSize) = chunkSize /\ Stream \in Nat /\ Yield \in Nat
  BY CodecsAssumption, WholeMod DEF D!SizeAssumption, D!TypeOK, SpansFit, D!Width
<1>2. /\ held \in Nat /\ codec # "brotli" /\ taken \in Nat /\ taken <= Stream
      /\ ended \in BOOLEAN
  BY <1>1 DEF D!TypeOK, Wrapped
<1>3. within \in 0 .. n /\ within <= Stream - taken
  BY <1>1, <1>2 DEF D!Smaller
<1>4. /\ ended => within = 0
      /\ ended \/ within = D!Smaller(n, Stream - taken)
  OBVIOUS
<1>5. PICK k \in 0 .. within, more \in 0 .. Yield :
        /\ k = 0 => more = 0
        /\ wrote' = D!Smaller(held + more, chunkSize)
        /\ k < within => wrote' = chunkSize
        /\ held' = (held + more) - wrote'
        /\ taken' = taken + k
        /\ total' = total
        /\ IF taken' = Stream /\ held' = 0
             THEN ended' \in {TRUE, ended \/ wrote' < chunkSize}
             ELSE ended' = FALSE
        /\ stalled' = (codec = "lzma" /\ k = 0 /\ wrote' = 0 /\ ~ended')
  BY <1>1, <1>2 DEF D!Library
<1> HIDE DEF within
<1>6. k \in 0 .. n /\ k <= Stream - taken
  BY <1>1, <1>2, <1>3, <1>5
<1>7. /\ wrote' \in 0 .. chunkSize /\ held' \in Nat
      /\ wrote' # chunkSize => held' = 0
      /\ ended => k = 0 /\ wrote' = 0
  BY <1>1, <1>2, <1>3, <1>4, <1>5 DEF D!Smaller
<1>8. wrote' # chunkSize => k = D!Smaller(n, Stream - taken)
  <2> SUFFICES ASSUME wrote' # chunkSize PROVE k = D!Smaller(n, Stream - taken)
    OBVIOUS
  <2>1. k = within
    BY <1>3, <1>5
  <2>2. ended => D!Smaller(n, Stream - taken) = 0
    BY <1>1, <1>2 DEF D!Smaller
  <2>3. QED
    BY <2>1, <2>2, <1>4
<1>9. /\ stalled' \in BOOLEAN /\ ended' \in BOOLEAN
      /\ stalled' => wrote' = 0
      /\ ended' => taken' = Stream /\ held' = 0
      /\ ended => ended'
  <2>1. ended' \in BOOLEAN /\ (ended' => taken' = Stream /\ held' = 0)
    BY <1>5
  <2>2. ended => taken' = Stream /\ held' = 0
    BY <1>1, <1>2, <1>5, <1>7
  <2>3. ended => ended'
    BY <2>2, <1>2, <1>5
  <2>4. QED
    BY <2>1, <2>3, <1>5
<1>10. QED
  BY <1>5, <1>6, <1>7, <1>8, <1>9

\* A decompress(in, out) keeps the invariant, whether it is accepted or not.
LEMMA DCallInv ==
  ASSUME SpansFit, DInv, NEW n \in Nat, n < UINT32, D!decompress(n),
         NEW before \in BOOLEAN, D!Inserted(before),
         \/ /\ op = "none" /\ ~before
            /\ given + n <= Stream + Beyond /\ given' = given + n
         \/ op = "decompress" /\ D!Filled /\ n = 0 /\ given' = given
  PROVE  DInv'
<1>1. /\ D!TypeOK /\ chunkSize \in Nat \ {0} /\ Stream \in Nat /\ Beyond \in Nat
      /\ UINT32 \in Nat
      /\ chunkSize' = chunkSize /\ chunkSize \in Chunks /\ collected' \in BOOLEAN
  BY CodecsAssumption DEF DInv, D!SizeAssumption, D!TypeOK, D!decompress, D!Inserted
<1>2. /\ avail_in \in Nat /\ given \in Nat /\ taken \in Nat /\ taken <= Stream
      /\ given = taken + avail_in /\ given' \in Nat /\ given' <= Stream + Beyond
      /\ codec \in Wrapped /\ codec' = codec /\ in_used = taken /\ size = wrote
      /\ given' = given + n
  <2>1. /\ avail_in \in Nat /\ given \in Nat /\ taken \in Nat /\ taken <= Stream
        /\ codec \in Wrapped /\ given <= Stream + Beyond
    BY <1>1 DEF D!TypeOK
  <2>2. /\ op \in {"none", "decompress"} => given = taken + avail_in
        /\ in_used = taken /\ size = wrote /\ codec' = codec
    BY DEF DInv, D!decompress
  <2>3. QED
    BY <1>1, <2>1, <2>2
<1>3. CASE D!MayOffer(n)
  <2> DEFINE m == D!Offered(n)
  <2>1. m \in Nat /\ given' = taken + m
    BY <1>1, <1>2, <1>3, WholeMod DEF D!Offered, D!MayOffer, D!Width
  <2> HIDE DEF m
  <2>2. /\ D!Library(m)
        /\ avail_in' = m - (taken' - taken)
        /\ in_used' = (in_used + m) - avail_in'
        /\ size' = D!Returned
        /\ op' = CASE D!Refused(m) /\ codec = "zstd" -> "threw"
                   [] D!Refused(m) /\ codec # "zstd" -> "abort"
                   [] OTHER -> "decompress"
    BY <1>3 DEF D!decompress, D!Used, m
  <2>3. PICK k \in 0 .. m :
           /\ k <= Stream - taken
           /\ ended => k = 0 /\ wrote' = 0
           /\ wrote' \in 0 .. chunkSize /\ held' \in Nat
           /\ wrote' # chunkSize => held' = 0 /\ k = D!Smaller(m, Stream - taken)
           /\ total' = total
           /\ stalled' \in BOOLEAN /\ ended' \in BOOLEAN
           /\ stalled' => wrote' = 0
           /\ taken' = taken + k
           /\ ended' => taken' = Stream /\ held' = 0
           /\ ended => ended'
    BY <1>1, <2>1, <2>2, DLibrary DEF DInv
  <2>4. /\ avail_in' = m - k /\ avail_in' \in 0 .. Stream + Beyond
        /\ taken' \in 0 .. Stream /\ given' = taken' + avail_in'
        /\ in_used' = taken'
    BY <1>1, <1>2, <2>1, <2>2, <2>3
  <2>5. size' = wrote'
    <3>1. codec # "brotli" /\ D!Width(chunkSize) = chunkSize
      BY <1>1, <1>2, WholeMod DEF Wrapped, SpansFit, D!Width
    <3>2. QED
      BY <1>1, <2>2, <2>3, <3>1 DEF D!Returned
  <2>6. op' \in {"decompress", "abort", "threw"}
    BY <2>2
  <2>7. D!TypeOK'
    BY <1>1, <1>2, <2>3, <2>4, <2>5, <2>6 DEF D!TypeOK
  <2>8. op' = "threw" => taken' = Stream /\ given' > Stream
    <3>1. op' = "threw" => ended /\ m > 0
      BY <2>2 DEF D!Refused, D!Error
    <3>2. ended => taken = Stream
      BY DEF DInv
    <3>3. QED
      BY <1>1, <1>2, <2>1, <2>3, <3>1, <3>2
  <2>9. op' = "abort" => held' = 0 /\ wrote' = 0
    <3>1. op' = "abort" => ended \/ stalled'
      BY <2>2 DEF D!Refused, D!Error
    <3>2. QED
      BY <1>1, <2>3, <3>1
  <2>10. wrote' # chunkSize' => taken' = D!Smaller(given', Stream) /\ held' = 0
    BY <1>1, <1>2, <2>1, <2>3 DEF D!Smaller
  <2>11. D!LossIsKnown'
    <3>1. op' \in {"abort", "threw"} => D!Refused(m)
      BY <2>2
    <3>2. D!Refused(m) => ended \/ stalled'
      BY DEF D!Refused, D!Error
    <3>3. D!Lost' => op = "decompress" /\ D!Filled
      <4>1. op' \in {"abort", "threw"} /\ collected' => before
        BY Zenon DEF D!Inserted
      <4>2. D!Lost' => op' \in {"abort", "threw"} /\ (collected' \/ wrote' > 0)
        BY <2>6 DEF D!Lost
      <4>3. op' \in {"abort", "threw"} => wrote' = 0
        BY <2>3, <3>1, <3>2
      <4>4. QED
        BY <4>1, <4>2, <4>3
    <3>4. op = "decompress" /\ D!Filled => ~stalled
      BY <1>1, <1>2 DEF DInv, D!Filled
    <3>5. D!Refused(m) /\ ~stalled => ended /\ codec \in {"bzip2", "zstd"}
      BY DEF D!Refused, D!Error
    <3>6. op' = "abort" => codec # "zstd"
      BY <2>2
    <3>7. op' = "threw" => codec = "zstd"
      BY <2>2
    <3>8. D!Lost' => op' \in {"abort", "threw"}
      BY <2>6 DEF D!Lost
    <3>9. QED
      BY <1>2, <2>3, <2>9, <3>1, <3>3, <3>4, <3>5, <3>6, <3>7, <3>8
      DEF D!LossIsKnown
  <2>12. D!NothingHeld' /\ D!StreamIsTaken'
    BY <2>6, <2>8 DEF D!NothingHeld, D!StreamIsTaken
  <2>13. QED
    BY <1>1, <2>3, <2>4, <2>5, <2>6, <2>7, <2>10, <2>11, <2>12 DEF DInv
<1>4. CASE ~D!MayOffer(n)
  <2>1. /\ op' = "terminate" /\ op = "none" /\ avail_in # 0 /\ n # 0
        /\ UNCHANGED <<avail_in, in_used, held, ended, stalled, total, wrote, size,
                       taken, codec>>
        /\ collected' = FALSE
    BY <1>4 DEF D!decompress, D!MayOffer, D!Inserted
  <2>2. taken = D!Smaller(given, Stream)
    BY <2>1 DEF DInv, D!NothingHeld
  <2>3. taken = Stream /\ given' > Stream
    BY <1>1, <1>2, <2>1, <2>2 DEF D!Smaller
  <2>4. D!TypeOK'
    BY <1>1, <1>2, <2>1 DEF D!TypeOK
  <2>5. D!NothingHeld' /\ D!StreamIsTaken' /\ D!LossIsKnown'
    BY <2>1, <2>3 DEF D!NothingHeld, D!StreamIsTaken, D!LossIsKnown, D!Lost
  <2>6. QED
    BY <2>1, <2>4, <2>5 DEF DInv
<1>5. QED
  BY <1>3, <1>4

LEMMA DInitInv == D!Init => DInv
<1> SUFFICES ASSUME D!Init PROVE DInv
  OBVIOUS
<1>1. /\ chunkSize \in Chunks /\ chunkSize \in Nat /\ collected = FALSE
      /\ Stream \in Nat /\ Beyond \in Nat
  BY CodecsAssumption DEF D!SizeAssumption, D!Init
<1>2. D!TypeOK
  <2>1. codec \in Wrapped /\ ended = FALSE /\ stalled = FALSE /\ op = "none"
    BY DEF D!Init
  <2>2. /\ avail_in = 0 /\ in_used = 0 /\ held = 0 /\ total = 0 /\ wrote = 0
        /\ size = 0 /\ given = 0 /\ taken = 0
    BY DEF D!Init
  <2>3. QED
    BY <1>1, <2>1, <2>2, Zeros, Stream + Beyond \in Nat DEF D!TypeOK
<1>3. D!NothingHeld /\ D!StreamIsTaken /\ D!LossIsKnown
  BY <1>1 DEF D!Init, D!NothingHeld, D!StreamIsTaken, D!LossIsKnown, D!Lost, D!Smaller
<1>4. QED
  BY <1>1, <1>2, <1>3 DEF D!Init, DInv

LEMMA DStepInv == SpansFit /\ DInv /\ D!Next => DInv'
<1> SUFFICES ASSUME SpansFit, DInv, D!Next PROVE DInv'
  OBVIOUS
<1>1. UINT32 \in Nat \ {0} /\ Blocks \subseteq Nat
  BY CodecsAssumption DEF D!SizeAssumption
<1>2. CASE D!BeginDecompress
  BY <1>1, <1>2, DCallInv, FALSE \in BOOLEAN DEF D!BeginDecompress, SpansFit
<1>3. CASE D!Again
  BY <1>1, <1>3, DCallInv DEF D!Again, DInv, D!TypeOK
<1>4. CASE D!Returns
  BY <1>4 DEF D!Returns, D!Filled, DInv, D!TypeOK, D!NothingHeld, D!StreamIsTaken,
              D!LossIsKnown, D!Lost
<1>5. CASE D!Over
  BY <1>5 DEF D!Over, D!vars, DInv, D!TypeOK, D!NothingHeld, D!StreamIsTaken,
              D!LossIsKnown, D!Lost
<1>6. QED
  BY <1>2, <1>3, <1>4, <1>5 DEF D!Next, D!Method

----------------------------------------------------------------------------
(***************************************************************************)
(* Sniffing.                                                               *)
(***************************************************************************)

\* The sample is the start of a stream of its format.
Bytes == Any \cup 0 .. 255

RInv ==
  /\ format \in R!Formats
  /\ stream \in R!Starts(format)
  /\ file \in Seq(Bytes) /\ Len(file) <= 4
  /\ \A i \in 1 .. Len(file) : file[i] = stream[i]

\* What is known of the first bytes of each format.
Starting ==
  /\ format = "gzip" => stream[1] = 31 /\ stream[2] = 139
  /\ format = "bzip2" => stream[1] = 66 /\ stream[2] = 90 /\ stream[3] = 104
  /\ format = "lzma" => /\ stream[1] = 253 /\ stream[2] = 55
                        /\ stream[3] = 122 /\ stream[4] = 88
  /\ format = "zstd" => /\ stream[1] = 40 /\ stream[2] = 181
                        /\ stream[3] = 47 /\ stream[4] = 253
  /\ format = "zlib" => /\ stream[1] \in 0 .. 255 /\ stream[2] \in 0 .. 255
                        /\ R!ZlibStart(stream[1], stream[2])
  /\ format = "deflate" => stream[1] \in 0 .. 255 /\ R!DeflateStart(stream[1])

LEMMA StreamStarts ==
  ASSUME format \in R!Formats, stream \in R!Starts(format)
  PROVE  Starting /\ stream[1] \in Bytes /\ stream[2] \in Bytes
                  /\ stream[3] \in Bytes /\ stream[4] \in Bytes
<1>1. CASE format = "gzip"
  <2>1. PICK x \in Any : stream = <<31, 139, 8, x>>
    BY <1>1 DEF R!Starts
  <2>2. QED
    BY <1>1, <2>1 DEF Starting, Bytes
<1>2. CASE format = "bzip2"
  <2>1. PICK x \in 49 .. 57 : stream = <<66, 90, 104, x>>
    BY <1>2 DEF R!Starts
  <2>2. QED
    BY <1>2, <2>1 DEF Starting, Bytes
<1>3. CASE format = "lzma"
  <2>1. stream = <<253, 55, 122, 88>>
    BY <1>3 DEF R!Starts
  <2>2. QED
    BY <1>3, <2>1 DEF Starting, Bytes
<1>4. CASE format = "zstd"
  <2>1. stream = <<40, 181, 47, 253>>
    BY <1>4 DEF R!Starts
  <2>2. QED
    BY <1>4, <2>1 DEF Starting, Bytes
<1>5. CASE format = "zlib"
  <2> DEFINE Pairs == {g \in (0 .. 255) \X (0 .. 255) : R!ZlibStart(g[1], g[2])}
  <2>1. PICK h \in Pairs, x \in Any, y \in Any : stream = <<h[1], h[2], x, y>>
    BY <1>5 DEF R!Starts
  <2>2. h[1] \in 0 .. 255 /\ h[2] \in 0 .. 255 /\ R!ZlibStart(h[1], h[2])
    OBVIOUS
  <2>3. QED
    BY <1>5, <2>1, <2>2 DEF Starting, Bytes
<1>6. CASE format = "deflate"
  <2>1. PICK b \in {n \in 0 .. 255 : R!DeflateStart(n)},
             x \in Any, y \in Any, z \in Any :
          stream = <<b, x, y, z>>
    BY <1>6 DEF R!Starts
  <2>2. QED
    BY <1>6, <2>1 DEF Starting, Bytes
<1>7. QED
  BY <1>1, <1>2, <1>3, <1>4, <1>5, <1>6 DEF R!Formats

LEMMA LengthBelow ==
  ASSUME NEW S, NEW s \in Seq(S), Len(s) < 4
  PROVE  Len(s) \in 0 .. 3
<1>1. \A n \in Nat : n < 4 => n \in 0 .. 3
  OBVIOUS
<1>2. Len(s) \in Nat
  OBVIOUS
<1>3. QED
  BY <1>1, <1>2

LEMMA LengthUpTo ==
  ASSUME NEW S, NEW s \in Seq(S), NEW n \in Nat, Len(s) <= n
  PROVE  Len(s) \in 0 .. n
OBVIOUS

LEMMA RInitInv == R!Init => RInv
BY DEF R!Init, RInv

LEMMA RStepInv == RInv /\ R!Next => RInv'
<1> SUFFICES ASSUME RInv, R!Next PROVE RInv'
  OBVIOUS
<1>1. CASE R!Read
  <2> DEFINE b == stream[Len(file) + 1]
  <2>1. file \in Seq(Bytes) /\ Len(file) \in 0 .. 3
    <3>1. file \in Seq(Bytes) /\ Len(file) < 4
      BY <1>1 DEF RInv, R!Read
    <3>2. QED
      BY <3>1, LengthBelow
  <2>2. b \in Bytes
    BY <2>1, StreamStarts DEF RInv
  <2>3. file' = Append(file, b) /\ stream' = stream /\ format' = format
    BY <1>1 DEF R!Read
  <2> HIDE DEF b
  <2>4. /\ file' \in Seq(Bytes) /\ Len(file') = Len(file) + 1
        /\ \A i \in 1 .. Len(file) : file'[i] = file[i]
        /\ file'[Len(file) + 1] = b
    BY <2>1, <2>2, <2>3
  <2>5. \A i \in 1 .. Len(file') : file'[i] = stream'[i]
    BY <2>1, <2>3, <2>4 DEF RInv, b
  <2>6. QED
    BY <2>1, <2>3, <2>4, <2>5 DEF RInv, Bytes
<1>2. CASE R!Over
  BY <1>2 DEF R!Over, R!vars, RInv
<1>3. QED
  BY <1>1, <1>2 DEF R!Next

\* A sample begins with a magic number when its bytes are that number's.
LEMMA BeginsWith ==
  ASSUME NEW S, NEW f \in Seq(S), NEW m \in Seq(S)
  PROVE  Len(f) >= Len(m) /\ SubSeq(f, 1, Len(m)) = m <=>
           Len(f) >= Len(m) /\ \A i \in 1 .. Len(m) : f[i] = m[i]
OBVIOUS

LEMMA Sniffed ==
  ASSUME RInv
  PROVE  /\ R!Begins(<<31, 139>>) <=>
              Len(file) >= 2 /\ stream[1] = 31 /\ stream[2] = 139
         /\ R!Begins(<<66, 90, 104>>) <=>
              Len(file) >= 3 /\ stream[1] = 66 /\ stream[2] = 90 /\ stream[3] = 104
         /\ R!Begins(<<253, 55, 122, 88>>) <=>
              /\ Len(file) >= 4 /\ stream[1] = 253 /\ stream[2] = 55
              /\ stream[3] = 122 /\ stream[4] = 88
         /\ R!Begins(<<40, 181, 47, 253>>) <=>
              /\ Len(file) >= 4 /\ stream[1] = 40 /\ stream[2] = 181
              /\ stream[3] = 47 /\ stream[4] = 253
         /\ R!LooksZlib <=> Len(file) >= 2 /\ R!HasZlibMethod(stream[1])
<1>1. /\ file \in Seq(Bytes) /\ Len(file) \in 0 .. 4
      /\ \A i \in 1 .. Len(file) : file[i] = stream[i]
  <2>1. file \in Seq(Bytes) /\ Len(file) <= 4
    BY DEF RInv
  <2>2. Len(file) \in 0 .. 4
    BY <2>1, LengthUpTo
  <2>3. \A i \in 1 .. Len(file) : file[i] = stream[i]
    BY DEF RInv
  <2>4. QED
    BY <2>1, <2>2, <2>3
<1>2. R!Begins(<<31, 139>>) <=>
        Len(file) >= 2 /\ stream[1] = 31 /\ stream[2] = 139
  <2> DEFINE m == <<31, 139>>
  <2>1. m \in Seq(Bytes) /\ Len(m) = 2 /\ m[1] = 31 /\ m[2] = 139
    BY DEF Bytes
  <2> HIDE DEF m
  <2>2. R!Begins(m) <=> Len(file) >= 2 /\ \A i \in 1 .. 2 : file[i] = m[i]
    BY <1>1, <2>1, BeginsWith DEF R!Begins
  <2>3. QED
    BY <1>1, <2>1, <2>2 DEF m
<1>3. R!Begins(<<66, 90, 104>>) <=>
        Len(file) >= 3 /\ stream[1] = 66 /\ stream[2] = 90 /\ stream[3] = 104
  <2> DEFINE m == <<66, 90, 104>>
  <2>1. m \in Seq(Bytes) /\ Len(m) = 3 /\ m[1] = 66 /\ m[2] = 90 /\ m[3] = 104
    BY DEF Bytes
  <2> HIDE DEF m
  <2>2. R!Begins(m) <=> Len(file) >= 3 /\ \A i \in 1 .. 3 : file[i] = m[i]
    BY <1>1, <2>1, BeginsWith DEF R!Begins
  <2>3. QED
    BY <1>1, <2>1, <2>2 DEF m
<1>4. R!Begins(<<253, 55, 122, 88>>) <=>
        /\ Len(file) >= 4 /\ stream[1] = 253 /\ stream[2] = 55
        /\ stream[3] = 122 /\ stream[4] = 88
  <2> DEFINE m == <<253, 55, 122, 88>>
  <2>1. /\ m \in Seq(Bytes) /\ Len(m) = 4
        /\ m[1] = 253 /\ m[2] = 55 /\ m[3] = 122 /\ m[4] = 88
    BY DEF Bytes
  <2> HIDE DEF m
  <2>2. R!Begins(m) <=> Len(file) >= 4 /\ \A i \in 1 .. 4 : file[i] = m[i]
    BY <1>1, <2>1, BeginsWith DEF R!Begins
  <2>3. QED
    BY <1>1, <2>1, <2>2 DEF m
<1>5. R!Begins(<<40, 181, 47, 253>>) <=>
        /\ Len(file) >= 4 /\ stream[1] = 40 /\ stream[2] = 181
        /\ stream[3] = 47 /\ stream[4] = 253
  <2> DEFINE m == <<40, 181, 47, 253>>
  <2>1. /\ m \in Seq(Bytes) /\ Len(m) = 4
        /\ m[1] = 40 /\ m[2] = 181 /\ m[3] = 47 /\ m[4] = 253
    BY DEF Bytes
  <2> HIDE DEF m
  <2>2. R!Begins(m) <=> Len(file) >= 4 /\ \A i \in 1 .. 4 : file[i] = m[i]
    BY <1>1, <2>1, BeginsWith DEF R!Begins
  <2>3. QED
    BY <1>1, <2>1, <2>2 DEF m
<1>6. R!LooksZlib <=> Len(file) >= 2 /\ R!HasZlibMethod(stream[1])
  BY <1>1 DEF R!LooksZlib
<1>7. QED
  BY <1>2, <1>3, <1>4, <1>5, <1>6

----------------------------------------------------------------------------
(***************************************************************************)
(* The three parts together.                                               *)
(***************************************************************************)

PartsInv ==
  /\ part = "compress" => CInv
  /\ part = "decompress" => DInv
  /\ part = "sniff" => RInv

LEMMA PartsInitInv == Init => PartsInv
BY CInitInv, DInitInv, RInitInv DEF Init, PartsInv

LEMMA PartsStepInv == SpansFit /\ PartsInv /\ [Next]_vars => PartsInv'
<1> SUFFICES ASSUME SpansFit, PartsInv, [Next]_vars PROVE PartsInv'
  OBVIOUS
<1>1. CASE Next
  BY <1>1, CStepInv, DStepInv, RStepInv DEF Next, PartsInv
<1>2. CASE UNCHANGED vars
  <2>1. CInv => CInv'
    BY <1>2 DEF vars, Both, COwn, CInv, C!TypeOK, C!LossIsKnown, C!Lost
  <2>2. DInv => DInv'
    BY <1>2
    DEF vars, Both, DOwn, DInv, D!TypeOK, D!NothingHeld, D!StreamIsTaken,
        D!LossIsKnown, D!Lost
  <2>3. RInv => RInv'
    BY <1>2 DEF vars, ROwn, RInv
  <2>4. QED
    BY <1>2, <2>1, <2>2, <2>3 DEF PartsInv, vars
<1>3. QED
  BY <1>1, <1>2

\* What the two parts (of bzip2, lzma and zstd) and the choice between the
\* decompressors rely on holds in every state, for all sizes of chunks, of one
\* byte and more, and of pieces that fit a uint32_t, and whatever the libraries
\* make ready at a time.
THEOREM PartsInvariance == SpansFit /\ Spec => []PartsInv
<1> SUFFICES ASSUME SpansFit PROVE Spec => []PartsInv
  OBVIOUS
<1>1. PartsInv /\ [Next]_vars => PartsInv'
  BY PartsStepInv
<1>2. QED
  BY <1>1, PartsInitInv, PTL DEF Spec

\* A span method returns exactly the bytes it wrote, and bytesUsed() counts
\* what the library has read.
THEOREM DeliversWhatIsWritten == SpansFit /\ Spec => []DeliveredIsWritten
<1>1. PartsInv => DeliveredIsWritten
  BY DEF PartsInv, CInv, DInv, DeliveredIsWritten, C!DeliveredIsWritten,
         D!DeliveredIsWritten, D!UsedIsRead
<1>2. QED
  BY <1>1, PartsInvariance, PTL

\* The loops of src/shared.cpp, which stop at the first span that is not full,
\* lose no input and no output in a method that returns.  One that fails loses
\* output only when bzip2, or zstd's decompress(), is asked on after its end or
\* for nothing, after a full span, or when the rest of a frame does not fit the
\* span of zstd's flush().
THEOREM LossesAreKnown == SpansFit /\ Spec => []OnlyKnownLosses
<1>1. PartsInv => OnlyKnownLosses
  <2>1. CInv => C!CompressReadsAll /\ C!ClosedIsWhole /\ C!LossIsKnown
    BY CodecsAssumption
    DEF CInv, C!CompressReadsAll, C!ClosedIsWhole, C!TypeOK, C!ChunkAssumption
  <2>2. QED
    BY <2>1 DEF PartsInv, DInv, OnlyKnownLosses
<1>2. QED
  BY <1>1, PartsInvariance, PTL

\* SniffDecompressor tells every format that has a header from four bytes; with
\* fewer its only wrong answer is zlib for two or three bytes of a zstd stream,
\* which it always gives; and it takes no raw stream for zlib's.
THEOREM SniffsRight == Spec => []HeadersAreTold
<1>1. RInv => R!HeadersAreTold /\ R!ZstdNeedsFour /\ R!DeflateIsNotZlib
  <2> SUFFICES ASSUME RInv
               PROVE  R!HeadersAreTold /\ R!ZstdNeedsFour /\ R!DeflateIsNotZlib
    OBVIOUS
  <2>1. Len(file) \in 0 .. 4 /\ format \in R!Formats
    <3>1. file \in Seq(Bytes) /\ Len(file) <= 4 /\ format \in R!Formats
      BY DEF RInv
    <3>2. QED
      BY <3>1, LengthUpTo
  <2>2. Starting
    BY StreamStarts DEF RInv
  <2> DEFINE Sniff == R!SniffDecompressor
  <2>3. CASE format = "gzip"
    <3>1. Sniff = IF Len(file) >= 2 THEN "gzip" ELSE "none"
      BY <2>1, <2>2, <2>3, Sniffed DEF Starting, R!SniffDecompressor, R!Magic
    <3>2. QED
      BY <2>1, <2>3, <3>1
      DEF R!HeadersAreTold, R!ZstdNeedsFour, R!DeflateIsNotZlib
  <2>4. CASE format = "bzip2"
    <3>1. ~R!HasZlibMethod(66)
      BY DEF R!HasZlibMethod
    <3>2. Sniff = IF Len(file) >= 3 THEN "bzip2" ELSE "none"
      BY <2>1, <2>2, <2>4, <3>1, Sniffed DEF Starting, R!SniffDecompressor, R!Magic
    <3>3. QED
      BY <2>1, <2>4, <3>2
      DEF R!HeadersAreTold, R!ZstdNeedsFour, R!DeflateIsNotZlib
  <2>5. CASE format = "lzma"
    <3>1. ~R!HasZlibMethod(253)
      BY DEF R!HasZlibMethod
    <3>2. Sniff = IF Len(file) >= 4 THEN "lzma" ELSE "none"
      BY <2>1, <2>2, <2>5, <3>1, Sniffed DEF Starting, R!SniffDecompressor, R!Magic
    <3>3. QED
      BY <2>1, <2>5, <3>2
      DEF R!HeadersAreTold, R!ZstdNeedsFour, R!DeflateIsNotZlib
  <2>6. CASE format = "zstd"
    <3>1. Sniff = IF Len(file) >= 4 THEN "zstd"
                  ELSE IF Len(file) >= 2 THEN "zlib" ELSE "none"
      <4>1. R!HasZlibMethod(40)
        BY DEF R!HasZlibMethod
      <4>2. QED
        BY <2>1, <2>2, <2>6, <4>1, Sniffed
        DEF Starting, R!SniffDecompressor, R!Magic
    <3>2. Len(file) \in 2 .. 3 <=> Len(file) >= 2 /\ ~(Len(file) >= 4)
      <4>1. \A i \in 0 .. 4 : i \in 2 .. 3 <=> i >= 2 /\ ~(i >= 4)
        OBVIOUS
      <4>2. QED
        BY <2>1, <4>1
    <3>3. QED
      BY <2>1, <2>6, <3>1, <3>2
      DEF R!HeadersAreTold, R!ZstdNeedsFour, R!DeflateIsNotZlib
  <2>7. CASE format = "zlib"
    <3>1. /\ R!HasZlibMethod(stream[1]) /\ stream[1] \notin {31, 66, 253}
          /\ ~(stream[1] = 40 /\ stream[2] = 181)
      BY <2>2, <2>7 DEF Starting, R!ZlibStart, R!HasZlibMethod
    <3>2. Sniff = IF Len(file) >= 2 THEN "zlib" ELSE "none"
      BY <2>1, <3>1, Sniffed DEF R!SniffDecompressor, R!Magic
    <3>3. QED
      BY <2>1, <2>7, <3>2
      DEF R!HeadersAreTold, R!ZstdNeedsFour, R!DeflateIsNotZlib
  <2>8. CASE format = "deflate"
    <3>1. ~R!HasZlibMethod(stream[1])
      BY <2>2, <2>8 DEF Starting, R!DeflateStart, R!HasZlibMethod
    <3>2. Sniff # "zlib"
      BY <3>1, Sniffed DEF R!SniffDecompressor, R!Magic
    <3>3. QED
      BY <2>8, <3>2 DEF R!HeadersAreTold, R!ZstdNeedsFour, R!DeflateIsNotZlib
  <2>9. QED
    BY <2>1, <2>3, <2>4, <2>5, <2>6, <2>7, <2>8 DEF R!Formats
<1> DEFINE Sniffing == part = "sniff" => RInv
<1>2. Init => Sniffing
  BY RInitInv DEF Init
<1>3. Sniffing /\ [Next]_vars => Sniffing'
  <2>1. ASSUME RInv, UNCHANGED vars PROVE RInv'
    BY <2>1 DEF vars, ROwn, RInv
  <2>2. QED
    BY <2>1, RStepInv DEF Next, vars
<1>4. Sniffing => HeadersAreTold
  BY <1>1 DEF HeadersAreTold
<1> HIDE DEF Sniffing
<1>5. QED
  BY <1>2, <1>3, <1>4, PTL DEF Spec

=============================================================================
