--------------------------- MODULE CompressorProofs ---------------------------
(***************************************************************************)
(* Proofs about Compressor and the engine beneath it, for every size of    *)
(* the window, the symbol buffer and the spans.                            *)
(*                                                                         *)
(* The engine: IndInv is inductive; each property of it is one of IndInv's *)
(* conjuncts or follows from it.  In the induction the properties need one *)
(* another: that no byte is lost needs the bound of the pending match,     *)
(* which needs the room in the window, and so on, and all of them need     *)
(* Phases, which ties the position in a call to the stream's status.       *)
(*                                                                         *)
(* The vector interface: it drops no input, its assertions hold, flush()   *)
(* delivers everything, and every step of it is a step the compression     *)
(* contract allows.  CallsInOrder adds to IndInv what the methods rely on  *)
(* from each other.                                                        *)
(***************************************************************************)
EXTENDS Compressor, TLAPS

----------------------------------------------------------------------------
(***************************************************************************)
(* The engine.                                                             *)
(***************************************************************************)

\* flush_pending leaves something pending only if it filled the output span.
LEMMA FlushPending ==
  ASSUME NEW p \in Nat, avail_out \in Nat, flush_pending(p)
  PROVE  /\ pending' \in Nat
         /\ avail_out' \in Nat
         /\ avail_out' # 0 => pending' = 0
BY DEF flush_pending, MIN

\* What the match search may find lies within the lookahead and within the
\* distance that stays in the window.
LEMMA FoundMatch ==
  ASSUME TypeOK, NEW found \in longest_match
  PROVE  /\ found.length \in MIN_MATCH - 1 .. MAX_MATCH
         /\ found.start \in Int
         /\ found.length >= MIN_MATCH =>
              /\ found.length <= lookahead
              /\ strstart - found.start \in 1 .. MAX_DIST
BY WindowAssumption
   DEF TypeOK, longest_match, MIN, MIN_MATCH, MAX_DIST, MIN_LOOKAHEAD

\* The state after construction satisfies the inductive invariant, also when
\* construction fails.
LEMMA InitInv == Init => IndInv
BY FormatAssumption, WindowAssumption, BufferAssumption
   DEF Init, IndInv, TypeOK, NoByteLost, BlockMatchesWindow,
       PendingMatchInWindow, WindowHasRoom, WellFormed, PendingEmptyInBody,
       RetryAccepted, TrailerCoversInput, EndMeansComplete,
       ShortOutputMeansDone, HeldBackIsShort, Phases, WindowBits, InitWrap,
       InitBits, deflateInit2, HeaderDue, HasWork, Z_NO_FLUSH, Z_FINISH,
       MIN_MATCH, MIN_LOOKAHEAD

\* A call of a span method keeps the inductive invariant: it only sets the
\* spans and the flush value, and flush() also discards the input not yet
\* read.
LEMMA CallerKeepsInv ==
  ASSUME IndInv, NEW n \in Nat, NEW m \in Nat, Compress(n, m) \/ Flush(m)
  PROVE  IndInv'
<1>1. CASE Compress(n, m)
  <2>1. TypeOK'
    BY <1>1 DEF IndInv, TypeOK, Compress, window, lazy, block
  <2>2. NoByteLost' /\ BlockMatchesWindow'
    BY <1>1 DEF IndInv, NoByteLost, BlockMatchesWindow, Compress, window,
       lazy, block
  <2>3. PendingMatchInWindow' /\ WindowHasRoom'
    BY <1>1 DEF IndInv, PendingMatchInWindow, WindowHasRoom, Compress, window,
       lazy
  <2>4. WellFormed' /\ Phases'
    BY <1>1 DEF IndInv, WellFormed, Phases, Compress, window, lazy,
       Z_NO_FLUSH, Z_FINISH, HeaderDue
  <2>5. PendingEmptyInBody' /\ RetryAccepted' /\ ShortOutputMeansDone'
    BY <1>1 DEF IndInv, PendingEmptyInBody, RetryAccepted,
       ShortOutputMeansDone, Compress
  <2>6. TrailerCoversInput' /\ EndMeansComplete'
    BY <1>1 DEF IndInv, TrailerCoversInput, EndMeansComplete, Compress, block
  <2>7. HeldBackIsShort'
    BY <1>1 DEF IndInv, HeldBackIsShort, Compress, window
  <2>8. QED
    BY <2>1, <2>2, <2>3, <2>4, <2>5, <2>6, <2>7 DEF IndInv
<1>2. CASE Flush(m)
  <2>1. TypeOK'
    BY <1>2 DEF IndInv, TypeOK, Flush, window, lazy, block
  <2>2. NoByteLost' /\ BlockMatchesWindow'
    BY <1>2 DEF IndInv, NoByteLost, BlockMatchesWindow, Flush, window, lazy,
       block
  <2>3. PendingMatchInWindow' /\ WindowHasRoom'
    BY <1>2 DEF IndInv, PendingMatchInWindow, WindowHasRoom, Flush, window,
       lazy
  <2>4. WellFormed' /\ Phases'
    BY <1>2 DEF IndInv, WellFormed, Phases, Flush, window, lazy, HeaderDue
  <2>5. PendingEmptyInBody' /\ RetryAccepted' /\ ShortOutputMeansDone'
    BY <1>2 DEF IndInv, PendingEmptyInBody, RetryAccepted,
       ShortOutputMeansDone, Flush
  <2>6. TrailerCoversInput' /\ EndMeansComplete'
    BY <1>2 DEF IndInv, TrailerCoversInput, EndMeansComplete, Flush, block
  <2>7. HeldBackIsShort'
    BY <1>2 DEF IndInv, HeldBackIsShort, Flush, window
  <2>8. QED
    BY <2>1, <2>2, <2>3, <2>4, <2>5, <2>6, <2>7 DEF IndInv
<1>3. QED
  BY <1>1, <1>2

\* The checks on entry to deflate() keep it, whether they turn the call away
\* or let it in, and so does delivering what the previous call left pending.
LEMMA EntryKeepsInv ==
  ASSUME IndInv, RejectFinished \/ RejectNoRoom \/ DrainPending \/
                 RejectUseless \/ Begin
  PROVE  IndInv'
<1>1. CASE RejectFinished
  <2>1. TypeOK'
    BY <1>1 DEF IndInv, TypeOK, RejectFinished, strm, window, lazy, block,
       Return
  <2>2. NoByteLost' /\ BlockMatchesWindow'
    BY <1>1 DEF IndInv, NoByteLost, BlockMatchesWindow, RejectFinished, strm,
       window, lazy, block
  <2>3. PendingMatchInWindow' /\ WindowHasRoom'
    BY <1>1 DEF IndInv, PendingMatchInWindow, WindowHasRoom, RejectFinished,
       window, lazy, Return
  <2>4. WellFormed' /\ Phases'
    BY <1>1 DEF IndInv, WellFormed, Phases, RejectFinished, window, lazy,
       Return, HeaderDue
  <2>5. PendingEmptyInBody' /\ RetryAccepted' /\ ShortOutputMeansDone'
    BY <1>1 DEF IndInv, PendingEmptyInBody, RetryAccepted,
       ShortOutputMeansDone, RejectFinished, Return
  <2>6. TrailerCoversInput' /\ EndMeansComplete'
    BY <1>1 DEF IndInv, TrailerCoversInput, EndMeansComplete, RejectFinished,
       strm, block, Return
  <2>7. HeldBackIsShort'
    BY <1>1 DEF IndInv, HeldBackIsShort, RejectFinished, window, Return
  <2>8. QED
    BY <2>1, <2>2, <2>3, <2>4, <2>5, <2>6, <2>7 DEF IndInv
<1>2. CASE RejectNoRoom
  <2>1. TypeOK'
    BY <1>2 DEF IndInv, TypeOK, RejectNoRoom, strm, window, lazy, block,
       Return
  <2>2. NoByteLost' /\ BlockMatchesWindow'
    BY <1>2 DEF IndInv, NoByteLost, BlockMatchesWindow, RejectNoRoom, strm,
       window, lazy, block
  <2>3. PendingMatchInWindow' /\ WindowHasRoom'
    BY <1>2 DEF IndInv, PendingMatchInWindow, WindowHasRoom, RejectNoRoom,
       window, lazy, Return
  <2>4. WellFormed' /\ Phases'
    BY <1>2 DEF IndInv, WellFormed, Phases, RejectNoRoom, strm, window, lazy,
       Return, HeaderDue
  <2>5. PendingEmptyInBody' /\ RetryAccepted' /\ ShortOutputMeansDone'
    BY <1>2 DEF IndInv, PendingEmptyInBody, RetryAccepted,
       ShortOutputMeansDone, RejectNoRoom, strm, Return
  <2>6. TrailerCoversInput' /\ EndMeansComplete'
    BY <1>2 DEF IndInv, TrailerCoversInput, EndMeansComplete, RejectNoRoom,
       strm, block, Return
  <2>7. HeldBackIsShort'
    BY <1>2 DEF IndInv, HeldBackIsShort, RejectNoRoom, window, Return
  <2>8. QED
    BY <2>1, <2>2, <2>3, <2>4, <2>5, <2>6, <2>7 DEF IndInv
<1>3. CASE DrainPending
  <2>1. TypeOK'
    BY <1>3, FlushPending DEF IndInv, TypeOK, DrainPending, window, lazy,
       block, Return
  <2>2. NoByteLost' /\ BlockMatchesWindow'
    BY <1>3 DEF IndInv, NoByteLost, BlockMatchesWindow, DrainPending, window,
       lazy, block
  <2>3. PendingMatchInWindow' /\ WindowHasRoom'
    BY <1>3 DEF IndInv, PendingMatchInWindow, WindowHasRoom, DrainPending,
       window, lazy, Return
  <2>4. WellFormed' /\ Phases'
    BY <1>3 DEF IndInv, WellFormed, Phases, DrainPending, window, lazy,
       Return, HeaderDue, Accepted
  <2>5. PendingEmptyInBody' /\ RetryAccepted' /\ ShortOutputMeansDone'
    BY <1>3, FlushPending DEF IndInv, TypeOK, PendingEmptyInBody,
       RetryAccepted, ShortOutputMeansDone, DrainPending, Return
  <2>6. TrailerCoversInput' /\ EndMeansComplete'
    BY <1>3 DEF IndInv, TrailerCoversInput, EndMeansComplete, DrainPending,
       block, Return
  <2>7. HeldBackIsShort'
    BY <1>3 DEF IndInv, HeldBackIsShort, DrainPending, TypeOK, window, Return
  <2>8. QED
    BY <2>1, <2>2, <2>3, <2>4, <2>5, <2>6, <2>7 DEF IndInv
<1>4. CASE RejectUseless
  <2>1. TypeOK'
    BY <1>4 DEF IndInv, TypeOK, RejectUseless, strm, window, lazy, block,
       Return
  <2>2. NoByteLost' /\ BlockMatchesWindow'
    BY <1>4 DEF IndInv, NoByteLost, BlockMatchesWindow, RejectUseless, strm,
       window, lazy, block
  <2>3. PendingMatchInWindow' /\ WindowHasRoom'
    BY <1>4 DEF IndInv, PendingMatchInWindow, WindowHasRoom, RejectUseless,
       window, lazy, Return
  <2>4. WellFormed' /\ Phases'
    BY <1>4 DEF IndInv, TypeOK, WellFormed, Phases, RejectUseless, strm,
       window, Return, HeaderDue, Accepted, Useless
  <2>5. PendingEmptyInBody' /\ RetryAccepted' /\ ShortOutputMeansDone'
    BY <1>4 DEF IndInv, PendingEmptyInBody, RetryAccepted,
       ShortOutputMeansDone, RejectUseless, strm, Accepted, Useless
  <2>6. TrailerCoversInput' /\ EndMeansComplete'
    BY <1>4 DEF IndInv, TrailerCoversInput, EndMeansComplete, RejectUseless,
       strm, block, Return
  <2>7. HeldBackIsShort'
    BY <1>4 DEF IndInv, HeldBackIsShort, RejectUseless, TypeOK, window,
       Accepted, Useless, RANK, Z_NO_FLUSH, Z_FINISH
  <2>8. QED
    BY <2>1, <2>2, <2>3, <2>4, <2>5, <2>6, <2>7 DEF IndInv
<1>5. CASE Begin
  <2>1. TypeOK'
    BY <1>5 DEF IndInv, TypeOK, Begin, strm, window, lazy, block
  <2>2. NoByteLost' /\ BlockMatchesWindow'
    BY <1>5 DEF IndInv, NoByteLost, BlockMatchesWindow, Begin, strm, window,
       lazy, block
  <2>3. PendingMatchInWindow' /\ WindowHasRoom'
    BY <1>5 DEF IndInv, PendingMatchInWindow, WindowHasRoom, Begin, window,
       lazy
  <2>4. WellFormed' /\ Phases'
    BY <1>5 DEF IndInv, TypeOK, WellFormed, Phases, Begin, strm, window, lazy,
       RANK, HeaderDue, Accepted, Useless
  <2>5. PendingEmptyInBody' /\ RetryAccepted' /\ ShortOutputMeansDone'
    BY <1>5 DEF IndInv, PendingEmptyInBody, RetryAccepted,
       ShortOutputMeansDone, Begin
  <2>6. TrailerCoversInput' /\ EndMeansComplete'
    BY <1>5 DEF IndInv, TrailerCoversInput, EndMeansComplete, Begin, strm,
       block
  <2>7. HeldBackIsShort'
    BY <1>5 DEF IndInv, HeldBackIsShort, Begin
  <2>8. QED
    BY <2>1, <2>2, <2>3, <2>4, <2>5, <2>6, <2>7 DEF IndInv
<1>6. QED
  BY <1>1, <1>2, <1>3, <1>4, <1>5

\* Writing the header and deciding whether there is work keep it.
LEMMA HeaderKeepsInv ==
  ASSUME IndInv, WriteHeader \/ Start
  PROVE  IndInv'
<1>1. CASE WriteHeader
  <2>1. TypeOK'
    BY <1>1, FlushPending DEF IndInv, TypeOK, WriteHeader, window, lazy,
       block, Return, Put, HeaderLen
  <2>2. NoByteLost' /\ BlockMatchesWindow'
    BY <1>1 DEF IndInv, NoByteLost, BlockMatchesWindow, WriteHeader, window,
       lazy, block
  <2>3. PendingMatchInWindow' /\ WindowHasRoom'
    BY <1>1 DEF IndInv, PendingMatchInWindow, WindowHasRoom, WriteHeader,
       window, lazy, Return
  <2>4. WellFormed' /\ Phases'
    BY <1>1 DEF IndInv, WellFormed, Phases, WriteHeader, Z_NO_FLUSH, Z_FINISH,
       Return, Put, Follows, HeaderDue, HasWork
  <2>5. PendingEmptyInBody' /\ RetryAccepted' /\ ShortOutputMeansDone'
    BY <1>1, FlushPending DEF IndInv, TypeOK, PendingEmptyInBody,
       RetryAccepted, ShortOutputMeansDone, WriteHeader, Return, HeaderLen
  <2>6. TrailerCoversInput' /\ EndMeansComplete'
    BY <1>1 DEF IndInv, TrailerCoversInput, EndMeansComplete, WriteHeader,
       Return, Put
  <2>7. HeldBackIsShort'
    BY <1>1 DEF IndInv, HeldBackIsShort, WriteHeader, Return, window
  <2>8. QED
    BY <2>1, <2>2, <2>3, <2>4, <2>5, <2>6, <2>7 DEF IndInv
<1>2. CASE Start
  <2>1. TypeOK'
    BY <1>2 DEF IndInv, TypeOK, Start, strm, window, lazy, block
  <2>2. NoByteLost' /\ BlockMatchesWindow'
    BY <1>2 DEF IndInv, NoByteLost, BlockMatchesWindow, Start, strm, window,
       lazy, block
  <2>3. PendingMatchInWindow' /\ WindowHasRoom'
    BY <1>2 DEF IndInv, PendingMatchInWindow, WindowHasRoom, Start, window,
       lazy
  <2>4. WellFormed' /\ Phases'
    BY <1>2 DEF IndInv, TypeOK, WellFormed, Phases, Start, strm, window, lazy,
       HeaderDue, HasWork
  <2>5. PendingEmptyInBody' /\ RetryAccepted' /\ ShortOutputMeansDone'
    BY <1>2 DEF IndInv, PendingEmptyInBody, RetryAccepted,
       ShortOutputMeansDone, Start
  <2>6. TrailerCoversInput' /\ EndMeansComplete'
    BY <1>2 DEF IndInv, TrailerCoversInput, EndMeansComplete, Start, strm,
       block
  <2>7. HeldBackIsShort'
    BY <1>2 DEF IndInv, HeldBackIsShort, Start
  <2>8. QED
    BY <2>1, <2>2, <2>3, <2>4, <2>5, <2>6, <2>7 DEF IndInv
<1>3. QED
  BY <1>1, <1>2

\* Ending a call and writing the trailer keep it; when the trailer is written,
\* nothing is left between the input read and the finished blocks.
LEMMA TrailerKeepsInv ==
  ASSUME IndInv, End \/ WriteTrailer
  PROVE  IndInv'
<1>1. CASE End
  <2>1. TypeOK'
    BY <1>1 DEF IndInv, TypeOK, End, strm, window, lazy, block, Return
  <2>2. NoByteLost' /\ BlockMatchesWindow'
    BY <1>1 DEF IndInv, NoByteLost, BlockMatchesWindow, End, strm, window,
       lazy, block
  <2>3. PendingMatchInWindow' /\ WindowHasRoom'
    BY <1>1 DEF IndInv, PendingMatchInWindow, WindowHasRoom, End, window,
       lazy, Return
  <2>4. WellFormed' /\ Phases'
    BY <1>1 DEF IndInv, WellFormed, Phases, End, strm, window, lazy, Return,
       HeaderDue
  <2>5. PendingEmptyInBody' /\ RetryAccepted' /\ ShortOutputMeansDone'
    BY <1>1 DEF IndInv, PendingEmptyInBody, RetryAccepted,
       ShortOutputMeansDone, Phases, End, strm, Return, HasWork
  <2>6. TrailerCoversInput' /\ EndMeansComplete'
    BY <1>1 DEF IndInv, TypeOK, PendingEmptyInBody, TrailerCoversInput,
       EndMeansComplete, Phases, End, strm, block, Return
  <2>7. HeldBackIsShort'
    BY <1>1, WindowAssumption DEF IndInv, HeldBackIsShort, End, TypeOK,
       Phases, HasWork, window, MIN_LOOKAHEAD, MIN_MATCH
  <2>8. QED
    BY <2>1, <2>2, <2>3, <2>4, <2>5, <2>6, <2>7 DEF IndInv
<1>2. CASE WriteTrailer
  <2>1. TypeOK'
    BY <1>2, FlushPending DEF IndInv, TypeOK, WriteTrailer, window, lazy,
       block, Return, Put, TrailerLen, TrailerResult
  <2>2. NoByteLost' /\ BlockMatchesWindow'
    BY <1>2 DEF IndInv, NoByteLost, BlockMatchesWindow, WriteTrailer, window,
       lazy, block
  <2>3. PendingMatchInWindow' /\ WindowHasRoom'
    BY <1>2 DEF IndInv, PendingMatchInWindow, WindowHasRoom, WriteTrailer,
       window, lazy, Return
  <2>4. WellFormed' /\ Phases'
    BY <1>2 DEF IndInv, TypeOK, WellFormed, Phases, WriteTrailer, window,
       lazy, Z_NO_FLUSH, Z_FINISH, Return, Put, Follows, HeaderDue, HasWork
  <2>5. PendingEmptyInBody' /\ RetryAccepted' /\ ShortOutputMeansDone'
    BY <1>2, FlushPending DEF IndInv, TypeOK, PendingEmptyInBody,
       RetryAccepted, ShortOutputMeansDone, Phases, WriteTrailer, Return,
       TrailerLen, TrailerResult
  <2>6. TrailerCoversInput' /\ EndMeansComplete'
    BY <1>2 DEF IndInv, TypeOK, NoByteLost, TrailerCoversInput,
       EndMeansComplete, Phases, WriteTrailer, block, Z_NO_FLUSH, Z_FINISH,
       Return, Put, Follows, HasWork, TrailerResult
  <2>7. HeldBackIsShort'
    BY <1>2, WindowAssumption DEF IndInv, HeldBackIsShort, WriteTrailer,
       TypeOK, Phases, HasWork, window, MIN_LOOKAHEAD, MIN_MATCH
  <2>8. QED
    BY <2>1, <2>2, <2>3, <2>4, <2>5, <2>6, <2>7 DEF IndInv
<1>3. QED
  BY <1>1, <1>2

\* Sliding and filling the window keeps it: every position that matters moves
\* by the same distance, and one round reads until a match has room and data
\* or the input is exhausted.
LEMMA FillWindowKeepsInv ==
  ASSUME IndInv, FillWindow
  PROVE  IndInv'
<1>1. CASE FillWindow
  <2>1. TypeOK'
    BY <1>1, WindowAssumption DEF IndInv, TypeOK, FillWindow, block, MIN,
       MIN_MATCH, MIN_LOOKAHEAD, MAX_DIST, WindowFull, SlideBy
  <2>2. NoByteLost' /\ BlockMatchesWindow'
    BY <1>1, WindowAssumption DEF IndInv, TypeOK, NoByteLost,
       BlockMatchesWindow, FillWindow, block, MIN, SlideBy
  <2>3. PendingMatchInWindow' /\ WindowHasRoom'
    BY <1>1, WindowAssumption DEF IndInv, TypeOK, PendingMatchInWindow,
       WindowHasRoom, FillWindow, MIN, MIN_MATCH, MIN_LOOKAHEAD, MAX_DIST,
       WindowFull, SlideBy
  <2>4. WellFormed' /\ Phases'
    BY <1>1, WindowAssumption DEF IndInv, TypeOK, WindowHasRoom, WellFormed,
       Phases, FillWindow, MIN, HeaderDue
  <2>5. PendingEmptyInBody' /\ RetryAccepted' /\ ShortOutputMeansDone'
    BY <1>1 DEF IndInv, PendingEmptyInBody, RetryAccepted,
       ShortOutputMeansDone, FillWindow
  <2>6. TrailerCoversInput' /\ EndMeansComplete'
    BY <1>1 DEF IndInv, TrailerCoversInput, EndMeansComplete, Phases,
       FillWindow
  <2>7. HeldBackIsShort'
    BY <1>1 DEF IndInv, HeldBackIsShort, FillWindow
  <2>8. QED
    BY <2>1, <2>2, <2>3, <2>4, <2>5, <2>6, <2>7 DEF IndInv
<1>2. QED
  BY <1>1

\* A round of deflate_slow keeps it, whether it codes the previous match,
\* codes the waiting byte, lets one wait, gives up for want of input, or ends
\* the stream.
LEMMA MatchingKeepsInv ==
  ASSUME IndInv, Starved \/ EmitMatch \/ EmitLiteral \/ DeferLiteral \/
                 FinishBlock
  PROVE  IndInv'
<1>1. CASE Starved
  <2>1. TypeOK'
    BY <1>1 DEF IndInv, TypeOK, Starved, strm, window, lazy, block, Return
  <2>2. NoByteLost' /\ BlockMatchesWindow'
    BY <1>1 DEF IndInv, NoByteLost, BlockMatchesWindow, Starved, strm, window,
       lazy, block
  <2>3. PendingMatchInWindow' /\ WindowHasRoom'
    BY <1>1 DEF IndInv, PendingMatchInWindow, WindowHasRoom, Starved, strm,
       window, lazy
  <2>4. WellFormed' /\ Phases'
    BY <1>1 DEF IndInv, WellFormed, Phases, Starved, Z_NO_FLUSH, Z_FINISH,
       Return, HeaderDue, Starving
  <2>5. PendingEmptyInBody' /\ RetryAccepted' /\ ShortOutputMeansDone'
    BY <1>1, WindowAssumption DEF IndInv, TypeOK, WindowHasRoom,
       PendingEmptyInBody, RetryAccepted, ShortOutputMeansDone, Starved, strm,
       Z_NO_FLUSH, Z_FINISH, MIN_MATCH, MIN_LOOKAHEAD, Starving
  <2>6. TrailerCoversInput' /\ EndMeansComplete'
    BY <1>1 DEF IndInv, TrailerCoversInput, EndMeansComplete, Phases, Starved,
       Return
  <2>7. HeldBackIsShort'
    BY <1>1 DEF IndInv, HeldBackIsShort, Starved, window, Starving
  <2>8. QED
    BY <2>1, <2>2, <2>3, <2>4, <2>5, <2>6, <2>7 DEF IndInv
<1>2. CASE EmitMatch
  <2>1. TypeOK'
    BY <1>2, WindowAssumption, BufferAssumption, FlushPending, FoundMatch DEF
       IndInv, TypeOK, BlockMatchesWindow, PendingMatchInWindow,
       WindowHasRoom, EmitMatch, output, MIN_MATCH, Return, Put, NeedMore,
       LastSymbol, FLUSH_BLOCK_ONLY, Tally
  <2>2. NoByteLost' /\ BlockMatchesWindow'
    BY <1>2 DEF IndInv, TypeOK, NoByteLost, BlockMatchesWindow,
       PendingMatchInWindow, EmitMatch, FLUSH_BLOCK_ONLY, Tally
  <2>3. PendingMatchInWindow' /\ WindowHasRoom'
    BY <1>2 DEF IndInv, TypeOK, PendingMatchInWindow, WindowHasRoom,
       EmitMatch, MIN_MATCH, Return, NeedMore
  <2>4. WellFormed' /\ Phases'
    BY <1>2 DEF IndInv, WellFormed, Phases, EmitMatch, Return, Put, Follows,
       HeaderDue, NeedMore, Ready, FLUSH_BLOCK_ONLY, Tally
  <2>5. PendingEmptyInBody' /\ RetryAccepted' /\ ShortOutputMeansDone'
    BY <1>2, FlushPending DEF IndInv, TypeOK, PendingEmptyInBody,
       RetryAccepted, ShortOutputMeansDone, EmitMatch, output, Return,
       NeedMore, Ready, FLUSH_BLOCK_ONLY, Tally
  <2>6. TrailerCoversInput' /\ EndMeansComplete'
    BY <1>2 DEF IndInv, TrailerCoversInput, EndMeansComplete, EmitMatch,
       Return, Put, NeedMore, FLUSH_BLOCK_ONLY, Tally
  <2>7. HeldBackIsShort'
    BY <1>2 DEF IndInv, HeldBackIsShort, EmitMatch, Ready, NeedMore
  <2>8. QED
    BY <2>1, <2>2, <2>3, <2>4, <2>5, <2>6, <2>7 DEF IndInv
<1>3. CASE EmitLiteral
  <2>1. TypeOK'
    BY <1>3, WindowAssumption, BufferAssumption, FlushPending, FoundMatch DEF
       IndInv, TypeOK, BlockMatchesWindow, WindowHasRoom, EmitLiteral, output,
       MIN_MATCH, MIN_LOOKAHEAD, Return, Put, NeedMore, Ready, LastSymbol,
       FLUSH_BLOCK_ONLY, Tally, LiteralEnd
  <2>2. NoByteLost' /\ BlockMatchesWindow'
    BY <1>3 DEF IndInv, TypeOK, NoByteLost, BlockMatchesWindow, EmitLiteral,
       FLUSH_BLOCK_ONLY, Tally, LiteralEnd
  <2>3. PendingMatchInWindow' /\ WindowHasRoom'
    BY <1>3, WindowAssumption, FoundMatch DEF IndInv, TypeOK,
       PendingMatchInWindow, WindowHasRoom, EmitLiteral, MIN_MATCH, Return,
       NeedMore
  <2>4. WellFormed' /\ Phases'
    BY <1>3 DEF IndInv, WellFormed, Phases, EmitLiteral, Return, Put, Follows,
       HeaderDue, NeedMore, Ready, FLUSH_BLOCK_ONLY, Tally
  <2>5. PendingEmptyInBody' /\ RetryAccepted' /\ ShortOutputMeansDone'
    BY <1>3, FlushPending DEF IndInv, TypeOK, PendingEmptyInBody,
       RetryAccepted, ShortOutputMeansDone, EmitLiteral, output, Return,
       NeedMore, Ready, FLUSH_BLOCK_ONLY, Tally
  <2>6. TrailerCoversInput' /\ EndMeansComplete'
    BY <1>3 DEF IndInv, TrailerCoversInput, EndMeansComplete, EmitLiteral,
       Return, Put, NeedMore, FLUSH_BLOCK_ONLY, Tally
  <2>7. HeldBackIsShort'
    BY <1>3 DEF IndInv, HeldBackIsShort, EmitLiteral, Ready, NeedMore
  <2>8. QED
    BY <2>1, <2>2, <2>3, <2>4, <2>5, <2>6, <2>7 DEF IndInv
<1>4. CASE DeferLiteral
  <2>1. TypeOK'
    BY <1>4, WindowAssumption, FoundMatch DEF IndInv, TypeOK, WindowHasRoom,
       DeferLiteral, strm, block, MIN_MATCH, MIN_LOOKAHEAD, Ready
  <2>2. NoByteLost' /\ BlockMatchesWindow'
    BY <1>4 DEF IndInv, TypeOK, NoByteLost, BlockMatchesWindow, DeferLiteral,
       strm, block
  <2>3. PendingMatchInWindow' /\ WindowHasRoom'
    BY <1>4, WindowAssumption, FoundMatch DEF IndInv, TypeOK,
       PendingMatchInWindow, WindowHasRoom, DeferLiteral, MIN_MATCH
  <2>4. WellFormed' /\ Phases'
    BY <1>4 DEF IndInv, WellFormed, Phases, DeferLiteral, strm, HeaderDue,
       Ready
  <2>5. PendingEmptyInBody' /\ RetryAccepted' /\ ShortOutputMeansDone'
    BY <1>4 DEF IndInv, PendingEmptyInBody, RetryAccepted,
       ShortOutputMeansDone, DeferLiteral, Ready
  <2>6. TrailerCoversInput' /\ EndMeansComplete'
    BY <1>4 DEF IndInv, TrailerCoversInput, EndMeansComplete, Phases,
       DeferLiteral, Ready
  <2>7. HeldBackIsShort'
    BY <1>4 DEF IndInv, HeldBackIsShort, DeferLiteral
  <2>8. QED
    BY <2>1, <2>2, <2>3, <2>4, <2>5, <2>6, <2>7 DEF IndInv
<1>5. CASE FinishBlock
  <2>1. TypeOK'
    BY <1>5, BufferAssumption, FlushPending DEF IndInv, TypeOK,
       BlockMatchesWindow, FinishBlock, Return, Put, FLUSH_BLOCK_ONLY
  <2>2. NoByteLost' /\ BlockMatchesWindow'
    BY <1>5 DEF IndInv, TypeOK, NoByteLost, BlockMatchesWindow, FinishBlock,
       FLUSH_BLOCK_ONLY
  <2>3. PendingMatchInWindow' /\ WindowHasRoom'
    BY <1>5 DEF IndInv, TypeOK, PendingMatchInWindow, WindowHasRoom,
       FinishBlock, MIN_MATCH, AllBehind
  <2>4. WellFormed' /\ Phases'
    BY <1>5, WindowAssumption DEF IndInv, TypeOK, WellFormed, Phases,
       FinishBlock, MIN_MATCH, MIN_LOOKAHEAD, Return, Put, Follows, HeaderDue,
       HasWork, Starving, FLUSH_BLOCK_ONLY, AllBehind
  <2>5. PendingEmptyInBody' /\ RetryAccepted' /\ ShortOutputMeansDone'
    BY <1>5, FlushPending DEF IndInv, TypeOK, PendingEmptyInBody,
       RetryAccepted, ShortOutputMeansDone, FinishBlock, Return,
       FLUSH_BLOCK_ONLY
  <2>6. TrailerCoversInput' /\ EndMeansComplete'
    BY <1>5 DEF IndInv, TrailerCoversInput, EndMeansComplete, FinishBlock,
       Return, Put, FLUSH_BLOCK_ONLY
  <2>7. HeldBackIsShort'
    BY <1>5, WindowAssumption DEF IndInv, HeldBackIsShort, FinishBlock,
       TypeOK, AllBehind, MIN_LOOKAHEAD, MIN_MATCH
  <2>8. QED
    BY <2>1, <2>2, <2>3, <2>4, <2>5, <2>6, <2>7 DEF IndInv
<1>6. QED
  BY <1>1, <1>2, <1>3, <1>4, <1>5

\* A step that changes nothing keeps it.
LEMMA StutterKeepsInv == ASSUME IndInv, UNCHANGED vars PROVE IndInv'
BY DEF vars, IndInv, TypeOK, NoByteLost, BlockMatchesWindow,
       PendingMatchInWindow, WindowHasRoom, WellFormed, PendingEmptyInBody,
       RetryAccepted, TrailerCoversInput, EndMeansComplete,
       ShortOutputMeansDone, HeldBackIsShort, Phases, HeaderDue, HasWork

\* Every step of deflate() keeps it.
LEMMA EngineKeepsInv == ASSUME IndInv, Engine PROVE IndInv'
BY EntryKeepsInv, HeaderKeepsInv, TrailerKeepsInv, FillWindowKeepsInv,
   MatchingKeepsInv DEF Engine

\* The inductive invariant holds in every reachable state of the engine.
THEOREM Invariance == Spec => []IndInv
<1>1. Init => IndInv
  BY InitInv
<1>2. IndInv /\ [Next]_vars => IndInv'
  <2> SUFFICES ASSUME IndInv, [Next]_vars PROVE IndInv'
    OBVIOUS
  <2>1. CASE Engine
    BY <2>1, EngineKeepsInv
  <2>2. CASE Caller
    BY <2>2, CallerKeepsInv, CallerAssumption DEF Caller
  <2>3. CASE Aborted
    BY <2>3, StutterKeepsInv DEF Aborted
  <2>4. CASE UNCHANGED vars
    BY <2>4, StutterKeepsInv
  <2>5. QED
    BY <2>1, <2>2, <2>3, <2>4 DEF Next
<1>3. QED
  BY <1>1, <1>2, PTL DEF Spec

\* Every variable keeps its type; in particular the symbol buffer never
\* overruns and the window positions stay in the window.
THEOREM TypeCorrect == Spec => []TypeOK
<1>1. IndInv => TypeOK
  BY DEF IndInv
<1>2. QED
  BY <1>1, Invariance, PTL

\* No byte of the input is lost or coded twice, and what the buffered symbols
\* stand for is what the window holds for the block.
THEOREM InputIsConserved == Spec => []InputConserved
<1>1. IndInv => InputConserved
  BY DEF IndInv, InputConserved
<1>2. QED
  BY <1>1, Invariance, PTL

\* Every position the engine works with lies in the window, and the match it
\* is about to code in the data that the window holds.
THEOREM WindowIsSafe == Spec => []WindowSafe
<1>1. IndInv => WindowSafe
  BY DEF IndInv, WindowSafe
<1>2. QED
  BY <1>1, Invariance, PTL

\* The elements of the stream appear in the order the format asks for, each
\* behind an empty pending buffer.
THEOREM StreamIsWellFormed == Spec => []StreamWellFormed
<1>1. IndInv => StreamWellFormed
  BY DEF IndInv, StreamWellFormed
<1>2. QED
  BY <1>1, Invariance, PTL

\* A caller that is told Z_STREAM_END holds a complete stream of all input
\* read, and the trailer is never written before the last byte is coded.
THEOREM StreamIsComplete == Spec => []StreamComplete
<1>1. IndInv => StreamComplete
  BY DEF IndInv, StreamComplete
<1>2. QED
  BY <1>1, Invariance, PTL

\* An output span that comes back with room left means that compress() has
\* taken all input and flush() has finished the stream; one that comes back
\* full may be followed by a call with nothing new.  The loops of the vector
\* interface rest on both.
THEOREM ShortSpansEndLoops == Spec => []LoopsMayStop
<1>1. IndInv => LoopsMayStop
  BY DEF IndInv, LoopsMayStop
<1>2. QED
  BY <1>1, Invariance, PTL

\* A call with room for output is refused only if it could do nothing.
THEOREM RefusalsJustified == Spec => RejectedOnlyIfUseless
<1> DEFINE Refused == pc = "deflate" /\ pc' = "idle" /\ ret' = "BUF_ERROR"
                        /\ avail_out > 0
           Idle == avail_in = 0 /\ pending = 0 /\ lookahead < MIN_LOOKAHEAD
<1>1. IndInv /\ [Next]_vars => [Refused => Idle]_vars
  <2> SUFFICES ASSUME IndInv, Next, Refused PROVE Idle
    OBVIOUS
  <2>1. CASE RejectUseless
    BY <2>1 DEF IndInv, TypeOK, HeldBackIsShort, RejectUseless, Accepted,
                Useless, RANK, Z_NO_FLUSH, Z_FINISH
  <2>2. CASE Engine /\ ~RejectUseless
    BY <2>2 DEF IndInv, TypeOK, Engine, RejectFinished, RejectNoRoom,
                DrainPending, Begin, WriteHeader, Start, End, WriteTrailer,
                FillWindow, Starved, EmitMatch, EmitLiteral, DeferLiteral,
                FinishBlock, Return, Accepted, Ready
  <2>3. CASE Caller
    BY <2>3 DEF Caller, Compress, Flush
  <2>4. CASE Aborted
    BY <2>4 DEF Aborted
  <2>5. QED
    BY <2>1, <2>2, <2>3, <2>4 DEF Next
<1>2. QED
  BY <1>1, Invariance, PTL DEF Spec, RejectedOnlyIfUseless

----------------------------------------------------------------------------
(***************************************************************************)
(* The vector interface.                                                   *)
(***************************************************************************)

\* The engine neither drops nor invents input, never takes back what it has
\* coded, leaves the flush value alone, and finishes the stream only when
\* asked to.
LEMMA EngineFrame ==
  ASSUME IndInv, Engine
  PROVE  /\ total_in' + avail_in' = total_in + avail_in
         /\ coded' >= coded
         /\ flush' = flush
         /\ status' = "FINISH" => status = "FINISH" \/ flush = Z_FINISH
         /\ status' = "NULL" => status = "NULL"
         /\ pc \notin {"idle", "abort"}
<1> USE DEF IndInv
<1>1. CASE RejectFinished \/ RejectNoRoom \/ RejectUseless \/ Begin
  BY <1>1 DEF TypeOK, RejectFinished, RejectNoRoom, RejectUseless, Begin,
              Accepted, strm, block
<1>2. CASE DrainPending \/ WriteHeader \/ Start \/ End \/ WriteTrailer
  BY <1>2 DEF TypeOK, DrainPending, WriteHeader, Start, End, WriteTrailer,
              Accepted, strm, block
<1>3. CASE FillWindow
  BY <1>3, WindowAssumption
     DEF TypeOK, WindowHasRoom, FillWindow, MIN, block
<1>4. CASE Starved \/ DeferLiteral
  BY <1>4 DEF TypeOK, Starved, DeferLiteral, Ready, strm, block
<1>5. CASE EmitMatch \/ EmitLiteral
  <2>1. coded' >= coded
    BY <1>5 DEF TypeOK, BlockMatchesWindow, PendingMatchInWindow, EmitMatch,
                EmitLiteral, LiteralEnd, Tally, FLUSH_BLOCK_ONLY, MIN_MATCH
  <2>2. QED
    BY <1>5, <2>1 DEF EmitMatch, EmitLiteral, Ready
<1>6. CASE FinishBlock
  <2>1. coded' >= coded
    BY <1>6 DEF TypeOK, BlockMatchesWindow, FinishBlock, FLUSH_BLOCK_ONLY
  <2>2. flush = Z_FINISH
    BY <1>6, WindowAssumption
       DEF TypeOK, FinishBlock, AllBehind, Starving, MIN_LOOKAHEAD, MIN_MATCH
  <2>3. QED
    BY <1>6, <2>1, <2>2 DEF FinishBlock
<1>7. QED
  BY <1>1, <1>2, <1>3, <1>4, <1>5, <1>6 DEF Engine

\* deflate() answers Z_STREAM_ERROR, which ends the program, only to a plain
\* call after the stream was finished.
LEMMA EngineAborts ==
  ASSUME IndInv, Engine, pc' = "abort"
  PROVE  status = "FINISH" /\ flush # Z_FINISH
<1>1. CASE RejectFinished
  BY <1>1 DEF RejectFinished
<1>2. CASE Engine /\ ~RejectFinished
  BY <1>2 DEF Engine, RejectNoRoom, DrainPending, RejectUseless, Begin,
              WriteHeader, Start, End, WriteTrailer, TrailerResult,
              FillWindow, Starved, EmitMatch, EmitLiteral, DeferLiteral,
              FinishBlock, NeedMore, Return
<1>3. QED
  BY <1>1, <1>2

\* The state after construction satisfies the inductive invariant.
LEMMA CInitInv == CInit => CIndInv
<1> SUFFICES ASSUME CInit PROVE CIndInv
  OBVIOUS
<1>1. IndInv
  BY InitInv DEF CInit
<1>2. CTypeOK /\ NoInputDropped
  <2>1. TypeOK
    BY <1>1 DEF IndInv
  <2>2. op \in {"none", "compress", "oneshot", "flush"} /\ closed \in BOOLEAN
    BY DEF CInit
  <2>3. fed \in Nat /\ fed = total_in + avail_in
    BY DEF CInit, Init
  <2>4. QED
    BY <2>1, <2>2, <2>3 DEF CTypeOK, NoInputDropped
<1>3. CallsInOrder
  BY FormatAssumption
     DEF CInit, Init, CallsInOrder, WindowBits, InitWrap, InitBits,
         deflateInit2
<1>4. QED
  BY <1>1, <1>2, <1>3 DEF CIndInv

\* A step of the engine inside a method keeps the inductive invariant.
LEMMA CEngineKeepsInv ==
  ASSUME CIndInv, Engine, UNCHANGED cvars
  PROVE  CIndInv'
<1>1. IndInv'
  BY EngineKeepsInv DEF CIndInv
<1>2. CTypeOK' /\ NoInputDropped'
  BY <1>1, EngineFrame
     DEF CIndInv, IndInv, CTypeOK, NoInputDropped, cvars
<1>3. CallsInOrder'
  BY <1>1, EngineFrame, EngineAborts
     DEF CIndInv, CallsInOrder, CTypeOK, cvars, Z_NO_FLUSH, Z_FINISH
<1>4. QED
  BY <1>1, <1>2, <1>3 DEF CIndInv

\* Calling compress(in, out) for a method keeps it: input is only offered
\* when the engine has taken the previous one.
LEMMA CompressKeepsInv ==
  ASSUME CIndInv, NEW n \in Nat, Compress(n, ChunkSize),
         \/ op = "none" /\ ~closed /\ fed' = fed + n
         \/ op \in {"compress", "oneshot"} /\ n = 0 /\ fed' = fed,
         op' \in {"compress", "oneshot"}, UNCHANGED closed
  PROVE  CIndInv'
<1>1. IndInv'
  BY CallerKeepsInv, ChunkAssumption DEF CIndInv
<1>2. CTypeOK' /\ NoInputDropped'
  BY <1>1 DEF CIndInv, IndInv, TypeOK, CTypeOK, NoInputDropped, CallsInOrder,
              Compress
<1>3. CallsInOrder'
  BY DEF CIndInv, CallsInOrder, CTypeOK, Compress
<1>4. QED
  BY <1>1, <1>2, <1>3 DEF CIndInv

\* Calling flush(out) for a method keeps it: there is no input to discard.
LEMMA FlushKeepsInv ==
  ASSUME CIndInv, Flush(ChunkSize), ~closed,
         op = "none" \/ op = "flush" \/ (op = "oneshot" /\ ~Filled),
         op' = "flush", UNCHANGED <<fed, closed>>
  PROVE  CIndInv'
<1>1. IndInv'
  BY CallerKeepsInv, ChunkAssumption DEF CIndInv
<1>2. avail_in = 0
  BY DEF CIndInv, IndInv, TypeOK, ShortOutputMeansDone, Phases, CallsInOrder,
         Filled, Flush, Z_NO_FLUSH, Z_FINISH
<1>3. CTypeOK' /\ NoInputDropped'
  BY <1>1, <1>2 DEF CIndInv, IndInv, TypeOK, CTypeOK, NoInputDropped, Flush
<1>4. CallsInOrder'
  BY DEF CIndInv, CallsInOrder, CTypeOK, Flush
<1>5. QED
  BY <1>1, <1>3, <1>4 DEF CIndInv

\* A method that returns keeps it: it stops at the first span that was not
\* filled, which means all input was taken or the stream is finished.
LEMMA ReturnsKeepInv ==
  ASSUME CIndInv, CompressReturns \/ FlushReturns
  PROVE  CIndInv'
<1>1. IndInv'
  BY StutterKeepsInv DEF CIndInv, CompressReturns, FlushReturns
<1>2. CTypeOK' /\ NoInputDropped'
  BY <1>1 DEF CIndInv, IndInv, CTypeOK, NoInputDropped, CompressReturns,
              FlushReturns, vars
<1>3. CallsInOrder'
  BY DEF CIndInv, IndInv, TypeOK, ShortOutputMeansDone, Phases, CallsInOrder,
         Filled, CompressReturns, FlushReturns, vars, Z_NO_FLUSH, Z_FINISH
<1>4. QED
  BY <1>1, <1>2, <1>3 DEF CIndInv

\* Every step of the vector interface keeps the inductive invariant.
LEMMA CNextKeepsInv == CIndInv /\ [CNext]_allvars => CIndInv'
<1> SUFFICES ASSUME CIndInv, [CNext]_allvars PROVE CIndInv'
  OBVIOUS
<1>1. CASE Engine /\ UNCHANGED cvars
  BY <1>1, CEngineKeepsInv
<1>2. ASSUME NEW n \in Inputs, NEW method \in {"compress", "oneshot"},
             BeginCompress(n, method)
      PROVE  CIndInv'
  BY <1>2, CompressKeepsInv, CallerAssumption DEF BeginCompress
<1>3. CASE CompressAgain
  BY <1>3, CompressKeepsInv DEF CompressAgain, cvars
<1>4. CASE BeginFlush
  BY <1>4, FlushKeepsInv DEF BeginFlush, CIndInv, CallsInOrder
<1>5. CASE FlushAgain
  BY <1>5, FlushKeepsInv DEF FlushAgain, cvars, CIndInv, CallsInOrder
<1>6. CASE CompressReturns \/ FlushReturns
  BY <1>6, ReturnsKeepInv
<1>7. CASE UNCHANGED allvars
  <2>1. IndInv'
    BY <1>7, StutterKeepsInv DEF CIndInv, allvars
  <2>2. QED
    BY <1>7, <2>1 DEF CIndInv, IndInv, CTypeOK, NoInputDropped, CallsInOrder,
                      allvars, vars, cvars
<1>8. QED
  BY <1>1, <1>2, <1>3, <1>4, <1>5, <1>6, <1>7 DEF CNext, User, Running, Over

\* The inductive invariant holds in every reachable state.
THEOREM CInvariance == CSpec => []CIndInv
BY CInitInv, CNextKeepsInv, PTL DEF CSpec

\* Positions, counters and the call in progress keep their types, the engine's
\* and the vector interface's.
THEOREM CTypeCorrect == CSpec => []CTypeOK
<1>1. CIndInv => CTypeOK
  BY DEF CIndInv
<1>2. QED
  BY <1>1, CInvariance, PTL

\* The vector methods never drop input, whatever the sizes of the chunks and
\* of the user's pieces.
THEOREM InputNeverDropped == CSpec => []NoInputDropped
<1>1. CIndInv => NoInputDropped
  BY DEF CIndInv
<1>2. QED
  BY <1>1, CInvariance, PTL

\* When flush() returns, the user holds a complete stream of all the input.
THEOREM FlushDelivers == CSpec => []FlushDeliversAll
<1>1. CIndInv => FlushDeliversAll
  BY DEF CIndInv, IndInv, TypeOK, EndMeansComplete, NoInputDropped,
         CallsInOrder, CTypeOK, FlushDeliversAll
<1>2. QED
  BY <1>1, CInvariance, PTL

\* With a wrapper whose construction succeeds, no assertion fails.
THEOREM AssertionsHold == Format # "deflate" /\ CSpec => []NoAbort
<1> SUFFICES ASSUME Format # "deflate" PROVE CSpec => []NoAbort
  OBVIOUS
<1>1. CIndInv => NoAbort
  BY DEF CIndInv, CallsInOrder, NoAbort
<1>2. QED
  BY <1>1, CInvariance, PTL

\* Every step of the vector interface is a step of the contract or changes
\* nothing the contract speaks of.
THEOREM ImplementsContract == CSpec => Contract!Safety
<1> DEFINE Bounded == coded \in Nat /\ coded <= fed
<1>0. CIndInv => Bounded
  <2> SUFFICES ASSUME CIndInv PROVE Bounded
    OBVIOUS
  <2>1. coded + (tallied + match_available) + lookahead + avail_in = fed
    BY DEF CIndInv, IndInv, TypeOK, NoByteLost, BlockMatchesWindow,
           NoInputDropped
  <2>2. QED
    BY <2>1 DEF CIndInv, IndInv, TypeOK
<1> HIDE DEF Bounded
<1>1. CInit => Contract!Init
  BY DEF CInit, Init, Contract!Init
<1>2. CIndInv /\ Bounded' /\ [CNext]_allvars => [Contract!Next]_Contract!vars
  <2> SUFFICES ASSUME CIndInv, Bounded', [CNext]_allvars
               PROVE  [Contract!Next]_Contract!vars
    OBVIOUS
  <2>1. CASE Engine /\ UNCHANGED cvars
    <3>1. ~closed
      BY <2>1, EngineFrame DEF CIndInv, CallsInOrder
    <3>2. coded' \in coded .. fed
      BY <2>1, EngineFrame
         DEF Bounded, CIndInv, CTypeOK, TypeOK, cvars
    <3>3. Contract!Store
      BY <2>1, <3>1, <3>2 DEF Contract!Store, cvars
    <3>4. QED
      BY <3>3 DEF Contract!Next
  <2>2. ASSUME NEW n \in Inputs, NEW method \in {"compress", "oneshot"},
               BeginCompress(n, method)
        PROVE  Contract!Offer
    BY <2>2, CallerAssumption
       DEF BeginCompress, Compress, block, Contract!Offer, CIndInv, CTypeOK
  <2>3. CASE BeginFlush
    BY <2>3 DEF BeginFlush, Flush, block, Contract!Close, Contract!Next,
                CIndInv, CallsInOrder
  <2>4. CASE FlushReturns
    <3>1. coded = fed
      BY <2>4 DEF FlushReturns, Filled, CIndInv, IndInv, TypeOK, CTypeOK,
                  ShortOutputMeansDone, EndMeansComplete, Phases,
                  NoInputDropped, CallsInOrder, Z_NO_FLUSH, Z_FINISH
    <3>2. Contract!Closed
      BY <2>4, <3>1 DEF FlushReturns, vars, Contract!Closed, CIndInv,
                        CallsInOrder
    <3>3. QED
      BY <3>2 DEF Contract!Next
  <2>5. CASE CompressAgain \/ FlushAgain \/ CompressReturns
    BY <2>5 DEF CompressAgain, FlushAgain, CompressReturns, Compress, Flush,
                block, cvars, vars, Contract!vars
  <2>6. CASE UNCHANGED allvars
    BY <2>6 DEF allvars, vars, cvars, Contract!vars
  <2>7. QED
    BY <2>1, <2>2, <2>3, <2>4, <2>5, <2>6
       DEF CNext, User, Running, Over, Contract!Next
<1>3. QED
  BY <1>0, <1>1, <1>2, CInvariance, PTL DEF CSpec, Contract!Safety

=============================================================================
