------------------------------- MODULE Deflate -------------------------------
(***************************************************************************)
(* The compression engine: deflate() of src/zlib/deflate.cpp as the gzip,  *)
(* zlib and deflate wrappers call it, with deflate_slow(), fill_window(),  *)
(* read_buf() and flush_pending().  Bytes are counted, not represented:    *)
(* the module follows every byte from the caller's input span through the  *)
(* sliding window and the symbol buffer into a block, and every block      *)
(* through the pending buffer into the caller's output span.  What a match *)
(* search finds and how many bytes a block takes are nondeterministic.     *)
(*                                                                         *)
(* The environment is the pair of span methods of the wrappers, in any     *)
(* order and with any span sizes.                                          *)
(*                                                                         *)
(* A definition named X_Bug is X with a plausible mistake in it; none is   *)
(* used by the specification.  Each one makes a property fail that the     *)
(* code, as it is, satisfies.                                              *)
(***************************************************************************)
EXTENDS Integers

CONSTANTS
  Format,         \* the wrapper: "gzip", "zlib" or "deflate"
  W_SIZE,         \* LZ77 window size (32768 in the code)
  MAX_MATCH,      \* longest match (258 in the code)
  MAX_LAZY,       \* max_lazy_match of the configuration table's row
  LIT_BUFSIZE,    \* size of the symbol buffer
  BlockOverhead,  \* a block of n bytes takes at most n + BlockOverhead
  Inputs,         \* sizes of the input spans the caller passes
  Outputs,        \* sizes of the output spans the caller passes
  MaxIn           \* bound on the bytes ever offered

MIN_MATCH == 3
MIN_LOOKAHEAD == MAX_MATCH + MIN_MATCH + 1
MAX_DIST == W_SIZE - MIN_LOOKAHEAD

ASSUME FormatAssumption == Format \in {"gzip", "zlib", "deflate"}
ASSUME WindowAssumption ==
  /\ MAX_MATCH \in Nat /\ MAX_MATCH >= MIN_MATCH
  /\ W_SIZE \in Nat /\ W_SIZE > MIN_LOOKAHEAD
  /\ MAX_LAZY \in Nat
ASSUME BufferAssumption ==
  /\ LIT_BUFSIZE \in Nat /\ LIT_BUFSIZE >= 3
  /\ BlockOverhead \in Nat /\ BlockOverhead >= 1
ASSUME CallerAssumption ==
  /\ Inputs \subseteq Nat
  /\ Outputs \subseteq Nat
  /\ MaxIn \in Nat

VARIABLES
  \* z_stream
  avail_in, avail_out, total_in,
  \* deflate_state: the protocol
  status, wrap, last_flush, pending,
  \* deflate_state: the window
  strstart, block_start, lookahead,
  \* deflate_state: lazy matching
  match_start, match_length, match_available,
  \* deflate_state: symbols buffered for the current block
  last_lit,
  \* history: source bytes those symbols stand for, source bytes covered by
  \* finished blocks, last element of the format put in the pending buffer
  tallied, coded, format,
  \* control: the running call's position, its flush argument, last result
  pc, flush, ret

strm == <<avail_in, avail_out, total_in>>
output == <<avail_out, pending>>
window == <<strstart, block_start, lookahead>>
lazy == <<match_start, match_length, match_available>>
block == <<last_lit, tallied, coded>>
vars == <<avail_in, avail_out, total_in, status, wrap, last_flush, pending,
          strstart, block_start, lookahead, match_start, match_length,
          match_available, last_lit, tallied, coded, format, pc, flush, ret>>

Z_NO_FLUSH == 0
Z_FINISH == 4

MIN(a, b) == IF a > b THEN b ELSE a

\* Order of the flush values; -1 ranks below every one of them.
RANK(f) == f * 2 - (IF f > 4 THEN 9 ELSE 0)

----------------------------------------------------------------------------
(***************************************************************************)
(* Construction: deflateInit2, deflateResetKeep and lm_init.               *)
(***************************************************************************)

\* What the wrapper's constructor passes for windowBits.
WindowBits == [gzip |-> 31, zlib |-> 15, deflate |-> -1][Format]

InitWrap == IF WindowBits < 0 THEN 0 ELSE IF WindowBits > 15 THEN 2 ELSE 1

InitBits == IF WindowBits < 0 THEN -WindowBits
            ELSE IF WindowBits > 15 THEN WindowBits - 16 ELSE WindowBits

deflateInit2 ==
  IF InitBits < 8 \/ InitBits > 15 \/ (InitBits = 8 /\ InitWrap # 1)
    THEN "STREAM_ERROR" ELSE "OK"

\* The wrapper asserts that deflateInit2 returned Z_OK; when it did not, the
\* stream's state pointer is still null and the program has aborted.
Init ==
  /\ avail_in = 0 /\ avail_out = 0 /\ total_in = 0
  /\ wrap = InitWrap
  /\ status = IF deflateInit2 # "OK" THEN "NULL"
              ELSE IF InitWrap = 2 THEN "GZIP"
              ELSE IF InitWrap = 1 THEN "INIT" ELSE "BUSY"
  /\ last_flush = Z_NO_FLUSH /\ pending = 0
  /\ strstart = 0 /\ block_start = 0 /\ lookahead = 0
  /\ match_start = 0 /\ match_length = MIN_MATCH - 1 /\ match_available = 0
  /\ last_lit = 0 /\ tallied = 0 /\ coded = 0
  /\ format = IF InitWrap = 0 THEN "header" ELSE "empty"
  /\ flush = Z_NO_FLUSH
  /\ ret = deflateInit2
  /\ pc = IF deflateInit2 = "OK" THEN "idle" ELSE "abort"

----------------------------------------------------------------------------
(***************************************************************************)
(* The wrappers' span methods.  compress(in, out) replaces avail_in when   *)
(* in is not empty; flush(out) discards it.  Both assert that deflate()    *)
(* did not return Z_STREAM_ERROR.                                          *)
(***************************************************************************)

Compress(n, m) ==
  /\ pc = "idle"
  /\ avail_in' = IF n # 0 THEN n ELSE avail_in
  /\ avail_out' = m
  /\ flush' = Z_NO_FLUSH
  /\ pc' = "deflate"
  /\ UNCHANGED <<total_in, status, wrap, last_flush, pending, window, lazy,
                 block, format, ret>>

Flush(m) ==
  /\ pc = "idle"
  /\ avail_in' = 0
  /\ avail_out' = m
  /\ flush' = Z_FINISH
  /\ pc' = "deflate"
  /\ UNCHANGED <<total_in, status, wrap, last_flush, pending, window, lazy,
                 block, format, ret>>

Return(r) ==
  /\ ret' = r
  /\ pc' = IF r = "STREAM_ERROR" THEN "abort" ELSE "idle"

----------------------------------------------------------------------------
(***************************************************************************)
(* flush_pending, and the order of the elements of a stream.               *)
(***************************************************************************)

\* p bytes are pending: as many as fit go to the caller.
flush_pending(p) ==
  LET len == MIN(p, avail_out)
  IN  /\ pending' = p - len
      /\ avail_out' = avail_out - len

\* What may precede each element of a zlib or gzip stream.
Follows == [header  |-> {"empty"},
            block   |-> {"header", "block"},
            final   |-> {"header", "block"},
            trailer |-> {"final"}]

Put(element) ==
  format' = IF format \in Follows[element] THEN element ELSE "bad"

----------------------------------------------------------------------------
(***************************************************************************)
(* deflate(): the checks on entry.                                         *)
(***************************************************************************)

HeaderDue == status \in {"INIT", "GZIP"}

\* Input or a plain call after the stream was finished.
RejectFinished ==
  /\ pc = "deflate"
  /\ status = "FINISH" /\ flush # Z_FINISH
  /\ Return("STREAM_ERROR")
  /\ UNCHANGED <<strm, status, wrap, last_flush, pending, window, lazy,
                 block, format, flush>>

RejectNoRoom ==
  /\ pc = "deflate"
  /\ ~(status = "FINISH" /\ flush # Z_FINISH)
  /\ avail_out = 0
  /\ Return("BUF_ERROR")
  /\ UNCHANGED <<strm, status, wrap, last_flush, pending, window, lazy,
                 block, format, flush>>

Accepted ==
  /\ pc = "deflate"
  /\ ~(status = "FINISH" /\ flush # Z_FINISH)
  /\ avail_out # 0

\* Output left over from the previous call goes first; when it fills the
\* output again, last_flush = -1 keeps the next call from being rejected.
DrainPending ==
  /\ Accepted /\ pending # 0
  /\ flush_pending(pending)
  /\ IF avail_out' = 0
       THEN last_flush' = -1 /\ Return("OK")
       ELSE /\ last_flush' = flush
            /\ pc' = IF HeaderDue THEN "header" ELSE "start"
            /\ UNCHANGED ret
  /\ UNCHANGED <<avail_in, total_in, status, wrap, window, lazy, block,
                 format, flush>>

Useless_IgnoringRank == avail_in = 0 /\ flush # Z_FINISH

Useless == avail_in = 0 /\ RANK(flush) <= RANK(last_flush) /\ flush # Z_FINISH

RejectUseless ==
  /\ Accepted /\ pending = 0 /\ Useless
  /\ last_flush' = flush
  /\ Return("BUF_ERROR")
  /\ UNCHANGED <<strm, status, wrap, pending, window, lazy, block, format,
                 flush>>

\* The wrappers never offer input with Z_FINISH, so the test for input after
\* the first Z_FINISH, which follows here in the code, never succeeds.
Begin ==
  /\ Accepted /\ pending = 0 /\ ~Useless
  /\ last_flush' = flush
  /\ pc' = IF HeaderDue THEN "header" ELSE "start"
  /\ UNCHANGED <<strm, status, wrap, pending, window, lazy, block, format,
                 flush, ret>>

----------------------------------------------------------------------------
(***************************************************************************)
(* deflate(): header, choice of what to do, trailer.                       *)
(***************************************************************************)

HeaderLen == IF status = "GZIP" THEN 10 ELSE 2
TrailerLen == IF wrap = 2 THEN 8 ELSE 4

WriteHeader_Unchecked ==
  /\ pc = "header"
  /\ Put("header")
  /\ flush_pending(pending + HeaderLen)
  /\ status' = "BUSY" /\ pc' = "start"
  /\ UNCHANGED <<avail_in, total_in, wrap, window, lazy, block, flush,
                 last_flush, ret>>

\* No preset dictionary and no gzip header fields: a header of fixed length.
WriteHeader ==
  /\ pc = "header"
  /\ Put("header")
  /\ flush_pending(pending + HeaderLen)
  /\ status' = "BUSY"
  /\ IF pending' # 0
       THEN last_flush' = -1 /\ Return("OK")
       ELSE pc' = "start" /\ UNCHANGED <<last_flush, ret>>
  /\ UNCHANGED <<avail_in, total_in, wrap, window, lazy, block, flush>>

HasWork_FinishTwice == avail_in # 0 \/ lookahead # 0 \/ flush # Z_NO_FLUSH

HasWork == \/ avail_in # 0 \/ lookahead # 0
           \/ flush # Z_NO_FLUSH /\ status # "FINISH"

Start ==
  /\ pc = "start"
  /\ pc' = IF HasWork THEN "body" ELSE "end"
  /\ UNCHANGED <<strm, status, wrap, last_flush, pending, window, lazy,
                 block, format, flush, ret>>

\* Nothing left to add: a plain call, or a stream whose trailer is written.
End ==
  /\ pc = "end"
  /\ flush # Z_FINISH \/ wrap <= 0
  /\ Return(IF flush # Z_FINISH THEN "OK" ELSE "STREAM_END")
  /\ UNCHANGED <<strm, status, wrap, last_flush, pending, window, lazy,
                 block, format, flush>>

TrailerResult_Early == "STREAM_END"

TrailerResult == IF pending' # 0 THEN "OK" ELSE "STREAM_END"

WriteTrailer_Repeated ==
  /\ pc = "end"
  /\ flush = Z_FINISH /\ wrap > 0
  /\ Put("trailer")
  /\ flush_pending(pending + TrailerLen)
  /\ Return(TrailerResult)
  /\ UNCHANGED <<avail_in, total_in, status, wrap, last_flush, window, lazy,
                 block, flush>>

\* wrap is negated so that the trailer is written only once.
WriteTrailer ==
  /\ pc = "end"
  /\ flush = Z_FINISH /\ wrap > 0
  /\ Put("trailer")
  /\ flush_pending(pending + TrailerLen)
  /\ wrap' = -wrap
  /\ Return(TrailerResult)
  /\ UNCHANGED <<avail_in, total_in, status, last_flush, window, lazy, block,
                 flush>>

----------------------------------------------------------------------------
(***************************************************************************)
(* fill_window and read_buf.                                               *)
(***************************************************************************)

\* The upper half moves down once there is no room for a whole match.
WindowFull == strstart >= W_SIZE + MAX_DIST

SlideBy_NotMatch(d) == block_start' = block_start - d /\ UNCHANGED match_start
SlideBy_NotBlock(d) == match_start' = match_start - d /\ UNCHANGED block_start

\* Positions relative to the window move with it.  block_start becomes
\* negative when the block began in the half that is dropped.
SlideBy(d) ==
  /\ block_start' = block_start - d
  /\ match_start' = match_start - d

\* Slide when the window is almost full, then read what fits.  The loop in
\* the code ends after this first round (see WindowHasRoom).
FillWindow ==
  /\ pc = "body" /\ lookahead < MIN_LOOKAHEAD
  /\ LET slide == IF WindowFull THEN W_SIZE ELSE 0
         more == 2 * W_SIZE - lookahead - strstart + slide
         n == MIN(avail_in, more)
     IN  /\ strstart' = strstart - slide
         /\ SlideBy(slide)
         /\ avail_in' = avail_in - n
         /\ total_in' = total_in + n
         /\ lookahead' = lookahead + n
  /\ pc' = "filled"
  /\ UNCHANGED <<avail_out, status, wrap, last_flush, pending, match_length,
                 match_available, block, format, flush, ret>>

----------------------------------------------------------------------------
(***************************************************************************)
(* deflate_slow: one step per round of its loop.                           *)
(***************************************************************************)

NeedMore_Forgetful == Return("OK") /\ UNCHANGED last_flush

\* deflate() when the strategy returned need_more.
NeedMore ==
  /\ last_flush' = IF avail_out' = 0 THEN -1 ELSE last_flush
  /\ Return("OK")

Starving_AnyFlush == lookahead < MIN_LOOKAHEAD

\* The lookahead is short and the caller may still supply more.
Starving == lookahead < MIN_LOOKAHEAD /\ flush = Z_NO_FLUSH

Starved ==
  /\ pc = "filled" /\ Starving
  /\ last_flush' = IF avail_out = 0 THEN -1 ELSE last_flush
  /\ Return("OK")
  /\ UNCHANGED <<strm, status, wrap, pending, window, lazy, block, format,
                 flush>>

\* Enough lookahead to code the byte at strstart.
Ready ==
  \/ pc = "body" /\ lookahead >= MIN_LOOKAHEAD
  \/ pc = "filled" /\ ~Starving /\ lookahead # 0

\* What the match search may leave in match_length and match_start: nothing
\* usable, or a match at most MAX_DIST back (never at position 0) that beats
\* the previous one, cut down to the lookahead.
longest_match ==
  {[length |-> MIN_MATCH - 1, start |-> match_start]} \cup
  {[length |-> l, start |-> strstart - d] :
     l \in {x \in MIN_MATCH .. MIN(MAX_MATCH, lookahead) :
              match_length < MAX_LAZY /\ (x > match_length \/ x = lookahead)},
     d \in {x \in 1 .. MAX_DIST : strstart - x >= 1}}

LastSymbol_Late == last_lit + 1 = LIT_BUFSIZE

\* The symbol buffer is full when one entry is left (_tr_tally).
LastSymbol == last_lit + 1 = LIT_BUFSIZE - 1

\* _tr_flush_block and flush_pending.  The block stands for the bytes the
\* symbols stand for, or, stored, for the window from block_start to end;
\* a block whose start has left the window is never stored.
FLUSH_BLOCK_ONLY(end, bytes, element) ==
  /\ \E k \in 1 .. end - block_start + BlockOverhead :
       flush_pending(pending + k)
  /\ \/ coded' = coded + bytes
     \/ block_start >= 0 /\ coded' = coded + (end - block_start)
  /\ block_start' = end
  /\ tallied' = 0 /\ last_lit' = 0
  /\ Put(element)

\* A symbol for bytes source bytes; end is where the block would end.
Tally(bytes, end) ==
  IF LastSymbol
    THEN FLUSH_BLOCK_ONLY(end, tallied + bytes, "block")
    ELSE /\ tallied' = tallied + bytes
         /\ last_lit' = last_lit + 1
         /\ UNCHANGED <<output, block_start, coded, format>>

\* The previous match is at least as good as the new one: code it, and move
\* past it (its first byte is already behind strstart).
EmitMatch ==
  /\ Ready
  /\ match_length >= MIN_MATCH
  /\ \E found \in longest_match :
       /\ found.length <= match_length
       /\ match_start' = found.start
  /\ lookahead' = lookahead - (match_length - 1)
  /\ strstart' = strstart + match_length - 1
  /\ Tally(match_length, strstart')
  /\ match_available' = 0
  /\ match_length' = MIN_MATCH - 1
  /\ IF LastSymbol /\ avail_out' = 0
       THEN NeedMore
       ELSE pc' = "body" /\ UNCHANGED <<last_flush, ret>>
  /\ UNCHANGED <<avail_in, total_in, status, wrap, flush>>

\* A block that ends with a literal ends before strstart moves.
LiteralEnd == strstart

\* The byte before strstart starts no match worth coding: a literal.
EmitLiteral ==
  /\ Ready
  /\ match_available = 1
  /\ \E found \in longest_match :
       /\ match_length < MIN_MATCH \/ found.length > match_length
       /\ match_start' = found.start
       /\ match_length' = found.length
  /\ Tally(1, LiteralEnd)
  /\ strstart' = strstart + 1
  /\ lookahead' = lookahead - 1
  /\ IF avail_out' = 0
       THEN NeedMore
       ELSE pc' = "body" /\ UNCHANGED <<last_flush, ret>>
  /\ UNCHANGED <<avail_in, total_in, status, wrap, match_available, flush>>

\* No byte is waiting: the byte at strstart waits for the next round.
DeferLiteral ==
  /\ Ready
  /\ match_available = 0
  /\ \E found \in longest_match :
       /\ match_length < MIN_MATCH \/ found.length > match_length
       /\ match_start' = found.start
       /\ match_length' = found.length
  /\ match_available' = 1
  /\ strstart' = strstart + 1
  /\ lookahead' = lookahead - 1
  /\ pc' = "body"
  /\ UNCHANGED <<strm, status, wrap, last_flush, pending, block_start, block,
                 format, flush, ret>>

AllBehind_Short == ~Starving /\ lookahead < MIN_MATCH

\* deflate_slow leaves its loop.
AllBehind == ~Starving /\ lookahead = 0

\* All input is behind strstart and the caller wants the stream finished:
\* code the waiting byte and write the last block.  (With the two flush
\* values the wrappers use, block_done is never returned.)
FinishBlock ==
  /\ pc = "filled" /\ AllBehind
  /\ FLUSH_BLOCK_ONLY(strstart, tallied + match_available, "final")
  /\ match_available' = 0
  /\ status' = "FINISH"
  /\ IF avail_out' = 0
       THEN last_flush' = -1 /\ Return("OK")
       ELSE pc' = "end" /\ UNCHANGED <<last_flush, ret>>
  /\ UNCHANGED <<avail_in, total_in, wrap, strstart, lookahead, match_start,
                 match_length, flush>>

----------------------------------------------------------------------------
Engine ==
  \/ RejectFinished \/ RejectNoRoom \/ DrainPending \/ RejectUseless \/ Begin
  \/ WriteHeader \/ Start \/ End \/ WriteTrailer
  \/ FillWindow \/ Starved \/ EmitMatch \/ EmitLiteral \/ DeferLiteral
  \/ FinishBlock

\* MaxIn bounds the run: the code has no such limit.
Caller ==
  \/ \E n \in Inputs, m \in Outputs : total_in + n <= MaxIn /\ Compress(n, m)
  \/ \E m \in Outputs : Flush(m)

\* A failed assertion ends the program.
Aborted == pc = "abort" /\ UNCHANGED vars

Next == Engine \/ Caller \/ Aborted

Spec == Init /\ [][Next]_vars

----------------------------------------------------------------------------
(***************************************************************************)
(* Properties.                                                             *)
(***************************************************************************)

TypeOK ==
  /\ avail_in \in Nat /\ avail_out \in Nat /\ total_in \in Nat
  /\ status \in {"NULL", "INIT", "GZIP", "BUSY", "FINISH"}
  /\ wrap \in -2 .. 2
  /\ last_flush \in {-1, Z_NO_FLUSH, Z_FINISH}
  /\ pending \in Nat
  /\ strstart \in 0 .. 2 * W_SIZE
  /\ block_start \in Int
  /\ lookahead \in 0 .. 2 * W_SIZE
  /\ match_start \in Int
  /\ match_length \in MIN_MATCH - 1 .. MAX_MATCH
  /\ match_available \in {0, 1}
  /\ last_lit \in 0 .. LIT_BUFSIZE - 2
  /\ tallied \in Nat /\ coded \in Nat
  /\ format \in {"empty", "header", "block", "final", "trailer", "bad"}
  /\ pc \in {"idle", "deflate", "header", "start", "body", "filled",
             "end", "abort"}
  /\ flush \in {Z_NO_FLUSH, Z_FINISH}
  /\ ret \in {"OK", "STREAM_END", "STREAM_ERROR", "BUF_ERROR"}

\* Every byte taken from the caller is in exactly one place: in a finished
\* block, in the current block, or in the lookahead.  Window slides, lazy
\* matching, early returns on a full output span and resumed calls neither
\* lose nor repeat one.
NoByteLost == coded + (strstart - block_start) + lookahead = total_in

\* The symbols buffered for the current block stand for exactly the bytes
\* from block_start up to the byte that waits for a lazy decision, so a
\* stored and a compressed block code the same bytes.
BlockMatchesWindow == tallied = strstart - block_start - match_available

\* A match that is waiting to be coded reaches no further than the data in
\* the window and no further back than the distance that stays in it.
PendingMatchInWindow ==
  match_length >= MIN_MATCH =>
    /\ match_available = 1
    /\ match_length - 1 <= lookahead
    /\ strstart - 1 - match_start \in 1 .. MAX_DIST

\* fill_window's OUT assertions: after one round, a whole match and the string
\* after it fit between strstart and the end of the window, and the lookahead
\* is short only when the input is exhausted.
WindowHasRoom ==
  /\ strstart + lookahead <= 2 * W_SIZE
  /\ pc = "filled" => /\ strstart <= 2 * W_SIZE - MIN_LOOKAHEAD
                      /\ lookahead >= MIN_LOOKAHEAD \/ avail_in = 0

\* Header, blocks, one final block and one trailer, in that order, however
\* the calls that write them are cut up by full output spans.
WellFormed == format # "bad"

\* "Compression must start with an empty pending buffer": no block and no
\* trailer is put behind output that is still waiting.
PendingEmptyInBody ==
  pc \in {"start", "body", "filled", "end"} => pending = 0

\* A call that filled the output span and was told Z_OK may have left nothing
\* pending.  The next call, even with nothing to do, must not be answered
\* with Z_BUF_ERROR: last_flush = -1 remembers that.
RetryAccepted ==
  pc = "idle" /\ ret = "OK" /\ avail_out = 0 /\ format # "empty" =>
    pending # 0 \/ last_flush = -1

\* The trailer's checksum and length are those of all input read; when it is
\* written, the blocks before it hold exactly that input.
TrailerCoversInput == format = "trailer" => coded = total_in

\* Z_STREAM_END means the caller has the whole stream.
EndMeansComplete ==
  pc = "idle" /\ ret = "STREAM_END" =>
    /\ format = "trailer"
    /\ pending = 0
    /\ coded = total_in

\* The vector methods stop at the first output span that is not filled.  For
\* compress() that means all input was taken, for flush() that the stream is
\* finished.
ShortOutputMeansDone ==
  pc = "idle" /\ avail_out > 0 =>
    /\ flush = Z_NO_FLUSH => avail_in = 0
    /\ flush = Z_FINISH => ret = "STREAM_END"

\* A call that was not cut short by a full output span leaves no more input
\* unprocessed than a match may need: calls without input cannot be asked to
\* go on with it.
HeldBackIsShort ==
  pc \in {"idle", "deflate"} /\ last_flush # -1 => lookahead < MIN_LOOKAHEAD

\* No byte of the input is lost or coded twice.
InputConserved == NoByteLost /\ BlockMatchesWindow

\* Every position stays in the window, and the match about to be coded in the
\* data the window holds, across slides and calls.
WindowSafe == PendingMatchInWindow /\ WindowHasRoom

\* The stream's elements come out in the order the format asks for, each
\* behind an empty pending buffer.
StreamWellFormed == WellFormed /\ PendingEmptyInBody

\* The trailer is not written before the last byte is coded, and a caller told
\* Z_STREAM_END holds a complete stream of all input read.
StreamComplete == TrailerCoversInput /\ EndMeansComplete

\* What the loops of the vector interface rest on: a span with room left means
\* there is no more to come, one that is full may be followed by a call with
\* nothing new, and no call leaves work behind that such a call would refuse.
LoopsMayStop == ShortOutputMeansDone /\ RetryAccepted /\ HeldBackIsShort

\* How the position in a call, the stream's status and what has been written
\* go together: the facts the properties above rest on.
Phases ==
  /\ pc # "abort" => /\ status # "NULL"
                     /\ IF format = "trailer" THEN wrap < 0 ELSE wrap > 0
  /\ HeaderDue => /\ format = "empty"
                  /\ total_in = 0 /\ lookahead = 0 /\ pending = 0
                  /\ pc # "header" => last_flush = Z_NO_FLUSH
  /\ status = "BUSY" => format \in {"header", "block"}
  /\ status = "FINISH" => /\ format \in {"final", "trailer"}
                          /\ lookahead = 0 /\ block_start = strstart
                          /\ match_available = 0
  /\ pc \notin {"idle", "deflate", "abort"} => (HeaderDue <=> pc = "header")
  /\ pc = "header" => avail_in # 0 \/ flush = Z_FINISH
  /\ pc \in {"body", "filled"} => status = "BUSY"
  /\ pc \in {"start", "end"} /\ status = "FINISH" => flush = Z_FINISH
  /\ pc \in {"start", "header", "end"} => avail_out # 0 \/ HasWork
  /\ pc = "end" => ~HasWork
  /\ flush = Z_FINISH => avail_in = 0

\* The inductive invariant.
IndInv ==
  /\ TypeOK /\ NoByteLost /\ BlockMatchesWindow /\ PendingMatchInWindow
  /\ WindowHasRoom /\ WellFormed /\ PendingEmptyInBody /\ RetryAccepted
  /\ TrailerCoversInput /\ EndMeansComplete /\ ShortOutputMeansDone
  /\ HeldBackIsShort /\ Phases

\* A call with room for output is turned away with Z_BUF_ERROR only when it
\* could do nothing: no input, no pending output, and what is held back waits
\* for more lookahead.
RejectedOnlyIfUseless ==
  [][pc = "deflate" /\ pc' = "idle" /\ ret' = "BUF_ERROR" /\ avail_out > 0
       => avail_in = 0 /\ pending = 0 /\ lookahead < MIN_LOOKAHEAD]_vars

=============================================================================
