------------------------ MODULE ExternalCompressors ------------------------
(***************************************************************************)
(* The bzip2, lzma, zstd and brotli compressors: the span methods that     *)
(* wrap the libraries' streaming calls, under the loops of src/shared.cpp, *)
(* used as documented (any number of compress() calls, then one flush()).  *)
(*                                                                         *)
(* The libraries are not part of the source.  They are modelled by what    *)
(* the wrappers rely on: a call reads its input unless the output span     *)
(* fills, keeps any amount of output back until the stream is finished,    *)
(* and answers a call it has nothing to do for as each library documents.  *)
(***************************************************************************)
EXTENDS Integers

CONSTANTS
  Codecs,      \* the wrappers under consideration
  Chunks,      \* the values chunkSize may have
  Inputs,      \* sizes of the inputs of compress(), 0 included
  MaxIn,       \* bound on the input of a stream
  Yield,       \* bound on the output one call makes ready
  Header,      \* size of the header lzma writes before any input
  EmptyFrame,  \* size of a zstd frame of nothing
  UINT32       \* what a uint32_t counts up to (2 ^ 32)

CodecsAssumption == Codecs \subseteq {"bzip2", "lzma", "zstd", "brotli"}
ChunkAssumption ==
  /\ Chunks \subseteq Nat \ {0} /\ Header \in Nat /\ EmptyFrame \in Nat \ {0}
  /\ UINT32 \in Nat \ {0}
  /\ Inputs \subseteq Nat /\ MaxIn \in Nat /\ Yield \in Nat

VARIABLES
  codec, chunkSize,
  avail_in,          \* the wrapper's unread input: avail_in, input, insize
  held, stage,       \* library: output ready but not taken, progress of the stream
  stalled, total,    \* lzma: the last call did nothing; brotli: output so far
  op,                \* the vector method that is running, or how the last one ended
  collected,         \* its vector, out, holds something
  read, wrote, size, \* the last call: bytes read and written, size of its span
  given, taken       \* history: input of all calls, input the library has read

vars == <<codec, chunkSize, avail_in, held, stage, stalled, total, op, collected,
          read, wrote, size, given, taken>>

Init ==
  /\ codec \in Codecs /\ chunkSize \in Chunks
  /\ held = IF codec = "lzma" THEN Header ELSE 0
  /\ avail_in = 0 /\ stage = "run" /\ stalled = FALSE /\ total = 0
  /\ op = "none" /\ collected = FALSE /\ read = 0 /\ wrote = 0 /\ size = 0
  /\ given = 0 /\ taken = 0

Smaller(a, b) == IF a < b THEN a ELSE b

\* bz_stream counts in 32 bits, the other libraries in size_t.
Width(n) == IF codec = "bzip2" THEN n % UINT32 ELSE n

----------------------------------------------------------------------------
(***************************************************************************)
(* The libraries.                                                          *)
(***************************************************************************)

\* What finishing makes ready: the rest of the stream, once.  Asked again,
\* zstd begins another frame.
Ending ==
  CASE stage = "run"      -> IF codec = "zstd" /\ taken = 0 THEN {EmptyFrame} ELSE 1 .. Yield
    [] stage = "flushing" -> {0}
    [] stage = "ended"    -> {IF codec = "zstd" THEN EmptyFrame ELSE 0}

\* BZ2_bzCompress, lzma_code, ZSTD_compressStream, ZSTD_endStream and
\* BrotliEncoderCompressStream, given n bytes and the output span.
Library(n, finish) ==
  \E k \in 0 .. n, more \in (IF finish THEN Ending ELSE 0 .. Yield) :
    LET ready == held + more
    IN  /\ (k = 0 /\ ~finish) => more = 0
        /\ wrote' = Smaller(ready, Width(chunkSize))
        /\ k < n => wrote' = Width(chunkSize)
        /\ read' = k
        /\ held' = ready - wrote'
        /\ total' = IF codec = "brotli" THEN total + wrote' ELSE total
        /\ stage' = CASE ~finish -> stage
                      [] finish /\ (held' > 0 \/ k < n) -> "flushing"
                      [] OTHER -> "ended"
        /\ stalled' = (codec = "lzma" /\ k = 0 /\ wrote' = 0 /\ stage' # "ended")
        /\ taken' = taken + k

\* Does it report an error?  bzip2 takes a call that does nothing for a wrong
\* sequence of calls; lzma does from the second such call on.
Idle == read' = 0 /\ wrote' = 0

Error == \/ codec = "bzip2" /\ Idle
         \/ codec = "lzma" /\ Idle /\ stalled /\ stage' # "ended"

----------------------------------------------------------------------------
(***************************************************************************)
(* The span methods.                                                       *)
(***************************************************************************)

\* The part of out that is returned: what the call wrote by the count of what
\* is left in it, or for brotli by the encoder's total.
Returned_Whole == chunkSize

Returned == IF codec = "brotli" THEN total' ELSE wrote'

\* assert() on the library's answer.  Asserts are compiled in.
Refused == Error

\* compress(in, out); "again" is the loop's call without input.
Offered_Replaced(n) == Width(n)

Offered(n) == IF n > 0 THEN Width(n) ELSE avail_in

Unread(n) == Offered(n) - read'

compress(n) ==
  /\ Library(Offered(n), FALSE)
  /\ avail_in' = Unread(n)
  /\ size' = Returned
  /\ op' = IF Refused THEN "abort" ELSE "compress"
  /\ UNCHANGED <<codec, chunkSize>>

\* flush(out): bzip2 and lzma drop what is unread, zstd ends the frame
\* without it, brotli goes on reading it.  zstd throws unless the whole rest
\* fits, and with the span goes the size of what was written.
Incomplete == codec = "zstd" /\ held' > 0

flush ==
  /\ Library(IF codec = "brotli" THEN avail_in ELSE 0, TRUE)
  /\ avail_in' = CASE codec = "brotli" -> avail_in - read'
                   [] codec = "zstd"   -> avail_in
                   [] OTHER            -> 0
  /\ size' = Returned
  /\ op' = CASE Refused -> "abort"
             [] Incomplete -> "threw"
             [] OTHER -> "flush"
  /\ UNCHANGED <<codec, chunkSize, given>>

----------------------------------------------------------------------------
(***************************************************************************)
(* The vector methods.                                                     *)
(***************************************************************************)

\* compressed.size() == chunkSize.
Filled_Never == FALSE

Filled_Always == TRUE

Filled == size = chunkSize

\* out.insert(...) of a span that a call has returned, to what is in out.
Inserted(before) ==
  collected' = (before \/ (op' \in {"compress", "flush"} /\ size' > 0))

\* return out.
Returns(end) ==
  /\ ~Filled
  /\ op' = end /\ collected' = FALSE
  /\ UNCHANGED <<codec, chunkSize, avail_in, held, stage, stalled, total, read,
                 wrote, size, given, taken>>

BeginCompress ==
  /\ op = "none"
  /\ \E n \in Inputs :
       /\ given + n <= MaxIn
       /\ given' = given + n
       /\ compress(n)
  /\ Inserted(FALSE)

CompressAgain ==
  /\ op = "compress" /\ Filled
  /\ compress(0)
  /\ Inserted(collected)
  /\ UNCHANGED given

CompressReturns == op = "compress" /\ Returns("none")

BeginFlush == op = "none" /\ flush /\ Inserted(FALSE)

FlushAgain == op = "flush" /\ Filled /\ flush /\ Inserted(collected)

FlushReturns == op = "flush" /\ Returns("closed")

Over == op \in {"closed", "abort", "threw"} /\ UNCHANGED vars

Method == CompressAgain \/ CompressReturns \/ FlushAgain \/ FlushReturns

Next == BeginCompress \/ BeginFlush \/ Method \/ Over

\* A method, once called, runs on; the user may stop at any time.
Spec == Init /\ [][Next]_vars /\ WF_vars(Method)

----------------------------------------------------------------------------
\* A call returns exactly the bytes it wrote, neither fewer (output lost) nor
\* more (bytes of an earlier call, or memory past the chunk).
DeliveredIsWritten == op \notin {"abort", "threw"} => size = wrote

\* A compress() that has returned has passed on all the input of all calls,
\* so that neither the next compress() nor flush() can drop any.
CompressReadsAll == op \in {"none", "closed"} => taken = given /\ avail_in = 0

\* A flush() that has returned has delivered the stream to its end.
ClosedIsWhole == op = "closed" => stage = "ended" /\ held = 0

\* A method that fails takes with it what its vector holds and what its last
\* call wrote: output of the library that the user never gets.
Lost == op \in {"abort", "threw"} /\ (collected \/ wrote > 0)

\* "call the flush() function once to retrieve the final section of compressed
\* data": all that the library writes reaches the user.
OutputReachesUser == ~Lost

\* An assertion fails only in a call that had nothing to read and nothing to
\* write, an exception is thrown only with the span full and more to come; and
\* output is lost by bzip2 in the call after a span that the last of it filled,
\* or by zstd in flush(), but never by lzma.
LossIsKnown ==
  /\ op = "abort" => avail_in = 0 /\ held = 0 /\ wrote = 0
  /\ op = "threw" => stage = "flushing" /\ held > 0 /\ wrote = chunkSize
  /\ Lost => codec = (IF op = "abort" THEN "bzip2" ELSE "zstd")

\* zstd, asked to end a stream that it has ended, writes another frame: when
\* that fills the chunk exactly, the loop of flush() goes on for ever.
Endless == op = "flush" /\ codec = "zstd" /\ chunkSize = EmptyFrame

TypeOK ==
  /\ codec \in Codecs /\ chunkSize \in Chunks
  /\ avail_in \in 0 .. MaxIn /\ held \in Nat /\ total \in Nat
  /\ stage \in {"run", "flushing", "ended"} /\ stalled \in BOOLEAN
  /\ op \in {"none", "compress", "flush", "closed", "abort", "threw"}
  /\ read \in 0 .. MaxIn /\ wrote \in 0 .. chunkSize /\ size \in Nat
  /\ given \in 0 .. MaxIn /\ taken \in 0 .. given /\ collected \in BOOLEAN

=============================================================================
