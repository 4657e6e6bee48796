------------------------ MODULE ExternalDecompressors ------------------------
(***************************************************************************)
(* The bzip2, lzma, zstd and brotli decompressors: the span methods that   *)
(* wrap the libraries' streaming calls, under the loop of src/shared.cpp,  *)
(* fed a valid stream in blocks of any size, and perhaps bytes after it.   *)
(*                                                                         *)
(* The libraries are not part of the source.  They are modelled by what    *)
(* the wrappers rely on: a call reads its input up to the stream's end     *)
(* unless the output span fills, and answers a call after the end, or one  *)
(* that has nothing to do, as each library documents.                      *)
(***************************************************************************)
EXTENDS Integers

CONSTANTS
  Codecs,   \* the wrappers under consideration
  Chunks,   \* the values outputChunkSize may have
  Blocks,   \* sizes of the blocks the user passes, 0 included
  Stream,   \* bytes in the stream
  Beyond,     \* bytes that follow it
  Yield,    \* bound on the output one call makes ready
  UINT32    \* what a uint32_t counts up to (2 ^ 32)

CodecsAssumption == Codecs \subseteq {"bzip2", "lzma", "zstd", "brotli"}
SizeAssumption ==
  /\ Chunks \subseteq Nat \ {0} /\ UINT32 \in Nat \ {0}
  /\ Stream \in Nat /\ Beyond \in Nat
  /\ Blocks \subseteq Nat /\ Yield \in Nat

VARIABLES
  codec, outputChunkSize,
  avail_in, in_used,  \* the wrapper's unread input; what bytesUsed() returns
  held, ended,        \* library: output not yet taken; the end was reported
  stalled, total,     \* lzma: the last call did nothing; brotli: output so far
  op,                 \* "decompress" in the vector method, or how it ended
  collected,          \* its vector, out, holds something
  wrote, size,        \* the last call: bytes written, size of its span
  given, taken        \* history: input of all calls, input the library has read

vars == <<codec, outputChunkSize, avail_in, in_used, held, ended, stalled, total,
          op, collected, wrote, size, given, taken>>

Init ==
  /\ codec \in Codecs /\ outputChunkSize \in Chunks
  /\ avail_in = 0 /\ in_used = 0 /\ held = 0 /\ ended = FALSE
  /\ stalled = FALSE /\ total = 0
  /\ op = "none" /\ collected = FALSE /\ wrote = 0 /\ size = 0 /\ given = 0 /\ taken = 0

Smaller(a, b) == IF a < b THEN a ELSE b

\* bz_stream counts in 32 bits, the other libraries in size_t.
Width(n) == IF codec = "bzip2" THEN n % UINT32 ELSE n

----------------------------------------------------------------------------
\* BZ2_bzDecompress, lzma_code, ZSTD_decompressStream and
\* BrotliDecoderDecompressStream, given n bytes and the output span.  Nothing
\* is read past the stream, and nothing is done once its end was reported.
\* A call that fills the span may leave the end to be reported by the next.
Library(n) ==
  LET within == IF ended THEN 0 ELSE Smaller(n, Stream - taken)
  IN  \E k \in 0 .. within, more \in 0 .. Yield :
        LET ready == held + more
        IN  /\ k = 0 => more = 0
            /\ wrote' = Smaller(ready, Width(outputChunkSize))
            /\ k < within => wrote' = Width(outputChunkSize)
            /\ held' = ready - wrote'
            /\ taken' = taken + k
            /\ total' = IF codec = "brotli" THEN total + wrote' ELSE total
            /\ IF taken' = Stream /\ held' = 0
                 THEN ended' \in {TRUE, ended \/ wrote' < Width(outputChunkSize)}
                 ELSE ended' = FALSE
            /\ stalled' = (codec = "lzma" /\ k = 0 /\ wrote' = 0 /\ ~ended')

\* bzip2 calls any call after the end a wrong sequence; lzma reports the
\* second call in a row that does nothing; zstd takes what follows a frame for
\* another frame, here one it cannot read.
Error(n) ==
  \/ codec = "bzip2" /\ ended
  \/ codec = "lzma" /\ stalled /\ stalled'
  \/ codec = "zstd" /\ ended /\ n > 0

----------------------------------------------------------------------------
(***************************************************************************)
(* decompress(in, out).                                                    *)
(***************************************************************************)

\* Input is taken only when the last block is used up; offering more before
\* ends in std::terminate.
Offered(n) == IF avail_in = 0 THEN Width(n) ELSE avail_in

MayOffer(n) == avail_in = 0 \/ n = 0

\* in_used += avail_in before the call, -= avail_in after it.
Used_Offered(n, left) == in_used + n

Used(n, left) == (in_used + n) - left

\* What is returned: bzip2 takes the 32-bit rest from the 64-bit size, brotli
\* the decoder's total for this call's.
Returned == CASE codec = "brotli" -> total'
              [] codec = "bzip2"  -> outputChunkSize - (Width(outputChunkSize) - wrote')
              [] OTHER            -> wrote'

\* assert() on the library's answer.  Asserts are compiled in.
Refused(n) == Error(n)

decompress(n) ==
  LET input == Offered(n)
  IN  /\ IF MayOffer(n)
           THEN /\ Library(input)
                /\ avail_in' = input - (taken' - taken)
                /\ in_used' = Used(input, avail_in')
                /\ size' = Returned
                /\ op' = CASE Refused(input) /\ codec = "zstd" -> "threw"
                           [] Refused(input) /\ codec # "zstd" -> "abort"
                           [] OTHER -> "decompress"
           ELSE /\ op' = "terminate"
                /\ UNCHANGED <<avail_in, in_used, held, ended, stalled, total,
                               wrote, size, taken>>
      /\ UNCHANGED <<codec, outputChunkSize>>

----------------------------------------------------------------------------
(***************************************************************************)
(* decompress(in), which user code calls block by block.                   *)
(***************************************************************************)

Filled_Never == FALSE

\* decompressed.size() == outputChunkSize.
Filled == size = outputChunkSize

\* out.insert(...) of a span that a call has returned, to what is in out.
Inserted(before) ==
  collected' = (before \/ (op' = "decompress" /\ size' > 0))

BeginDecompress ==
  /\ op = "none"
  /\ \E n \in Blocks :
       /\ given + n <= Stream + Beyond
       /\ given' = given + n
       /\ decompress(n)
  /\ Inserted(FALSE)

Again ==
  /\ op = "decompress" /\ Filled
  /\ decompress(0)
  /\ Inserted(collected)
  /\ UNCHANGED given

Returns ==
  /\ op = "decompress" /\ ~Filled
  /\ op' = "none" /\ collected' = FALSE
  /\ UNCHANGED <<codec, outputChunkSize, avail_in, in_used, held, ended, stalled,
                 total, wrote, size, given, taken>>

Over == op \in {"abort", "threw", "terminate"} /\ UNCHANGED vars

Method == Again \/ Returns

Next == BeginDecompress \/ Method \/ Over

\* A method, once called, runs on; the user may stop at any time.
Spec == Init /\ [][Next]_vars /\ WF_vars(Method)

----------------------------------------------------------------------------
TypeOK ==
  /\ codec \in Codecs /\ outputChunkSize \in Chunks
  /\ avail_in \in 0 .. Stream + Beyond /\ in_used \in 0 .. Stream + Beyond
  /\ held \in Nat /\ total \in Nat /\ ended \in BOOLEAN /\ stalled \in BOOLEAN
  /\ op \in {"none", "decompress", "abort", "threw", "terminate"}
  /\ collected \in BOOLEAN /\ wrote \in 0 .. outputChunkSize /\ size \in Nat
  /\ given \in 0 .. Stream + Beyond /\ taken \in 0 .. Stream

\* A call returns exactly the bytes it wrote.
DeliveredIsWritten == op \in {"none", "decompress"} => size = wrote

\* bytesUsed() is the input the library has read: at the end, the length of
\* the stream, whatever follows it.
UsedIsRead == in_used = taken

\* A decompress() that has returned has delivered what can be decoded from
\* the input of all calls.
NothingHeld == op = "none" => held = 0 /\ taken = Smaller(given, Stream)

\* Input is refused, and an exception thrown, only when there were bytes after
\* the stream: no block of the stream is turned away.
StreamIsTaken == op \in {"terminate", "threw"} => taken = Stream /\ given > Stream

\* A method that fails takes with it what its vector holds and what its last
\* call wrote.  (A block that is refused reaches no library call.)
Lost ==
  /\ op \in {"abort", "threw", "terminate"}
  /\ collected \/ (op # "terminate" /\ wrote > 0)

\* An assertion fails only when all the output was written.  Output is lost
\* only by bzip2, or by zstd when bytes follow the stream, in the call after
\* a span that the end of the stream filled; never by lzma.
LossIsKnown ==
  /\ op = "abort" => held = 0 /\ wrote = 0
  /\ Lost => /\ codec = (IF op = "abort" THEN "bzip2" ELSE "zstd")
             /\ ended /\ taken = Stream /\ held = 0 /\ wrote = 0

=============================================================================
