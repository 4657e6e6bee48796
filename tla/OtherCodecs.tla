----------------------------- MODULE OtherCodecs -----------------------------
(***************************************************************************)
(* The codecs other than zlib's, and the choice between all of them: three *)
(* components that a user meets one at a time, so that each behaviour is   *)
(* one of them.                                                            *)
(*                                                                         *)
(*   compress    the span and vector methods  (ExternalCompressors)        *)
(*   decompress  the same, of a valid stream  (ExternalDecompressors)      *)
(*   sniff       SniffDecompressor            (Registry)                   *)
(*                                                                         *)
(* Brotli's compressor, which does not return what it wrote, is checked    *)
(* alone.                                                                  *)
(***************************************************************************)
EXTENDS Integers

CONSTANTS
  Chunks,      \* the values chunkSize and outputChunkSize may have
  Inputs,      \* sizes of the inputs of compress(), 0 included
  MaxIn,       \* bound on the input of a stream
  Blocks,      \* sizes of the blocks of decompress(), 0 included
  Stream,      \* bytes in the stream that is decompressed
  Beyond,        \* bytes that follow it
  Yield,       \* bound on the output one call makes ready
  Header,      \* size of the header lzma writes before any input
  EmptyFrame,  \* size of a zstd frame of nothing
  UINT32,      \* what a uint32_t counts up to (2 ^ 32)
  Any          \* bytes that stand for those the formats leave open

VARIABLES
  part,
  codec, chunkSize, avail_in, held, stalled, total, op, collected, wrote, size,
  given, taken,
  stage, read,           \* ExternalCompressors
  in_used, ended,        \* ExternalDecompressors
  format, stream, file   \* Registry

Wrapped == {"bzip2", "lzma", "zstd"}

C == INSTANCE ExternalCompressors WITH Codecs <- Wrapped
D == INSTANCE ExternalDecompressors WITH Codecs <- Wrapped,
                                         outputChunkSize <- chunkSize
R == INSTANCE Registry

ASSUME CodecsAssumption ==
  /\ C!CodecsAssumption /\ C!ChunkAssumption
  /\ D!CodecsAssumption /\ D!SizeAssumption

\* bzip2 counts in 32 bits: a chunk or a piece of 4 GiB and more is cut.
SpansFit == \A n \in Inputs \cup Blocks \cup Chunks : n < UINT32

----------------------------------------------------------------------------
None == "none"

Both == <<codec, chunkSize, avail_in, held, stalled, total, op, collected, wrote,
          size, given, taken>>
COwn == <<stage, read>>
DOwn == <<in_used, ended>>
ROwn == <<format, stream, file>>
vars == <<part, Both, COwn, DOwn, ROwn>>

CIdle == stage = None /\ read = None
DIdle == in_used = None /\ ended = None
RIdle == format = None /\ stream = None /\ file = None
BothIdle ==
  /\ codec = None /\ chunkSize = None /\ avail_in = None /\ held = None
  /\ stalled = None /\ total = None /\ op = None /\ collected = None
  /\ wrote = None /\ size = None /\ given = None /\ taken = None

Init ==
  \/ part = "compress" /\ C!Init /\ DIdle /\ RIdle
  \/ part = "decompress" /\ D!Init /\ CIdle /\ RIdle
  \/ part = "sniff" /\ R!Init /\ BothIdle /\ CIdle /\ DIdle

Next ==
  /\ UNCHANGED part
  /\ \/ part = "compress" /\ C!Next /\ UNCHANGED <<DOwn, ROwn>>
     \/ part = "decompress" /\ D!Next /\ UNCHANGED <<COwn, ROwn>>
     \/ part = "sniff" /\ R!Next /\ UNCHANGED <<Both, COwn, DOwn>>

\* A method, once called, runs on; the user may stop at any time.
Method ==
  /\ UNCHANGED part
  /\ \/ part = "compress" /\ C!Method /\ UNCHANGED <<DOwn, ROwn>>
     \/ part = "decompress" /\ D!Method /\ UNCHANGED <<COwn, ROwn>>

Spec == Init /\ [][Next]_vars /\ WF_vars(Method)

----------------------------------------------------------------------------
(***************************************************************************)
(* Properties.                                                             *)
(***************************************************************************)

\* A span method returns exactly the bytes it wrote, and bytesUsed() is what
\* the library has read: neither counts a byte twice over the loop's calls.
DeliveredIsWritten ==
  /\ part = "compress" => C!TypeOK /\ C!DeliveredIsWritten
  /\ part = "decompress" => D!TypeOK /\ D!DeliveredIsWritten /\ D!UsedIsRead

\* A compress() or decompress() that has returned has read all its input and
\* delivered all it can, a flush() the end of the stream, although the loops
\* stop at the first span that is not full.  A method that fails does lose
\* output that was written, in the cases that LossIsKnown lists and in no other.
OnlyKnownLosses ==
  /\ part = "compress" =>
       C!CompressReadsAll /\ C!ClosedIsWhole /\ C!LossIsKnown
  /\ part = "decompress" =>
       D!NothingHeld /\ D!StreamIsTaken /\ D!LossIsKnown

\* A vector method that is called comes to an end, other than zstd's flush()
\* with a chunk of the size of an empty frame; lzma's flush() ends by returning.
CallsReturn ==
  /\ op \in {"compress", "flush", "decompress"} /\ ~(part = "compress" /\ C!Endless)
       ~> op \in {"none", "closed", "abort", "threw", "terminate"}
  /\ op = "flush" /\ codec = "lzma" ~> op = "closed"

\* With four bytes each format that has a header is told from all others; with
\* fewer only zstd's is taken for another; and a raw stream never for zlib.
HeadersAreTold ==
  part = "sniff" =>
    R!HeadersAreTold /\ R!ZstdNeedsFour /\ R!DeflateIsNotZlib

=============================================================================
