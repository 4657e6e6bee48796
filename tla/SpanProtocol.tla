---------------------------- MODULE SpanProtocol ----------------------------
(***************************************************************************)
(* The span interface of a zlib-based Compressor used the way the README's *)
(* compression sample uses it: compress(in, out) once per block read from  *)
(* the file, then flush(out) once, with input and output buffers of the    *)
(* same size.                                                              *)
(***************************************************************************)
EXTENDS Deflate

CONSTANT BufferSize  \* size of the sample's input and output buffers, not 0

VARIABLES
  fed,     \* bytes the sample has passed to compress()
  flushed  \* the sample has called flush()

allvars == <<vars, fed, flushed>>

SInit == Init /\ fed = 0 /\ flushed = FALSE

\* The loop's body; MaxIn bounds the file.
CompressBlock ==
  /\ ~flushed
  /\ \E n \in 1 .. BufferSize :
       /\ fed + n <= MaxIn
       /\ Compress(n, BufferSize)
       /\ fed' = fed + n
  /\ UNCHANGED flushed

FlushOnce ==
  /\ ~flushed
  /\ Flush(BufferSize)
  /\ flushed' = TRUE
  /\ UNCHANGED fed

Over == ((flushed /\ pc = "idle") \/ pc = "abort") /\ UNCHANGED allvars

SNext ==
  \/ Engine /\ UNCHANGED <<fed, flushed>>
  \/ CompressBlock \/ FlushOnce \/ Over

SSpec == SInit /\ [][SNext]_allvars

----------------------------------------------------------------------------
\* "You can perform multiple calls in sequence to repeatedly add more data to
\* the same stream": no call loses what an earlier one was given.
RepeatedCallsKeepData == fed = total_in + avail_in

=============================================================================
