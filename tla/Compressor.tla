----------------------------- MODULE Compressor -----------------------------
(***************************************************************************)
(* The vector interface of a zlib-based Compressor: the loops of           *)
(* src/shared.cpp around the span methods, and the one-shot compress() of  *)
(* src/short.cpp, run by a user who follows the documented protocol (any   *)
(* number of compress() calls, then one flush()).                          *)
(***************************************************************************)
EXTENDS Deflate

CONSTANT ChunkSize  \* size of the buffer the loops pass to the span methods

ASSUME ChunkAssumption == ChunkSize \in Nat \ {0}

VARIABLES
  op,     \* the vector method that is running
  fed,    \* bytes the user has passed to compress()
  closed  \* flush() has returned

cvars == <<op, fed, closed>>
allvars == <<vars, cvars>>

CInit == Init /\ op = "none" /\ fed = 0 /\ closed = FALSE

\* compressed.size() == chunkSize: the engine filled the buffer.
Filled == avail_out = 0

\* compress(in) for n bytes; "oneshot" is Decoco::compress, which goes on
\* with flush().  MaxIn bounds the run.
BeginCompress(n, method) ==
  /\ op = "none" /\ ~closed
  /\ fed + n <= MaxIn
  /\ Compress(n, ChunkSize)
  /\ op' = method
  /\ fed' = fed + n
  /\ UNCHANGED closed

\* The loop of compress(): again, without input, while the buffer is filled.
CompressAgain ==
  /\ op \in {"compress", "oneshot"} /\ Filled
  /\ Compress(0, ChunkSize)
  /\ UNCHANGED cvars

CompressReturns_AfterOne ==
  /\ op = "compress" /\ pc = "idle"
  /\ op' = "none"
  /\ UNCHANGED <<vars, fed, closed>>

CompressReturns ==
  /\ op = "compress" /\ pc = "idle" /\ ~Filled
  /\ op' = "none"
  /\ UNCHANGED <<vars, fed, closed>>

BeginFlush ==
  /\ \/ op = "none" /\ ~closed
     \/ op = "oneshot" /\ ~Filled
  /\ Flush(ChunkSize)
  /\ op' = "flush"
  /\ UNCHANGED <<fed, closed>>

FlushAgain_Compress ==
  /\ op = "flush" /\ Filled
  /\ Compress(0, ChunkSize)
  /\ UNCHANGED cvars

FlushAgain ==
  /\ op = "flush" /\ Filled
  /\ Flush(ChunkSize)
  /\ UNCHANGED cvars

FlushReturns_AfterOne ==
  /\ op = "flush" /\ pc = "idle"
  /\ op' = "none"
  /\ closed' = TRUE
  /\ UNCHANGED <<vars, fed>>

FlushReturns ==
  /\ op = "flush" /\ pc = "idle" /\ ~Filled
  /\ op' = "none"
  /\ closed' = TRUE
  /\ UNCHANGED <<vars, fed>>

User ==
  \/ \E n \in Inputs, method \in {"compress", "oneshot"} :
       BeginCompress(n, method)
  \/ op = "none" /\ BeginFlush

\* The running code: the engine and the loops.
Running ==
  \/ Engine /\ UNCHANGED cvars
  \/ CompressAgain \/ CompressReturns
  \/ op = "oneshot" /\ BeginFlush
  \/ FlushAgain \/ FlushReturns

\* The user is done with the stream, or a failed assertion ended the program.
Over == (closed \/ pc = "abort") /\ UNCHANGED allvars

CNext == User \/ Running \/ Over

\* A method, once called, runs: the code is sequential.  Nothing obliges the
\* user to call another.
CSpec == CInit /\ [][CNext]_allvars /\ WF_allvars(Running)

----------------------------------------------------------------------------
CTypeOK ==
  /\ TypeOK
  /\ op \in {"none", "compress", "oneshot", "flush"}
  /\ fed \in Nat
  /\ closed \in BOOLEAN

\* The span methods overwrite or discard the input not yet consumed.  Under
\* the vector interface they never do so while there is any.
NoInputDropped == fed = total_in + avail_in

\* No assertion of the wrapper fails under the documented protocol.
NoAbort == pc # "abort"

\* When flush() returns, the user holds a complete stream of all the input.
FlushDeliversAll ==
  closed => format = "trailer" /\ pending = 0 /\ coded = fed

\* What the methods rely on from each other: between calls no input is left
\* behind, only flush() finishes the stream, and when it returns the stream's
\* end has been reported.
CallsInOrder ==
  /\ op \in {"compress", "oneshot"} => ~closed /\ flush = Z_NO_FLUSH
  /\ op = "flush" => ~closed /\ flush = Z_FINISH
  /\ op = "none" => avail_in = 0 /\ pc \in {"idle", "abort"}
  /\ closed => op = "none" /\ ret = "STREAM_END" /\ pc = "idle"
  /\ status = "FINISH" => op = "flush" \/ closed
  /\ pc = "abort" => status = "NULL"
  /\ status = "NULL" => Format = "deflate"

\* The inductive invariant.
CIndInv == IndInv /\ CTypeOK /\ NoInputDropped /\ CallsInOrder

\* The loops end: every vector method that is called returns.
MethodsReturn == op # "none" ~> op = "none"

\* The vector interface keeps the contract.
Contract == INSTANCE CompressionContract WITH
  offered <- fed,
  stored <- coded,
  state <- IF closed THEN "closed"
           ELSE IF op = "flush" THEN "closing" ELSE "open"

KeepsContract == Contract!Spec

=============================================================================
