---------------------------- MODULE Decompressor ----------------------------
(***************************************************************************)
(* The vector interface of a zlib-based Decompressor: the loop of          *)
(* src/shared.cpp around the span method, and the one-shot decompress() of *)
(* src/short.cpp.  The user passes the stream in pieces, or all at once to *)
(* the one-shot function, and passes nothing after the piece that ends it. *)
(***************************************************************************)
EXTENDS Inflate

CONSTANTS
  ChunkSize,   \* outputChunkSize of the decompressor
  OneShotSize  \* buffer of the one-shot decompress() (32768 in the code)

ASSUME ChunkAssumption ==
  ChunkSize \in Nat \ {0} /\ OneShotSize \in Nat \ {0}

VARIABLE op  \* what is running: "none", "vector", "oneshot", "drain"

allvars == <<vars, op>>

DInit == Init /\ op = "none"

\* decompressed.size() == outputChunkSize: the engine filled the buffer.
Filled == avail_out = 0

\* output.empty()
Empty == avail_out = OneShotSize

\* MaxIn bounds the run.
BeginVector(n) ==
  /\ op = "none" /\ mode # "DONE"
  /\ in_used + n <= MaxIn
  /\ Decompress(n, ChunkSize)
  /\ op' = "vector"

VectorAgain_SameInput ==
  /\ op = "vector" /\ Filled
  /\ Decompress(1, ChunkSize)
  /\ UNCHANGED op

VectorAgain_Always ==
  /\ op = "vector"
  /\ Decompress(0, ChunkSize)
  /\ UNCHANGED op

\* The loop of decompress(): again, without input, while the buffer is filled.
VectorAgain ==
  /\ op = "vector" /\ Filled
  /\ Decompress(0, ChunkSize)
  /\ UNCHANGED op

VectorReturns_AfterOne ==
  /\ op = "vector" /\ pc = "idle"
  /\ op' = "none"
  /\ UNCHANGED vars

VectorReturns ==
  /\ op = "vector" /\ pc = "idle" /\ ~Filled
  /\ op' = "none"
  /\ UNCHANGED vars

\* Decoco::decompress on a new decompressor.
BeginOneShot(n) ==
  /\ op = "none" /\ mode = "HEAD" /\ in_used = 0
  /\ n <= MaxIn
  /\ Decompress(n, OneShotSize)
  /\ op' = "oneshot"

\* Its loop goes on until a call gives nothing at all.
OneShotAgain ==
  /\ \/ op = "oneshot" /\ Filled
     \/ op = "drain" /\ ~Empty
  /\ Decompress(0, OneShotSize)
  /\ op' = "drain"

OneShotReturns ==
  /\ pc = "idle"
  /\ \/ op = "oneshot" /\ ~Filled
     \/ op = "drain" /\ Empty
  /\ op' = "none"
  /\ UNCHANGED vars

User == \E n \in Inputs : BeginVector(n) \/ BeginOneShot(n)

\* The running code: the engine and the loops.
Running ==
  \/ Engine /\ UNCHANGED op
  \/ VectorAgain \/ VectorReturns \/ OneShotAgain \/ OneShotReturns

\* The user is done, or a failed assertion ended the program.
Finished ==
  /\ (op = "none" /\ pc = "idle") \/ pc = "abort"
  /\ UNCHANGED allvars

DNext == User \/ Running \/ Finished

\* A method, once called, runs: the code is sequential.
DSpec == DInit /\ [][DNext]_allvars /\ WF_allvars(Running)

----------------------------------------------------------------------------
DTypeOK == TypeOK /\ op \in {"none", "vector", "oneshot", "drain"}

\* A method that returns has taken all its input, unless the stream ended, so
\* the next piece can be passed without hitting std::terminate.
InputTaken ==
  /\ DTypeOK
  /\ op = "none" /\ ~Dead => avail_in = 0 \/ mode = "DONE"

\* A valid stream trips the assertion on the result for two reasons only:
\* Z_BUF_ERROR in a loop's extra call, when the buffer was filled by the last of
\* the output the input allows, and a preset dictionary, asked for before
\* there is any output.
AbortsForTwoReasons ==
  ~Corrupt /\ Dead =>
    \/ ret = "BUF_ERROR" /\ avail_in = 0
    \/ ret = "NEED_DICT" /\ wrap = "zlib" /\ due = 0

\* A method, once called, returns or the program is aborted.
MethodsReturn == op # "none" ~> op = "none" \/ Dead

\* The vector interface keeps the contract.  The length of a match counts as
\* decoded when its distance is known too.
Contract == INSTANCE DecompressionContract WITH
  decoded <- due - (IF mode \in {"COPY", "LENEXT", "DIST", "DISTEXT"}
                      THEN length ELSE 0),
  delivered <- total + (IF pc \in {"run", "fast"} THEN out - avail_out ELSE 0),
  state <- IF op # "none" THEN "busy"
           ELSE IF mode = "DONE" THEN "ended" ELSE "waiting"

KeepsContract == Contract!Spec

\* No assertion fails while a valid stream is decompressed piece by piece.
NoAbort == ~Dead

=============================================================================
