------------------------- MODULE CompressionContract -------------------------
(***************************************************************************)
(* What the vector interface of a Compressor promises its user: everything *)
(* offered before the stream is closed gets coded, nothing is coded twice, *)
(* and flush() delivers a stream that holds all of it.                     *)
(***************************************************************************)
EXTENDS Integers

VARIABLES
  offered,  \* bytes passed to compress()
  stored,   \* bytes the stream written so far decompresses to
  state     \* "open", "closing" once flush() is called, "closed" on return

Init == offered = 0 /\ stored = 0 /\ state = "open"

Offer ==
  /\ state = "open"
  /\ offered' \in Nat /\ offered' >= offered
  /\ UNCHANGED <<stored, state>>

Store ==
  /\ state # "closed"
  /\ stored' \in stored .. offered
  /\ UNCHANGED <<offered, state>>

Close ==
  /\ state = "open"
  /\ state' = "closing"
  /\ UNCHANGED <<offered, stored>>

Closed ==
  /\ state = "closing" /\ stored = offered
  /\ state' = "closed"
  /\ UNCHANGED <<offered, stored>>

Next == Offer \/ Store \/ Close \/ Closed

vars == <<offered, stored, state>>

Safety == Init /\ [][Next]_vars

\* A stream that is being closed gets closed.
Liveness == state = "closing" ~> state = "closed"

Spec == Safety /\ Liveness

=============================================================================
