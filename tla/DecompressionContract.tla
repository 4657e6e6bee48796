------------------------ MODULE DecompressionContract ------------------------
(***************************************************************************)
(* What the vector interface of a Decompressor promises its user about a   *)
(* valid stream: output appears in order and never more than the input     *)
(* read so far stands for, a call that returns has delivered everything    *)
(* its input allows, and the stream ends only when all of it is delivered. *)
(***************************************************************************)
EXTENDS Integers

VARIABLES
  decoded,    \* bytes the elements decoded so far stand for
  delivered,  \* bytes handed to the user
  state       \* "waiting" for a call, "busy" in one, "ended"

vars == <<decoded, delivered, state>>

Init == decoded = 0 /\ delivered = 0 /\ state = "waiting"

Call ==
  /\ state = "waiting"
  /\ state' = "busy"
  /\ UNCHANGED <<decoded, delivered>>

Work ==
  /\ state = "busy"
  /\ decoded' \in Nat /\ decoded' >= decoded
  /\ delivered' \in delivered .. decoded'
  /\ UNCHANGED state

\* A match cut short by the end of the input is not decoded yet.
Return ==
  /\ state = "busy" /\ delivered = decoded
  /\ state' \in {"waiting", "ended"}
  /\ UNCHANGED <<decoded, delivered>>

Next == Call \/ Work \/ Return

Spec == Init /\ [][Next]_vars

=============================================================================
