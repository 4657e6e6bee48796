------------------------------ MODULE MCStream ------------------------------
(***************************************************************************)
(* Instance of Streams for TLC: a byte has two bits, of each length of     *)
(* value the number of ones and the highest bit alone are sent, and stored *)
(* blocks hold no bytes or two.                                            *)
(***************************************************************************)
EXTENDS Streams

MCValues == [k \in 1 .. 4 |-> {0 .. k - 1, {k - 1}}]
MCRaw == {<<>>, <<{0}, {0, 1}>>}

=============================================================================
