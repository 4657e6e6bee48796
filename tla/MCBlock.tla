------------------------------- MODULE MCBlock -------------------------------
(***************************************************************************)
(* Instance of Blocks for TLC.  The symbols have the format's own sizes:   *)
(* every length, every distance.  The others are small: six symbols, and   *)
(* repeat codes for 3 to 4 of a length, 3 to 4 zeros and 5 to 6 zeros.     *)
(***************************************************************************)
EXTENDS Blocks

MCExtraBits == [n \in 0 .. 5 |-> IF n < 4 THEN 0 ELSE n - 3]
MCStatic == [n \in 0 .. 5 |-> IF n < 2 THEN 2 ELSE 3]

MCOrder == <<16, 17, 18, 0, 2, 1>>

Match(distances, lengths) == [dist : distances, length : lengths]

MCFirst == Match(1 .. 32768, {3}) \cup Match({1, 256, 257, 32768}, 3 .. 258)
             \cup Match({0}, {0, 143, 255})
MCFurther == Match({300}, {258})

=============================================================================
