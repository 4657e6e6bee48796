-------------------------------- MODULE LZ77 --------------------------------
(***************************************************************************)
(* What a match finder promises: the text it has been given is cut, from   *)
(* the left, into literals and matches, and every match is a copy of text  *)
(* that lies at most MAX_DIST bytes back.  deflate_slow() with its hash    *)
(* chains implements this (see HashChains); the decompression side relies  *)
(* on it (see WindowCopy).                                                 *)
(***************************************************************************)
EXTENDS Integers, Sequences, SequencesExt

CONSTANTS
  MIN_MATCH,   \* shortest match coded
  MAX_MATCH,   \* longest match coded
  MAX_DIST     \* furthest a match may reach back

VARIABLES
  text,        \* all bytes given so far
  coded,       \* how many of them have been coded
  symbol       \* the symbol coded last: <<lc>> or <<dist, lc>> as in _tr_tally

vars == <<text, coded, symbol>>

\* lc is the byte of a literal, which has no distance, or the length of a match.
Literal(byte) == <<byte>>
Match(dist, length) == <<dist, length>>

NoSymbol == <<>>

\* Copying length bytes from dist back reproduces the text after position p,
\* one byte at a time, so that a copy may overlap what it writes.
Repeats(t, p, dist, length) ==
  /\ dist \in 1 .. p
  /\ p + length <= Len(t)
  /\ \A i \in p + 1 .. p + length : t[i] = t[i - dist]

Init == text = <<>> /\ coded = 0 /\ symbol = NoSymbol

Extend ==
  /\ IsPrefix(text, text')
  /\ UNCHANGED <<coded, symbol>>

CodeLiteral ==
  /\ coded < Len(text)
  /\ symbol' = Literal(text[coded + 1])
  /\ coded' = coded + 1
  /\ UNCHANGED text

CodeMatch ==
  /\ \E dist \in 1 .. MAX_DIST, length \in MIN_MATCH .. MAX_MATCH :
       /\ Repeats(text, coded, dist, length)
       /\ symbol' = Match(dist, length)
       /\ coded' = coded + length
  /\ UNCHANGED text

Next == Extend \/ CodeLiteral \/ CodeMatch

Spec == Init /\ [][Next]_vars

=============================================================================
