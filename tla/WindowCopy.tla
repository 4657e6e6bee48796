----------------------------- MODULE WindowCopy -----------------------------
(***************************************************************************)
(* How inflate() and inflate_fast() turn literals and matches into output: *)
(* the circular window with its bytes, updatewindow(), and the copies from *)
(* the window's end, its start and the output itself.  It is the data that *)
(* module Inflate leaves out; bits and codes are left out here, where a    *)
(* call may run out of input after any symbol.                             *)
(*                                                                         *)
(* Every literal is a byte of its own, its place in the text, so that a    *)
(* byte copied from a wrong place always shows.                            *)
(***************************************************************************)
EXTENDS Integers, Sequences

CONSTANTS
  Spans,       \* sizes of the output spans the caller passes
  MaxText,     \* bound on the text
  WSIZE,       \* bytes of the window (1 << wbits, 32768)
  MIN_MATCH,   \* the shortest match (3)
  MAX_MATCH,   \* the longest match (258)
  Lengths,     \* lengths of the matches tried
  MaxDistance, \* the furthest distance a stream can code (32768)
  UNSIGNED     \* what an unsigned int counts up to (2 ^ 32)

MIN(a, b) == IF a < b THEN a ELSE b

SizeAssumption ==
  /\ WSIZE \in Nat \ {0} /\ MaxDistance \in Nat /\ UNSIGNED \in Nat \ {0}
  /\ MIN_MATCH \in Nat \ {0} /\ MAX_MATCH \in Nat /\ MIN_MATCH <= MAX_MATCH
LengthsAssumption == Lengths \subseteq MIN_MATCH .. MAX_MATCH
SpansAssumption == Spans \subseteq Nat

\* The spans are smaller than 4 GiB: their size is kept in an unsigned too.
SpansFit == \A m \in Spans : m < UNSIGNED

VARIABLES
  mode,                          \* LEN, LIT, MATCH or BAD; "fast" in inflate_fast
  calling,                       \* a call is running
  window, wsize, whave, wnext,   \* the circular window
  span,                          \* what this call has written
  out, left,                     \* its avail_out at the start, and now
  length, offset,                \* the literal or match in progress: what of it
                                 \* no loop has been given to copy, its distance
  source, from, copy,            \* the loop that copies: out of the window or the
                                 \* output, from where, bytes still to go
  text,                          \* history: what the symbols decoded stand for
  reach, asked                   \* history: bytes before the last match, its distance

win == <<window, wsize, whave, wnext>>
loop == <<source, from, copy>>
vars == <<mode, calling, win, span, out, left, length, offset, loop, text,
          reach, asked>>

\* Bytes that are none of the text: a fresh window, and memory outside.
Fresh == 0
Outside == -1

----------------------------------------------------------------------------
(***************************************************************************)
(* What a match means: byte by byte from distance back.                    *)
(***************************************************************************)

Expanded(t, distance, n) ==
  IF distance > Len(t) THEN t \o [i \in 1 .. n |-> Outside]
  ELSE [i \in 1 .. Len(t) + n |->
          IF i <= Len(t) THEN t[i]
          ELSE t[((Len(t) - distance) + 1) + (((i - Len(t)) - 1) % distance)]]

----------------------------------------------------------------------------
Init ==
  /\ mode = "LEN" /\ calling = FALSE
  /\ window = <<>> /\ wsize = 0 /\ whave = 0 /\ wnext = 0
  /\ span = <<>> /\ out = 0 /\ left = 0
  /\ length = 0 /\ offset = 0
  /\ source = "output" /\ from = 0 /\ copy = 0
  /\ text = <<>> /\ reach = 0 /\ asked = 0

\* inflate() with an output span of m bytes.
Call(m) ==
  /\ ~calling
  /\ calling' = TRUE
  /\ span' = <<>> /\ out' = m /\ left' = m
  /\ UNCHANGED <<mode, win, length, offset, loop, text, reach, asked>>

----------------------------------------------------------------------------
(***************************************************************************)
(* The modes of inflate().                                                 *)
(***************************************************************************)

Decode(distance, n, t) ==
  /\ offset' = distance /\ length' = n
  /\ text' = t
  /\ reach' = Len(text) /\ asked' = distance

\* A literal code
Literal ==
  /\ calling /\ mode = "LEN"
  /\ mode' = "LIT"
  /\ Decode(0, 1, Append(text, Len(text) + 1))
  /\ UNCHANGED <<calling, win, span, out, left, loop>>

\* A length and distance
LengthDistance(n, distance) ==
  /\ calling /\ mode = "LEN"
  /\ mode' = "MATCH"
  /\ Decode(distance, n, Expanded(text, distance, n))
  /\ UNCHANGED <<calling, win, span, out, left, loop>>

Lit ==
  /\ calling /\ mode = "LIT" /\ left # 0
  /\ span' = Append(span, Len(text))
  /\ left' = left - 1
  /\ length' = 0
  /\ mode' = "LEN"
  /\ UNCHANGED <<calling, win, out, offset, loop, text, reach, asked>>

TooFar_Next(back) == back > wnext

TooFar(back) == back > whave

\* Where in the window a match starts that reaches back behind this call's
\* output.
WindowFrom(back) ==
  IF back > wnext THEN wsize - (back - wnext) ELSE wnext - back

\* Bytes up to the end of that part of the window.
WindowCount(back) ==
  MIN(IF back > wnext THEN back - wnext ELSE back, length)

\* One copy of mode MATCH; it is taken again until length is 0.
Match ==
  /\ calling /\ mode = "MATCH" /\ copy = 0 /\ left # 0
  /\ LET made == out - left
         back == offset - made
         n == MIN(IF offset > made THEN WindowCount(back) ELSE length, left)
     IN  IF offset > made /\ TooFar(back)
           THEN mode' = "BAD" /\ UNCHANGED <<left, length, loop>>
           ELSE /\ IF offset > made
                     THEN source' = "window" /\ from' = WindowFrom(back)
                     ELSE source' = "output" /\ from' = made + 1 - offset
                /\ copy' = n
                /\ left' = left - n
                /\ length' = length - n
                /\ UNCHANGED mode
  /\ UNCHANGED <<calling, win, span, out, offset, text, reach, asked>>

Byte(memory, at) == IF at \in DOMAIN memory THEN memory[at] ELSE Outside

\* *put++ = *from++.  Addresses are those of the code: 0 .. wsize - 1 in the
\* window, the place in the span, from 1, in the output, of which the copy may
\* read what it has written.
CopyByte ==
  /\ calling /\ copy > 0
  /\ span' = Append(span, Byte(IF source = "window" THEN window ELSE span, from))
  /\ from' = from + 1
  /\ copy' = copy - 1
  /\ mode' = IF mode = "MATCH" /\ copy = 1 /\ length = 0 THEN "LEN" ELSE mode
  /\ UNCHANGED <<calling, win, out, left, length, offset, source, text, reach,
                 asked>>

----------------------------------------------------------------------------
(***************************************************************************)
(* inflate_fast().  It copies a match out of up to two parts of the window *)
(* and the output, one loop after the other; length and offset are its len *)
(* and dist.                                                               *)
(***************************************************************************)

\* The loop has room for a match, at its start and before it goes round.
Room == left >= MAX_MATCH

FastRound == calling /\ mode \in {"LEN", "fast"} /\ copy = 0 /\ length = 0 /\ Room

FastLiteral ==
  /\ FastRound
  /\ text' = Append(text, Len(text) + 1)
  /\ span' = Append(span, Len(text'))
  /\ left' = left - 1
  /\ mode' = "fast"
  /\ UNCHANGED <<calling, win, out, length, offset, loop, reach, asked>>

\* max distance in output
InOutput == (out - left) % UNSIGNED

\* Back in the window a match of n bytes starts at from; this many of them are
\* there before its end, or wnext.
WindowPart(back, n) ==
  /\ source' = "window"
  /\ IF wnext = 0
       THEN from' = wsize - back /\ copy' = MIN(back, n)
     ELSE IF wnext < back
       THEN from' = (wsize + wnext) - back /\ copy' = MIN(back - wnext, n)
     ELSE from' = wnext - back /\ copy' = MIN(back, n)

FastMatch(n, distance) ==
  /\ FastRound
  /\ LET back == distance - InOutput
     IN  IF back > 0 /\ TooFar(back)
           THEN /\ mode' = "BAD" /\ left' = left % UNSIGNED
                /\ UNCHANGED <<length, offset, loop, text>>
           ELSE /\ mode' = "fast" /\ left' = left - n
                /\ IF back > 0
                     THEN WindowPart(back, n)
                     ELSE source' = "output" /\ from' = 1 - back /\ copy' = n
                /\ length' = n - copy' /\ offset' = distance
                /\ text' = Expanded(text, distance, n)
  /\ reach' = Len(text) /\ asked' = distance
  /\ UNCHANGED <<calling, win, span, out>>

Wraps_Never == FALSE

\* What was copied came from the window's end, and its start has more.
Wraps == source = "window" /\ wnext # 0 /\ from = wsize

\* The loop is over but the match is not: the next part is at the start of the
\* window, and the rest in the output.
FastNextPart ==
  /\ mode = "fast" /\ copy = 0 /\ length > 0
  /\ IF Wraps
       THEN source' = "window" /\ from' = 0 /\ copy' = MIN(wnext, length)
       ELSE source' = "output" /\ from' = Len(span) + 1 - offset /\ copy' = length
  /\ length' = length - copy'
  /\ UNCHANGED <<mode, calling, win, span, out, left, offset, text, reach, asked>>

\* The loop ends for want of input or of room, or with the block.
FastReturn ==
  /\ mode = "fast" /\ copy = 0 /\ length = 0
  /\ left' = left % UNSIGNED
  /\ mode' = "LEN"
  /\ UNCHANGED <<calling, win, span, out, length, offset, loop, text, reach, asked>>

----------------------------------------------------------------------------
(***************************************************************************)
(* The end of a call.                                                      *)
(***************************************************************************)

\* count bytes that end at the end of the span, put at place at.
Stored(w, at, s, end, count) ==
  [i \in DOMAIN w |->
     IF i \in at .. at + count - 1 THEN Byte(s, (end - count) + 1 + (i - at))
     ELSE w[i]]

WrapsTo_Full(rest) == wsize

\* Where writing goes on after the window's end has been reached.
WrapsTo(rest) == rest

\* What did not fit before the window's end goes to its start.
SecondPart(w, s, rest) == Stored(w, 0, s, Len(s), rest)

updatewindow(n) ==
  LET size == IF wsize = 0 THEN WSIZE ELSE wsize
      w == IF wsize = 0 THEN [i \in 0 .. size - 1 |-> Fresh] ELSE window
      dist == MIN(size - wnext, n)
      first == Stored(w, wnext, span, (Len(span) - n) + dist, dist)
      rest == n - dist
  IN  /\ wsize' = size
      /\ IF n >= size
           THEN /\ window' = Stored(w, 0, span, Len(span), size)
                /\ wnext' = 0 /\ whave' = size
         ELSE IF rest > 0
           THEN /\ window' = SecondPart(first, span, rest)
                /\ wnext' = WrapsTo(rest) /\ whave' = size
         ELSE /\ window' = first
              /\ wnext' = (wnext + dist) % size
              /\ whave' = IF whave < size THEN whave + dist ELSE whave

\* A call ends for want of input, for want of room, or on an error.
Leave ==
  /\ calling
  /\ copy = 0
  /\ mode = "LEN" \/ mode = "BAD" \/ (mode \in {"LIT", "MATCH"} /\ left = 0)
  /\ calling' = FALSE
  /\ IF wsize # 0 \/ (out # left /\ mode # "BAD")
       THEN updatewindow(out - left) ELSE UNCHANGED win
  /\ UNCHANGED <<mode, span, out, left, length, offset, loop, text, reach, asked>>

Symbols ==
  \/ Len(text) < MaxText /\ (Literal \/ FastLiteral)
  \/ \E n \in Lengths, distance \in 1 .. MaxDistance :
       /\ Len(text) + n <= MaxText
       /\ LengthDistance(n, distance) \/ FastMatch(n, distance)

Next ==
  \/ \E m \in Spans : Call(m)
  \/ Symbols \/ Lit \/ Match \/ CopyByte
  \/ FastNextPart \/ FastReturn \/ Leave

Spec == Init /\ [][Next]_vars

----------------------------------------------------------------------------
(***************************************************************************)
(* Properties.                                                             *)
(***************************************************************************)

TypeOK ==
  /\ mode \in {"LEN", "LIT", "MATCH", "BAD", "fast"} /\ calling \in BOOLEAN
  /\ wsize \in {0, WSIZE}
  /\ DOMAIN window = 0 .. wsize - 1
  /\ whave \in 0 .. wsize /\ wnext \in 0 .. WSIZE - 1
  /\ length \in 0 .. MAX_MATCH /\ offset \in 0 .. MaxDistance
  /\ source \in {"window", "output"} /\ from \in Nat /\ copy \in 0 .. MAX_MATCH

\* Bytes of the text that have been written.
Made == (Len(text) - length) - copy

\* What a call has written is the next part of the text, whichever of the
\* window's two parts and the output a match was copied from, however calls
\* cut it, and on the fast path as on the slow one.
OutputIsText ==
  calling =>
    /\ Len(span) <= Made
    /\ \A i \in 1 .. Len(span) : span[i] = text[(Made - Len(span)) + i]

\* Between calls the window holds the last bytes written, all that fit, in
\* the order that ends at wnext.
WindowIsTail ==
  ~calling /\ wsize # 0 =>
    /\ whave = MIN(wsize, Made)
    /\ \A k \in 1 .. whave : window[(wnext - k) % wsize] = text[(Made - k) + 1]

\* Only a distance that reaches behind the first byte, or further than the
\* window, is refused; what the window still holds is not.
OnlyImpossibleRefused ==
  mode = "BAD" => asked > reach \/ asked > WSIZE

\* The copies without checks do not run past the end of the span.
StaysInSpan ==
  calling =>
    /\ left >= 0
    /\ Len(span) + copy + (IF mode = "fast" THEN length ELSE 0) + left = out

=============================================================================
