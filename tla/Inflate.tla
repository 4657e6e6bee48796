------------------------------- MODULE Inflate -------------------------------
(***************************************************************************)
(* The decompression engine: inflate() of src/zlib/inflate.cpp with        *)
(* inflate_fast() and updatewindow(), as the gzip and zlib wrappers call   *)
(* it.  Bits and bytes are counted, not represented: the module follows    *)
(* the input bit by bit through the accumulator `hold` and the output byte *)
(* by byte into the caller's span and the circular window, across calls    *)
(* that end anywhere.  What the stream holds is nondeterministic; an       *)
(* element that a call may have to give up on half-way (`sym`, `length`)   *)
(* is chosen when the previous one is done, so that the next call finds    *)
(* the same one.                                                           *)
(*                                                                         *)
(* A definition named X_Bug is X with a plausible mistake in it; none is   *)
(* used by the specification.                                              *)
(***************************************************************************)
EXTENDS Integers

CONSTANTS
  Formats,      \* the wrappers: "gzip", "zlib"
  Corrupt,      \* whether the input may be something else than a valid stream
  WSIZE,        \* window size (32768 in the code)
  FastRoom,     \* output inflate_fast needs per round (258 in the code)
  CodeBits,     \* lengths in bits of literal/length codes
  DistBits,     \* lengths in bits of distance codes
  LenExtra,     \* numbers of extra bits of a length
  DistExtra,    \* numbers of extra bits of a distance
  Lengths,      \* match lengths
  StoredLens,   \* lengths of stored blocks
  HeaderFlags,  \* optional gzip header fields a stream may have
  NCODE,        \* code length codes in a dynamic block's header
  NLEN,         \* code lengths in a dynamic block's header
  Inputs,       \* sizes of the input spans the caller passes
  Outputs,      \* sizes of the output spans the caller passes
  MaxElements,  \* bound on the blocks and symbols of a stream
  MaxIn         \* bound on the bytes the caller passes in

ASSUME FormatAssumption ==
  Formats \subseteq {"gzip", "zlib"} /\ Corrupt \in BOOLEAN
ASSUME SizeAssumption ==
  /\ WSIZE \in Nat \ {0}
  /\ Lengths \subseteq Nat \ {0} /\ StoredLens \subseteq Nat
  /\ FastRoom \in Nat \ {0} /\ \A l \in Lengths : l <= FastRoom
  /\ NCODE \in Nat /\ NLEN \in Nat \ {0}
ASSUME CodeAssumption ==
  /\ CodeBits \subseteq 1 .. 15 /\ DistBits \subseteq 1 .. 15
  /\ LenExtra \subseteq 0 .. 5 /\ DistExtra \subseteq 0 .. 13
  /\ HeaderFlags \subseteq {"EXTRA", "NAME", "COMMENT", "HCRC"}
ASSUME CallerAssumption ==
  /\ Inputs \subseteq Nat /\ Outputs \subseteq Nat
  /\ MaxElements \in Nat /\ MaxIn \in Nat

VARIABLES
  \* z_stream, and the wrapper's count of the input used
  avail_in, avail_out, in_used,
  \* inflate_state
  mode, last, bits, length, offset, nread, total,
  wsize, whave, wnext,
  \* history: the output position of the byte in each place of the window
  \* (-1: none)
  window,
  \* inflate()'s locals in and out: what was available at the call's start
  in, out,
  \* the stream: optional header fields present, what windowBits selected, the
  \* next code, elements so far, bits of finished elements, bytes they stand for
  flags, wrap, sym, elements, pos, due,
  \* control: "idle", "run" (the mode switch), "fast", "abort"; last result
  pc, ret

strm == <<avail_in, avail_out, in_used>>
counts == <<length, offset, nread>>
circular == <<wsize, whave, wnext, window>>
stream == <<flags, wrap, sym, elements, pos, due>>
vars == <<avail_in, avail_out, in_used, mode, last, bits, length, offset,
          nread, total, wsize, whave, wnext, window, in, out, flags, wrap,
          sym, elements, pos, due, pc, ret>>

MIN(a, b) == IF a > b THEN b ELSE a

NoSym == [kind |-> "none", code |-> 0, lenext |-> 0, dist |-> 0,
          distext |-> 0, length |-> 0, distance |-> 0]

Symbol ==
  [kind : {"none", "lengths", "literal", "match", "end"}, code : 0 .. 15,
   lenext : 0 .. 5, dist : 0 .. 15, distext : 0 .. 13, length : Nat,
   distance : 0 .. WSIZE]

\* inflateInit2: windowBits 31 (gzip) and 15 (zlib) are both accepted.
Init ==
  /\ avail_in = 0 /\ avail_out = 0 /\ in_used = 0
  /\ mode = "HEAD" /\ last = FALSE /\ bits = 0
  /\ length = 0 /\ offset = 0 /\ nread = 0 /\ total = 0
  /\ wsize = 0 /\ whave = 0 /\ wnext = 0
  /\ window = [i \in 0 .. WSIZE - 1 |-> -1]
  /\ in = 0 /\ out = 0
  /\ wrap \in Formats /\ flags = {}
  /\ sym = NoSym /\ elements = 0 /\ pos = 0 /\ due = 0
  /\ pc = "idle" /\ ret = "OK"

----------------------------------------------------------------------------
(***************************************************************************)
(* The wrappers' decompress(in, out).                                      *)
(***************************************************************************)

\* New input is accepted only when the previous one is used up; offering
\* some earlier terminates the program.
Decompress(n, m) ==
  /\ pc = "idle"
  /\ avail_in' = IF avail_in = 0 THEN n ELSE avail_in
  /\ avail_out' = m
  /\ in_used' = in_used + avail_in'
  /\ in' = avail_in' /\ out' = m
  /\ pc' = IF avail_in # 0 /\ n # 0 THEN "abort" ELSE "run"
  /\ UNCHANGED <<mode, last, bits, total, counts, circular, stream, ret>>

\* in_used -= avail_in, and the assertion on the result.
Return(r) ==
  /\ ret' = r
  /\ in_used' = in_used - avail_in'
  /\ pc' = IF r \in {"OK", "STREAM_END"} THEN "idle" ELSE "abort"

----------------------------------------------------------------------------
(***************************************************************************)
(* The bit accumulator: PULLBYTE, NEEDBITS, DROPBITS, INITBITS, BYTEBITS.  *)
(***************************************************************************)

Aligned_Forgotten == bits

\* BYTEBITS, in the mode that starts with it.
Aligned == IF mode = "STORED" THEN bits - (bits % 8) ELSE bits

Pulled_Short(n) == IF Aligned >= n THEN 0 ELSE (n - Aligned) \div 8

\* Bytes NEEDBITS(n) pulls.
Pulled(n) == IF Aligned >= n THEN 0 ELSE (n - Aligned + 7) \div 8

Enough(n) == Pulled(n) <= avail_in

\* NEEDBITS(n) and DROPBITS(n).
TakeBits(n) ==
  /\ Enough(n)
  /\ avail_in' = avail_in - Pulled(n)
  /\ bits' = Aligned + 8 * Pulled(n) - n
  /\ pos' = pos + (bits - Aligned) + n

\* NEEDBITS(n) and INITBITS: the accumulator is cleared, whatever it holds.
TakeField(n) ==
  /\ Enough(n)
  /\ avail_in' = avail_in - Pulled(n)
  /\ bits' = 0
  /\ pos' = pos + (bits - Aligned) + n

\* The bits the current mode asks for.
Needed ==
  CASE mode \in {"HEAD", "FLAGS", "OS"} -> 16
    [] mode \in {"TIME", "DICTID", "STORED", "CHECK"} -> 32
    [] mode = "EXLEN" -> IF "EXTRA" \in flags THEN 16 ELSE 0
    [] mode = "HCRC" -> IF "HCRC" \in flags THEN 16 ELSE 0
    [] mode = "TYPE" -> IF last THEN 0 ELSE 3
    [] mode = "TABLE" -> 14
    [] mode = "LENLENS" -> IF nread < NCODE THEN 3 ELSE 0
    [] mode = "CODELENS" -> IF nread < NLEN THEN sym.code ELSE 0
    [] mode = "LEN" -> sym.code
    [] mode = "LENEXT" -> sym.lenext
    [] mode = "DIST" -> sym.dist
    [] mode = "DISTEXT" -> sym.distext
    [] mode = "LENGTH" -> IF wrap = "gzip" THEN 32 ELSE 0
    [] OTHER -> 0

----------------------------------------------------------------------------
(***************************************************************************)
(* updatewindow and inf_leave.                                             *)
(***************************************************************************)

updatewindow_Stuck(copy) ==
  /\ wsize' = WSIZE /\ whave' = IF copy >= WSIZE THEN WSIZE ELSE whave
  /\ wnext' = IF copy >= WSIZE THEN 0 ELSE (wnext + copy) % WSIZE
  /\ UNCHANGED window

updatewindow_NoWrap(copy) ==
  LET end == total + copy
      dist == MIN(WSIZE - wnext, copy)
  IN  /\ wsize' = WSIZE
      /\ whave' = MIN(whave + dist, WSIZE)
      /\ wnext' = (wnext + dist) % WSIZE
      /\ window' = [i \in 0 .. WSIZE - 1 |->
                      IF i \in wnext .. wnext + dist - 1
                        THEN end - copy + (i - wnext) ELSE window[i]]

\* The last `copy` bytes of output enter the circular window, created on first
\* use: the last WSIZE of them, or as many as fit up to the window's end and
\* the rest from its start.
updatewindow(copy) ==
  LET end == total + copy
      dist == MIN(WSIZE - wnext, copy)
      rest == copy - dist
  IN  /\ wsize' = WSIZE
      /\ IF copy >= WSIZE
           THEN /\ whave' = WSIZE /\ wnext' = 0
                /\ window' = [i \in 0 .. WSIZE - 1 |-> end - WSIZE + i]
           ELSE /\ IF rest > 0
                     THEN whave' = WSIZE /\ wnext' = rest
                     ELSE /\ wnext' = IF wnext + dist = WSIZE
                                        THEN 0 ELSE wnext + dist
                          /\ whave' = IF whave < WSIZE THEN whave + dist
                                      ELSE whave
                /\ window' = [i \in 0 .. WSIZE - 1 |->
                     IF i \in wnext .. wnext + dist - 1
                       THEN end - copy + (i - wnext)
                     ELSE IF i < rest THEN end - rest + i ELSE window[i]]

\* inf_leave: the window, the totals, and Z_BUF_ERROR for a call that neither
\* took nor gave anything.
Leave(r) ==
  /\ IF wsize # 0 \/ (out # avail_out /\ mode # "BAD")
       THEN updatewindow(out - avail_out)
       ELSE UNCHANGED circular
  /\ total' = total + (out - avail_out)
  /\ Return(IF r = "OK" /\ in = avail_in' /\ out = avail_out
              THEN "BUF_ERROR" ELSE r)
  /\ UNCHANGED <<avail_out, in, out>>

\* Not enough input for what the mode needs: all of it goes into the
\* accumulator.
Starve ==
  /\ pc = "run"
  /\ ~Enough(Needed)
  /\ avail_in' = 0
  /\ bits' = Aligned + 8 * avail_in
  /\ pos' = pos + (bits - Aligned)
  /\ Leave("OK")
  /\ UNCHANGED <<mode, last, counts, flags, wrap, sym, elements, due>>

----------------------------------------------------------------------------
(***************************************************************************)
(* Headers.                                                                *)
(***************************************************************************)

\* Everything but the input and the mode stays.
Proceed(next) ==
  /\ mode' = next
  /\ UNCHANGED <<avail_out, in_used, last, total, circular, in, out, sym,
                 elements, due, pc, ret>>

\* BAD is entered when a check on a field fails.  What the field leaves in
\* the accumulator no longer matters: Z_DATA_ERROR ends the program.
Reject(next) == next # "BAD" \/ Corrupt

\* gzip: magic bytes; zlib: method, window size and dictionary flag.
Head ==
  /\ pc = "run" /\ mode = "HEAD"
  /\ TakeField(16)
  /\ \E next \in {IF wrap = "gzip" THEN "FLAGS" ELSE "TYPE", "BAD"} \cup
                 (IF wrap = "zlib" THEN {"DICTID"} ELSE {}) :
       Reject(next) /\ Proceed(next)
  /\ UNCHANGED <<counts, flags, wrap>>

Flags ==
  /\ pc = "run" /\ mode = "FLAGS"
  /\ TakeField(16)
  /\ flags' \in SUBSET HeaderFlags /\ UNCHANGED wrap
  /\ \E next \in {"TIME", "BAD"} : Reject(next) /\ Proceed(next)
  /\ UNCHANGED counts

\* The fields of fixed size.
HeaderField ==
  /\ pc = "run"
  /\ IF Needed = 0 THEN UNCHANGED <<avail_in, bits, pos>> ELSE TakeField(Needed)
  /\ \/ mode = "TIME" /\ Proceed("OS")
     \/ mode = "OS" /\ Proceed("EXLEN")
     \/ mode = "HCRC" /\ \E next \in {"TYPE", "BAD"} :
          Reject(next) /\ (next = "BAD" => "HCRC" \in flags) /\ Proceed(next)
     \/ mode = "DICTID" /\ Proceed("DICT")
  /\ UNCHANGED <<counts, flags, wrap>>

ExtraLength ==
  /\ pc = "run" /\ mode = "EXLEN"
  /\ IF "EXTRA" \in flags
       THEN TakeField(16) /\ length' \in {0, 3}
       ELSE UNCHANGED <<avail_in, bits, pos, length>>
  /\ Proceed("EXTRA")
  /\ UNCHANGED <<offset, nread, flags, wrap>>

\* The extra field is skipped, over as many calls as it takes.
Extra ==
  /\ pc = "run" /\ mode = "EXTRA"
  /\ LET copy == IF "EXTRA" \in flags THEN MIN(length, avail_in) ELSE 0
     IN  /\ avail_in' = avail_in - copy
         /\ pos' = pos + 8 * copy
         /\ IF "EXTRA" \in flags /\ copy < length
              THEN /\ length' = length - copy
                   /\ Leave("OK")
                   /\ UNCHANGED <<mode, last, sym, elements, due>>
              ELSE length' = 0 /\ Proceed("NAME")
  /\ UNCHANGED <<bits, offset, nread, flags, wrap>>

\* A zero-terminated name or comment, which may end anywhere in the input.
String ==
  /\ pc = "run" /\ mode \in {"NAME", "COMMENT"}
  /\ IF mode \in flags
       THEN \/ /\ avail_in' = 0
               /\ pos' = pos + 8 * avail_in
               /\ Leave("OK")
               /\ UNCHANGED <<mode, last, sym, elements, due>>
            \/ \E k \in 1 .. avail_in :
                 /\ avail_in' = avail_in - k
                 /\ pos' = pos + 8 * k
                 /\ Proceed(IF mode = "NAME" THEN "COMMENT" ELSE "HCRC")
       ELSE /\ Proceed(IF mode = "NAME" THEN "COMMENT" ELSE "HCRC")
            /\ UNCHANGED <<avail_in, pos>>
  /\ UNCHANGED <<bits, counts, flags, wrap>>

\* A preset dictionary is asked for; the wrapper has none.
NeedDict ==
  /\ pc = "run" /\ mode = "DICT"
  /\ UNCHANGED <<avail_in, avail_out, mode, last, bits, total, counts,
                 circular, in, out, stream>>
  /\ Return("NEED_DICT")

----------------------------------------------------------------------------
(***************************************************************************)
(* Blocks.  TYPE and TYPEDO, LEN_ and LEN, COPY_ and COPY differ only for  *)
(* flush values the wrappers never use.                                    *)
(***************************************************************************)

More == elements < MaxElements

Literals == {[NoSym EXCEPT !.kind = "literal", !.code = c, !.length = 1] :
               c \in CodeBits}
Matches(behind) ==
  {[kind |-> "match", code |-> c, lenext |-> e, dist |-> d, distext |-> x,
    length |-> l, distance |-> o] :
      c \in CodeBits, e \in LenExtra, d \in DistBits, x \in DistExtra,
      l \in Lengths, o \in 1 .. IF Corrupt THEN WSIZE ELSE MIN(behind, WSIZE)}
EndOfBlock == {[NoSym EXCEPT !.kind = "end", !.code = c] : c \in CodeBits}

\* The stream's next literal/length code.  A valid stream's match reaches
\* back to output that exists (behind bytes) and is in the window.
NextSymbol(behind) ==
  /\ elements' = elements + 1
  /\ sym' \in EndOfBlock \cup (IF More THEN Literals \cup Matches(behind) ELSE {})

\* The next code length, or run of them, in a dynamic block's header.
NextCodeLength(n) ==
  \E c \in CodeBits, l \in 1 .. NLEN - n :
    sym' = [NoSym EXCEPT !.kind = "lengths", !.code = c, !.length = l]

BlockType ==
  /\ pc = "run" /\ mode = "TYPE" /\ ~last
  /\ TakeBits(3)
  /\ last' \in (IF More THEN BOOLEAN ELSE {TRUE})
  /\ \/ mode' = "STORED" /\ elements' = elements + 1 /\ UNCHANGED sym
     \/ mode' = "TABLE" /\ elements' = elements + 1 /\ UNCHANGED sym
     \/ mode' = "LEN" /\ NextSymbol(due)
     \/ Corrupt /\ mode' = "BAD" /\ UNCHANGED <<sym, elements>>
  /\ UNCHANGED <<avail_out, in_used, total, counts, circular, in, out, flags,
                 wrap, due, pc, ret>>

LastBlockDone_Unaligned ==
  /\ pc = "run" /\ mode = "TYPE" /\ last
  /\ Proceed("CHECK")
  /\ UNCHANGED <<avail_in, bits, pos, counts, flags, wrap>>

\* After the last block, the rest of its last byte is skipped.
LastBlockDone ==
  /\ pc = "run" /\ mode = "TYPE" /\ last
  /\ bits' = bits - (bits % 8)
  /\ pos' = pos + (bits % 8)
  /\ Proceed("CHECK")
  /\ UNCHANGED <<avail_in, counts, flags, wrap>>

Stored ==
  /\ pc = "run" /\ mode = "STORED"
  /\ TakeField(32)
  /\ \/ mode' = "COPY" /\ length' \in StoredLens
     \/ Corrupt /\ mode' = "BAD" /\ UNCHANGED length
  /\ due' = due + length' - length
  /\ UNCHANGED <<avail_out, in_used, last, total, offset, nread, circular, in,
                 out, flags, wrap, sym, elements, pc, ret>>

\* Stored bytes go straight from the input span to the output span.
Copy ==
  /\ pc = "run" /\ mode = "COPY" /\ length # 0
  /\ LET copy == MIN(MIN(length, avail_in), avail_out)
     IN  IF copy = 0
           THEN UNCHANGED <<avail_in, length, pos>> /\ Leave("OK")
           ELSE /\ avail_in' = avail_in - copy
                /\ avail_out' = avail_out - copy
                /\ length' = length - copy
                /\ pos' = pos + 8 * copy
                /\ UNCHANGED <<in_used, total, circular, in, out, pc, ret>>
  /\ UNCHANGED <<mode, last, bits, offset, nread, flags, wrap, sym, elements,
                 due>>

Copied ==
  /\ pc = "run" /\ mode = "COPY" /\ length = 0
  /\ Proceed("TYPE")
  /\ UNCHANGED <<avail_in, bits, counts, flags, wrap, pos>>

Table ==
  /\ pc = "run" /\ mode = "TABLE"
  /\ TakeBits(14)
  /\ nread' = 0
  /\ \E next \in {"LENLENS", "BAD"} : Reject(next) /\ Proceed(next)
  /\ UNCHANGED <<length, offset, flags, wrap>>

LenLens ==
  /\ pc = "run" /\ mode = "LENLENS" /\ nread < NCODE
  /\ TakeBits(3)
  /\ nread' = nread + 1
  /\ Proceed("LENLENS")
  /\ UNCHANGED <<length, offset, flags, wrap>>

\* The code length code is built.
CodeTable ==
  /\ pc = "run" /\ mode = "LENLENS" /\ nread = NCODE
  /\ nread' = 0
  /\ \/ mode' = "CODELENS" /\ NextCodeLength(0)
     \/ Corrupt /\ mode' = "BAD" /\ UNCHANGED sym
  /\ UNCHANGED <<strm, last, bits, length, offset, total, circular, in, out,
                 flags, wrap, elements, pos, due, pc, ret>>

CodeLens ==
  /\ pc = "run" /\ mode = "CODELENS" /\ nread < NLEN
  /\ TakeBits(sym.code)
  /\ nread' = nread + sym.length
  /\ \/ /\ UNCHANGED mode
        /\ IF nread' < NLEN THEN NextCodeLength(nread') ELSE UNCHANGED sym
     \/ Corrupt /\ mode' = "BAD" /\ UNCHANGED sym
  /\ UNCHANGED <<avail_out, in_used, last, length, offset, total, circular,
                 in, out, flags, wrap, elements, due, pc, ret>>

\* The literal/length and distance codes are built.
Tables ==
  /\ pc = "run" /\ mode = "CODELENS" /\ nread = NLEN
  /\ \/ mode' = "LEN" /\ NextSymbol(due)
     \/ Corrupt /\ mode' = "BAD" /\ UNCHANGED <<sym, elements>>
  /\ UNCHANGED <<strm, last, bits, total, counts, circular, in, out, flags,
                 wrap, pos, due, pc, ret>>

----------------------------------------------------------------------------
(***************************************************************************)
(* Codes, one at a time.                                                   *)
(***************************************************************************)

FastPossible_OutputOnly == avail_out >= FastRoom

\* inflate_fast looks at the input only between rounds of at most 6 bytes.
FastPossible == avail_in >= 6 /\ avail_out >= FastRoom

\* The literal/length code.
Len ==
  /\ pc = "run" /\ mode = "LEN" /\ ~FastPossible
  /\ TakeBits(sym.code)
  /\ length' = sym.length
  /\ due' = due + sym.length
  /\ \/ /\ mode' = CASE sym.kind = "literal" -> "LIT"
                     [] sym.kind = "match" -> "LENEXT"
                     [] sym.kind = "end" -> "TYPE"
        /\ UNCHANGED sym
     \/ Corrupt /\ mode' = "BAD" /\ UNCHANGED sym
  /\ UNCHANGED <<avail_out, in_used, last, offset, nread, total, circular, in,
                 out, flags, wrap, elements, pc, ret>>

LenExt ==
  /\ pc = "run" /\ mode = "LENEXT"
  /\ TakeBits(sym.lenext)
  /\ Proceed("DIST")
  /\ UNCHANGED <<counts, flags, wrap>>

Dist ==
  /\ pc = "run" /\ mode = "DIST"
  /\ TakeBits(sym.dist)
  /\ \E next \in {"DISTEXT", "BAD"} : Reject(next) /\ Proceed(next)
  /\ UNCHANGED <<counts, flags, wrap>>

DistExt ==
  /\ pc = "run" /\ mode = "DISTEXT"
  /\ TakeBits(sym.distext)
  /\ offset' = sym.distance
  /\ Proceed("MATCH")
  /\ UNCHANGED <<length, nread, flags, wrap>>

\* How far before this call's output the match goes on.
Back == offset - (out - avail_out)

\* Where it is in the window.
From == IF Back > wnext THEN wnext + wsize - Back ELSE wnext - Back

CopyLength_PastEnd == MIN(MIN(IF Back <= 0 THEN length ELSE Back, length),
                          avail_out)

\* It is copied up to where the window's contiguous part or the output span
\* ends; bytes of this call's output are followed to the end of the match.
CopyLength ==
  LET run == IF Back <= 0 THEN length
             ELSE MIN(IF Back > wnext THEN Back - wnext ELSE Back, length)
  IN  MIN(run, avail_out)

Match ==
  /\ pc = "run" /\ mode = "MATCH" /\ avail_out # 0
  /\ IF Back > whave
       THEN mode' = "BAD" /\ UNCHANGED <<avail_out, length, sym, elements>>
       ELSE /\ avail_out' = avail_out - CopyLength
            /\ length' = length - CopyLength
            /\ IF length' = 0
                 THEN mode' = "LEN" /\ NextSymbol(due)
                 ELSE UNCHANGED <<mode, sym, elements>>
  /\ UNCHANGED <<avail_in, in_used, last, bits, offset, nread, total, circular,
                 in, out, flags, wrap, pos, due, pc, ret>>

\* length, dead once the literal is out, is reset to keep states few.
Lit ==
  /\ pc = "run" /\ mode = "LIT" /\ avail_out # 0
  /\ avail_out' = avail_out - 1
  /\ length' = 0
  /\ mode' = "LEN"
  /\ NextSymbol(due)
  /\ UNCHANGED <<avail_in, in_used, last, bits, offset, nread, total, circular,
                 in, out, flags, wrap, pos, due, pc, ret>>

\* A decoded literal or match waits for room in the next output span.
NoRoom ==
  /\ pc = "run" /\ mode \in {"MATCH", "LIT"} /\ avail_out = 0
  /\ UNCHANGED <<avail_in, mode, last, bits, counts, stream>>
  /\ Leave("OK")

----------------------------------------------------------------------------
(***************************************************************************)
(* inflate_fast: no check for input or output within a round.              *)
(***************************************************************************)

EnterFast ==
  /\ pc = "run" /\ mode = "LEN" /\ FastPossible
  /\ pc' = "fast"
  /\ UNCHANGED <<strm, mode, last, bits, total, counts, circular, in, out,
                 stream, ret>>

\* Two bytes are pulled when fewer than 15 bits are held, ...
Refill15(b) == IF b < 15 THEN 2 ELSE 0
\* ... and single ones for extra bits.
Refill(b, n) == IF b >= n THEN 0 ELSE IF b + 8 >= n THEN 1 ELSE 2

\* One round: a literal, a whole match, the end of the block, or an invalid
\* code or distance.
FastRound ==
  /\ pc = "fast" /\ mode = "LEN" /\ FastPossible
  /\ LET p1 == Refill15(bits)
         b1 == bits + 8 * p1 - sym.code
         match == sym.kind = "match"
         p2 == IF match THEN Refill(b1, sym.lenext) ELSE 0
         b2 == b1 + 8 * p2 - sym.lenext
         p3 == IF match THEN Refill15(b2) ELSE 0
         b3 == b2 + 8 * p3 - sym.dist
         p4 == IF match THEN Refill(b3, sym.distext) ELSE 0
         far == match /\ sym.distance - (out - avail_out) > whave
     IN  /\ avail_in' = avail_in - (p1 + p2 + p3 + p4)
         /\ bits' = b3 + 8 * p4 - sym.distext
         /\ pos' = pos + sym.code + sym.lenext + sym.dist + sym.distext
         /\ due' = due + sym.length
         /\ \/ /\ far \/ Corrupt
               /\ mode' = "BAD"
               /\ UNCHANGED <<avail_out, sym, elements>>
            \/ /\ ~far
               /\ avail_out' = avail_out - sym.length
               /\ IF sym.kind = "end"
                    THEN mode' = "TYPE" /\ UNCHANGED <<sym, elements>>
                    ELSE UNCHANGED mode /\ NextSymbol(due + sym.length)
  /\ UNCHANGED <<in_used, last, counts, total, circular, in, out, flags, wrap,
                 pc, ret>>

\* Whole bytes left in the accumulator go back to the input.
FastReturn ==
  /\ pc = "fast"
  /\ mode # "LEN" \/ ~FastPossible
  /\ avail_in' = avail_in + bits \div 8
  /\ bits' = bits % 8
  /\ pc' = "run"
  /\ UNCHANGED <<avail_out, in_used, mode, last, total, counts, circular, in,
                 out, stream, ret>>

----------------------------------------------------------------------------
(***************************************************************************)
(* Trailer.                                                                *)
(***************************************************************************)

Check_Twice ==
  /\ pc = "run" /\ mode = "CHECK"
  /\ TakeField(32)
  /\ total' = total + (out - avail_out)
  /\ \E next \in {"LENGTH", "BAD"} : Reject(next) /\ mode' = next
  /\ UNCHANGED <<avail_out, in_used, last, counts, circular, in, out, flags,
                 wrap, sym, elements, due, pc, ret>>

\* The output so far enters the totals here, so that the check value covers
\* it; what remains for inf_leave is nothing.
Check ==
  /\ pc = "run" /\ mode = "CHECK"
  /\ TakeField(32)
  /\ total' = total + (out - avail_out)
  /\ out' = avail_out
  /\ \E next \in {"LENGTH", "BAD"} : Reject(next) /\ mode' = next
  /\ UNCHANGED <<avail_out, in_used, last, counts, circular, in, flags, wrap,
                 sym, elements, due, pc, ret>>

\* Only gzip has a length field.
Length ==
  /\ pc = "run" /\ mode = "LENGTH"
  /\ IF wrap = "gzip"
       THEN TakeField(32) ELSE UNCHANGED <<avail_in, bits, pos>>
  /\ \E next \in {"DONE", "BAD"} :
       Reject(next) /\ (next = "BAD" => wrap = "gzip") /\ Proceed(next)
  /\ UNCHANGED <<counts, flags, wrap>>

Over ==
  /\ pc = "run" /\ mode \in {"DONE", "BAD"}
  /\ UNCHANGED avail_in
  /\ Leave(IF mode = "DONE" THEN "STREAM_END" ELSE "DATA_ERROR")
  /\ UNCHANGED <<mode, last, bits, counts, stream>>

----------------------------------------------------------------------------
Engine ==
  \/ Starve \/ Head \/ Flags \/ HeaderField \/ ExtraLength \/ Extra \/ String
  \/ NeedDict \/ BlockType \/ LastBlockDone \/ Stored \/ Copy \/ Copied
  \/ Table \/ LenLens \/ CodeTable \/ CodeLens \/ Tables
  \/ Len \/ LenExt \/ Dist \/ DistExt \/ Match \/ Lit \/ NoRoom
  \/ EnterFast \/ FastRound \/ FastReturn \/ Check \/ Length \/ Over

\* MaxIn bounds the run: the code has no such limit.
Caller ==
  \E n \in Inputs, m \in Outputs : in_used + n <= MaxIn /\ Decompress(n, m)

\* A failed assertion ends the program.
Aborted == pc = "abort" /\ UNCHANGED vars

Next == Engine \/ Caller \/ Aborted

Spec == Init /\ [][Next]_vars

----------------------------------------------------------------------------
(***************************************************************************)
(* Properties.                                                             *)
(***************************************************************************)

TypeOK ==
  /\ avail_in \in Nat /\ avail_out \in Nat /\ in_used \in Nat
  /\ mode \in {"HEAD", "FLAGS", "TIME", "OS", "EXLEN", "EXTRA", "NAME",
               "COMMENT", "HCRC", "DICTID", "DICT", "TYPE", "STORED", "COPY",
               "TABLE", "LENLENS", "CODELENS", "LEN", "LENEXT", "DIST",
               "DISTEXT", "MATCH", "LIT", "CHECK", "LENGTH", "DONE", "BAD"}
  /\ last \in BOOLEAN
  /\ bits \in 0 .. 47
  /\ length \in Nat /\ offset \in 0 .. WSIZE /\ nread \in Nat /\ total \in Nat
  /\ wsize \in {0, WSIZE} /\ whave \in 0 .. WSIZE /\ wnext \in 0 .. WSIZE - 1
  /\ window \in [0 .. WSIZE - 1 -> Int]
  /\ in \in Nat /\ out \in Nat
  /\ flags \subseteq HeaderFlags /\ wrap \in Formats
  /\ elements \in Nat /\ pos \in Nat /\ due \in Nat
  /\ pc \in {"idle", "run", "fast", "abort"}
  /\ ret \in {"OK", "STREAM_END", "NEED_DICT", "DATA_ERROR", "BUF_ERROR"}

\* Input taken from the caller, in bytes.
Consumed == IF pc \in {"run", "fast"} THEN in_used - avail_in ELSE in_used

Dead == pc = "abort"

\* Every bit taken is in a finished element or still held: clearing the
\* accumulator, aligning it and giving bytes back lose and repeat none.
BitsAccounted == ~Dead => 8 * Consumed - bits = pos

\* When the stream is done, bytesUsed() is exactly its length: nothing that
\* follows the stream has been swallowed.
UsedExactly == ~Dead /\ mode = "DONE" => bits = 0 /\ 8 * Consumed = pos

\* Every byte the decoded elements stand for is in the output, or is the rest
\* of the match, literal or stored block that waits for room or input.
Remaining ==
  IF mode \in {"COPY", "LIT", "LENEXT", "DIST", "DISTEXT", "MATCH"}
    THEN length ELSE 0
OutputAccounted ==
  mode # "BAD" /\ ~Dead =>
    total + (IF pc = "idle" THEN 0 ELSE out - avail_out) + Remaining = due

\* A valid stream is accepted however it is cut into calls; in particular the
\* window still holds what each match refers to.
ValidAccepted == ~Corrupt => mode # "BAD"

\* Between calls the window holds the last bytes of the output, as many as
\* there are and fit, in order and ending before wnext.
WindowHoldsOutput ==
  pc = "idle" /\ mode \notin {"CHECK", "LENGTH", "DONE", "BAD"} =>
    /\ whave = MIN(total, WSIZE)
    /\ \A d \in 1 .. whave : window[(wnext - d) % WSIZE] = total - d

\* Each byte copied from the window for a match is the one `offset` before the
\* byte it becomes, and the copy stays inside the window.
MatchReadsOutput ==
  pc = "run" /\ mode = "MATCH" /\ Back \in 1 .. whave =>
    \A k \in 0 .. CopyLength - 1 :
      From + k < WSIZE
        /\ window[From + k] = total + (out - avail_out) + k - offset

\* inflate_fast never takes input the caller did not offer, and never gives
\* back more than it took in this call.
FastStaysInInput == pc \in {"run", "fast"} => avail_in \in 0 .. in

\* Every bit of input is accounted for, and at the stream's end exactly its
\* bytes are used.
InputAccounted == BitsAccounted /\ UsedExactly

\* The window holds what later matches refer to, and a match reads just that.
WindowServesMatches == WindowHoldsOutput /\ MatchReadsOutput

\* Outside inflate_fast no more is held than what was needed for the last
\* element, or what an unfinished one needs is still missing: so no whole byte
\* is held back that belongs to what follows.
HeldIsLess == pc # "fast" => bits <= 7 \/ bits < Needed

\* What the other properties rest on from one mode to the next: ...
\* ... the code or length in progress is one the mode can be in, ...
SymbolFits ==
  /\ sym \in Symbol
  /\ mode = "LEN" =>
       \/ sym.kind = "literal" /\ sym.length = 1
       \/ sym.kind = "end" /\ sym.length = 0
       \/ sym.kind = "match" /\ sym.length \in Lengths /\ sym.distance >= 1
  /\ mode = "LEN" => sym.code >= 1
  /\ mode = "LEN" /\ sym.kind # "match" =>
       sym.lenext = 0 /\ sym.dist = 0 /\ sym.distext = 0
  /\ mode \in {"LENEXT", "DIST", "DISTEXT"} =>
       sym.length = length /\ length >= 1 /\ sym.distance >= 1
  /\ mode = "MATCH" => length >= 1 /\ offset >= 1
  /\ mode = "LIT" => length = 1
  /\ mode \notin {"EXTRA", "COPY", "LENEXT", "DIST", "DISTEXT", "MATCH",
                  "LIT", "BAD"} => length = 0
  /\ mode = "CODELENS" /\ nread < NLEN =>
       sym.code >= 1 /\ sym.length \in 1 .. NLEN - nread
  /\ mode = "CODELENS" => nread <= NLEN

\* ... a valid stream's match refers to output that exists, ...
ReachesOutput ==
  ~Corrupt =>
    /\ mode = "LEN" => sym.distance <= due
    /\ mode \in {"LENEXT", "DIST", "DISTEXT"} => sym.distance <= due - length
    /\ mode = "MATCH" => offset <= due - length

\* ... the window fills up from its start, and holds the output's end until the
\* last call's output is only counted, ...
Ending == mode \in {"LENGTH", "DONE", "BAD"}
WindowInOrder ==
  /\ whave < WSIZE => wnext = whave
  /\ wsize = 0 => whave = 0
  /\ ~Ending =>
       /\ whave = MIN(total, WSIZE)
       /\ \A i \in 0 .. WSIZE - 1 :
            /\ i < wnext => window[i] = total - wnext + i
            /\ i >= wnext /\ whave = WSIZE =>
                 window[i] = total - wnext - WSIZE + i

\* ... fields are read from whole bytes, so that clearing the accumulator after
\* one loses nothing, ...
Fields == {"HEAD", "FLAGS", "TIME", "OS", "EXLEN", "EXTRA", "NAME", "COMMENT",
           "HCRC", "DICTID", "DICT", "CHECK", "LENGTH"}
FieldsAreWhole == mode \in Fields => bits % 8 = 0

\* ... a call moves within its spans, and inflate_fast may give back only
\* what it took in this call once it has been through a round.
CallInProgress ==
  /\ pc \in {"run", "fast"} => avail_in <= in /\ avail_out <= out
  /\ pc = "fast" =>
       /\ mode \in {"LEN", "TYPE", "BAD"}
       /\ bits <= 30
       /\ \/ bits <= 8 * (in - avail_in) + 7
          \/ mode = "LEN" /\ FastPossible /\ bits < sym.code
  /\ mode = "DONE" \/ (mode = "LENGTH" /\ wrap = "zlib") => bits = 0

Phases ==
  /\ SymbolFits /\ ReachesOutput
  /\ WindowInOrder /\ FieldsAreWhole /\ CallInProgress

IndInv ==
  TypeOK /\ BitsAccounted /\ OutputAccounted /\ ValidAccepted /\ HeldIsLess
    /\ Phases

=============================================================================
