------------------------------- MODULE Streams --------------------------------
(***************************************************************************)
(* What runs beneath both engines: four components that share no state, so *)
(* that each behaviour is one of them.                                     *)
(*                                                                         *)
(*   adler  adler32()                                   (Adler32)          *)
(*   crc    crc32()                                     (Crc32)            *)
(*   bits   send_bits() and the decoder's accumulator   (BitChannel)       *)
(*   copy   literals and matches become output          (WindowCopy)       *)
(***************************************************************************)
EXTENDS Adler32

CONSTANTS
  BYTE,                                          \* bits in a byte
  POLY, MaxChecked, MaxCall,                     \* Crc32
  TypeBits, Values, Raw, MaxItems,               \* BitChannel
  Spans, MaxCopied, WSIZE, MIN_MATCH, MAX_MATCH, \* WindowCopy
  Lengths, MaxDistance, UNSIGNED

VARIABLES
  part,
  check_crc, pc_crc, c, buf, text_crc,                        \* Crc32
  bi_buf, bi_valid, pending_buf, next, hold, bits, fast, rest, \* BitChannel
  entry, sent, taken,
  mode, calling, window, wsize, whave, wnext, span, out, left, \* WindowCopy
  length, offset, source, from, copy, text_copy, reach, asked

Crc == INSTANCE Crc32 WITH
         MaxText <- MaxChecked, check <- check_crc, pc <- pc_crc, text <- text_crc

Bits == INSTANCE BitChannel WITH length <- rest

Copy == INSTANCE WindowCopy WITH MaxText <- MaxCopied, text <- text_copy

ASSUME StreamAssumption ==
  /\ Crc!SizeAssumption /\ Bits!SizeAssumption /\ Bits!ItemsAssumption
  /\ Copy!SizeAssumption /\ Copy!LengthsAssumption /\ Copy!SpansAssumption

----------------------------------------------------------------------------
crcVars == <<check_crc, pc_crc, c, buf, text_crc>>
bitVars == <<bi_buf, bi_valid, pending_buf, next, hold, bits, fast, rest, entry,
             sent, taken>>
copyVars == <<mode, calling, window, wsize, whave, wnext, span, out, left,
              length, offset, source, from, copy, text_copy, reach, asked>>

SInit ==
  /\ part \in {"adler", "crc", "bits", "copy"}
  /\ Init /\ Crc!Init /\ Bits!Init /\ Copy!Init

SNext ==
  /\ UNCHANGED part
  /\ \/ part = "adler" /\ Next /\ UNCHANGED <<crcVars, bitVars, copyVars>>
     \/ part = "crc" /\ Crc!Next /\ UNCHANGED <<vars, bitVars, copyVars>>
     \/ part = "bits" /\ Bits!Next /\ UNCHANGED <<vars, crcVars, copyVars>>
     \/ part = "copy" /\ Copy!Next /\ UNCHANGED <<vars, crcVars, bitVars>>

SSpec == SInit /\ [][SNext]_<<part, vars, crcVars, bitVars, copyVars>>

----------------------------------------------------------------------------
(***************************************************************************)
(* Properties; that adler32()'s sums do not wrap is NeverWraps of Adler32. *)
(***************************************************************************)

\* However a text is cut into calls, and whether its bytes go by four or one
\* by one, both checksums are those of the whole text by their definitions.
ChecksAreExact ==
  /\ TypeOK /\ IsChecksum
  /\ Crc!TypeOK /\ Crc!IsCheck /\ Crc!RegisterIsCheck

\* The decoder reads the values that were sent, wherever bytes, blocks and the
\* fast path begin and end: none is lost, doubled, dropped with the padding, or given back to a
\* buffer it was not read from.
BitsArrive ==
  /\ Bits!TypeOK /\ Bits!Packed /\ Bits!Arrives
  /\ Bits!HoldsWhatWasRead /\ Bits!HeaderIsAll /\ Bits!NotTooFarBack

\* What a call writes is what its symbols mean, from whichever parts of the
\* window and the output they are copied; the window keeps its tail for the
\* next call, and only impossible distances are refused.
CopiesAreExact ==
  /\ Copy!TypeOK /\ Copy!OutputIsText /\ Copy!WindowIsTail
  /\ Copy!OnlyImpossibleRefused /\ Copy!StaysInSpan

=============================================================================
