-------------------------------- MODULE Crc32 --------------------------------
(***************************************************************************)
(* crc32(): a word of four bytes at a time through four tables, the rest   *)
(* byte by byte, over any cutting of a text into calls.                    *)
(*                                                                         *)
(* A number is the set of its one bits, bit 0 the lowest; a byte has BYTE  *)
(* bits and the register four bytes.                                       *)
(***************************************************************************)
EXTENDS Integers, Sequences

CONSTANTS
  BYTE,     \* bits in a byte (8)
  POLY,     \* the reversed polynomial (0xedb88320)
  MaxText,  \* bound on the bytes checked
  MaxCall   \* bound on the bytes of a call

WIDTH == 4 * BYTE

Byte == SUBSET (0 .. BYTE - 1)
Word == SUBSET (0 .. WIDTH - 1)

SizeAssumption ==
  /\ BYTE \in Nat \ {0} /\ POLY \in Word /\ MaxText \in Nat /\ MaxCall \in Nat

\* Exclusive or: addition without carries.
Xor(a, b) == (a \ b) \cup (b \ a)

Shr(r, n) == {i - n : i \in {j \in r : j >= n}}
Shl(r, n) == {i + n : i \in r}

\* r & 0xff, (r >> 8 k) & 0xff
ByteOf(r, k) == Shr(r, k * BYTE) \cap (0 .. BYTE - 1)

Not(r) == (0 .. WIDTH - 1) \ r

----------------------------------------------------------------------------
(***************************************************************************)
(* The tables: a byte's effect on the register as it leaves, and as it     *)
(* leaves with one, two or three bytes behind it.                          *)
(***************************************************************************)

\* One bit out of the register.
Bit(r) == Xor(Shr(r, 1), IF 0 \in r THEN POLY ELSE {})

\* A byte's bits out of the register.
Bits(r) ==
  LET b[k \in 0 .. BYTE] == IF k = 0 THEN r ELSE Bit(b[k - 1])
  IN  b[BYTE]

crc_table0 == [n \in Byte |-> Bits(n)]

Behind(table) ==
  [n \in Byte |-> Xor(crc_table0[ByteOf(table[n], 0)], Shr(table[n], BYTE))]

crc_table1 == Behind(crc_table0)
crc_table2 == Behind(crc_table1)
crc_table3 == Behind(crc_table2)

crc_table == <<crc_table0, crc_table1, crc_table2, crc_table3>>

----------------------------------------------------------------------------
VARIABLES
  check,      \* what the last call returned
  pc,         \* "idle" or in the "loop"
  c, buf,     \* the register, the bytes left
  text        \* history: the bytes of all calls

vars == <<check, pc, c, buf, text>>

\* crc32(0, nullptr, 0).
Init ==
  /\ check = {} /\ pc = "idle" /\ c = {} /\ buf = <<>> /\ text = <<>>

Call ==
  /\ pc = "idle"
  /\ \E len \in 0 .. MaxCall :
       /\ Len(text) + len <= MaxText
       /\ buf' \in [1 .. len -> Byte]
  /\ c' = Not(check)
  /\ pc' = "loop"
  /\ text' = text \o buf'
  /\ UNCHANGED check

\* Four bytes, the first in the lowest place.
Loaded_Swapped ==
  Shl(buf[1], 3 * BYTE) \cup Shl(buf[2], 2 * BYTE) \cup Shl(buf[3], BYTE) \cup buf[4]

Loaded ==
  Shl(buf[4], 3 * BYTE) \cup Shl(buf[3], 2 * BYTE) \cup Shl(buf[2], BYTE) \cup buf[1]

Through_Once(d) ==
  Xor(Xor(Xor(crc_table[4][ByteOf(d, 0)], crc_table[3][ByteOf(d, 1)]),
          crc_table[2][ByteOf(d, 2)]),
      Shr(d, 3 * BYTE))

Through(d) ==
  Xor(Xor(Xor(crc_table[4][ByteOf(d, 0)], crc_table[3][ByteOf(d, 1)]),
          crc_table[2][ByteOf(d, 2)]),
      crc_table[1][Shr(d, 3 * BYTE)])

\* len -= 4; buf += 4.
Rest == SubSeq(buf, 5, Len(buf))

FourBytes ==
  /\ pc = "loop" /\ Len(buf) >= 4
  /\ c' = Through(Xor(c, Loaded))
  /\ buf' = Rest
  /\ UNCHANGED <<check, pc, text>>

OneByte ==
  /\ pc = "loop" /\ Len(buf) \in 1 .. 3
  /\ c' = Xor(crc_table[1][ByteOf(Xor(c, Head(buf)), 0)], Shr(c, BYTE))
  /\ buf' = Tail(buf)
  /\ UNCHANGED <<check, pc, text>>

Result == Not(c)

Return ==
  /\ pc = "loop" /\ buf = <<>>
  /\ check' = Result
  /\ pc' = "idle"
  /\ UNCHANGED <<c, buf, text>>

Next == Call \/ FourBytes \/ OneByte \/ Return

Spec == Init /\ [][Next]_vars

----------------------------------------------------------------------------
\* The definition of the check: the register one bit at a time.
After(r, byte) == Bits(Xor(r, byte))

Register(t) ==
  LET r[i \in 0 .. Len(t)] == IF i = 0 THEN Not({}) ELSE After(r[i - 1], t[i])
  IN  r[Len(t)]

BitByBit(t) == Not(Register(t))

\* However a text is cut into calls, and whether its bytes go by four or one
\* by one, the check is that of the whole text.
IsCheck == pc = "idle" => check = BitByBit(text)

\* Within a call the register has taken in what was read, so that a call may
\* change from four bytes at a time to one at any byte.
RegisterIsCheck ==
  pc = "loop" => c = Register(SubSeq(text, 1, Len(text) - Len(buf)))

TypeOK ==
  /\ check \in Word /\ c \in Word
  /\ pc \in {"idle", "loop"}
  /\ text \in Seq(Byte) /\ buf \in Seq(Byte)
  /\ Len(buf) <= MaxCall /\ Len(buf) <= Len(text) /\ Len(text) <= MaxText
  /\ \A i \in 1 .. Len(buf) : buf[i] = text[(Len(text) - Len(buf)) + i]

=============================================================================
