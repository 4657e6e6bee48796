---------------------------- MODULE HuffmanCode ----------------------------
(***************************************************************************)
(* The code that a vector of code lengths stands for, as the encoder makes *)
(* it: gen_codes() and bi_reverse() of src/zlib/trees.cpp.  A code is a    *)
(* number whose lowest bit is sent first.  len[n] = 0 for a symbol without *)
(* a code.                                                                 *)
(***************************************************************************)
EXTENDS Integers, Sequences, FiniteSets, FiniteSetsExt

CONSTANT MAX_BITS   \* the longest code (15)

Bit(x, i) == (x \div 2 ^ i) % 2

bi_reverse(code, len) ==
  MapThenSumSet(LAMBDA i : Bit(code, i) * 2 ^ (len - 1 - i), 0 .. len - 1)

\* How many symbols have each length, 0 not counted.
BlCount(len) ==
  [bits \in 0 .. MAX_BITS |->
     IF bits = 0 THEN 0 ELSE Cardinality({n \in DOMAIN len : len[n] = bits})]

NextCode_LateShift(bl_count) ==
  LET code[bits \in 0 .. MAX_BITS] ==
        IF bits = 0 THEN 0 ELSE code[bits - 1] * 2 + bl_count[bits - 1]
  IN  code

\* The first code of each length.
NextCode(bl_count) ==
  LET code[bits \in 0 .. MAX_BITS] ==
        IF bits = 0 THEN 0 ELSE (code[bits - 1] + bl_count[bits - 1]) * 2
  IN  code

\* Codes of one length are given out in the order of their symbols.
gen_codes(len, bl_count) ==
  LET next_code == NextCode(bl_count)
  IN  [n \in {k \in DOMAIN len : len[k] # 0} |->
         bi_reverse(next_code[len[n]]
                      + Cardinality({k \in DOMAIN len : k < n /\ len[k] = len[n]}),
                    len[n])]

----------------------------------------------------------------------------
(***************************************************************************)
(* What a set of code lengths must be.                                     *)
(***************************************************************************)

Used(len) == {n \in DOMAIN len : len[n] # 0}

\* The share of all values of MAX_BITS bits that begin with a code.
Covered(len) == MapThenSumSet(LAMBDA n : 2 ^ (MAX_BITS - len[n]), Used(len))

Complete(len) == Covered(len) = 2 ^ MAX_BITS
OverSubscribed(len) == Covered(len) > 2 ^ MAX_BITS

\* Bits, the first one lowest, that start with a code of the given length.
StartsWith(value, code, length) == value % 2 ^ length = code

=============================================================================
