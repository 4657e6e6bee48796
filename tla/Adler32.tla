------------------------------- MODULE Adler32 -------------------------------
(***************************************************************************)
(* adler32(): two running sums modulo BASE, reduced only every NMAX bytes  *)
(* because that is as many as the 32-bit sums can take.                    *)
(***************************************************************************)
EXTENDS Integers, Sequences

CONSTANTS
  BASE,     \* the largest prime below 2 ^ 16
  NMAX,     \* bytes between reductions (5552)
  MaxByte,  \* 255
  HALF,     \* 2 ^ 16: the sums share a uint32_t
  Bytes,    \* the bytes of the inputs
  MaxText   \* bound on the bytes checked

UINT32 == HALF * HALF

\* "NMAX is the largest n such that 255n(n+1)/2 + (n+1)(BASE-1) <= 2^32-1":
\* that it is the largest is not needed.
ASSUME SizeAssumption ==
  /\ BASE \in Nat \ {0, 1} /\ NMAX \in Nat \ {0} /\ MaxByte \in Nat /\ HALF \in Nat
  /\ BASE <= HALF /\ NMAX < HALF
  /\ MaxByte * (NMAX * (NMAX + 1)) + 2 * ((NMAX + 1) * (BASE - 1)) < 2 * (HALF * HALF)

ASSUME BytesAssumption == Bytes \subseteq 0 .. MaxByte /\ MaxText \in Nat

VARIABLES
  pc,           \* "idle", in the "outer" or in the "inner" loop
  check,        \* what the last call returned
  adler, sum2,  \* the sums
  len, n,       \* bytes left in the call, and before the next reduction
  text          \* history: the bytes of all calls

vars == <<pc, check, adler, sum2, len, n, text>>

\* adler32(0, nullptr, 0).
Init ==
  /\ pc = "idle" /\ check = 1
  /\ adler = 0 /\ sum2 = 0 /\ len = 0 /\ n = 0
  /\ text = <<>>

Call ==
  /\ pc = "idle"
  /\ len' \in 0 .. (MaxText - Len(text))
  /\ adler' = check % HALF
  /\ sum2' = (check \div HALF) % HALF
  /\ pc' = "outer"
  /\ UNCHANGED <<check, n, text>>

Batch_Plus == IF len <= NMAX THEN len ELSE NMAX + 1

\* n is a uint16_t.
Batch == (IF len < NMAX THEN len ELSE NMAX) % HALF

Split ==
  /\ pc = "outer" /\ len > 0
  /\ n' = Batch
  /\ len' = len - Batch
  /\ pc' = "inner"
  /\ UNCHANGED <<check, adler, sum2, text>>

Add ==
  /\ pc = "inner" /\ n > 0
  /\ \E byte \in Bytes :
       /\ adler' = (adler + byte) % UINT32
       /\ sum2' = (sum2 + adler') % UINT32
       /\ text' = Append(text, byte)
  /\ n' = n - 1
  /\ UNCHANGED <<pc, check, len>>

Reduced_Kept(s) == s

Reduced(s) == s % BASE

Reduce ==
  /\ pc = "inner" /\ n = 0
  /\ adler' = adler % BASE
  /\ sum2' = Reduced(sum2)
  /\ pc' = "outer"
  /\ UNCHANGED <<check, len, n, text>>

Return ==
  /\ pc = "outer" /\ len = 0
  /\ check' = adler + sum2 * HALF
  /\ pc' = "idle"
  /\ UNCHANGED <<adler, sum2, len, n, text>>

Next == Call \/ Split \/ Add \/ Reduce \/ Return

Spec == Init /\ [][Next]_vars

----------------------------------------------------------------------------
Start == <<1, 0>>

\* Both sums reduced at every byte
After(s, byte) == LET a == (s[1] + byte) % BASE IN <<a, (s[2] + a) % BASE>>

\* The definition of the checksum's two sums
Sums(t) ==
  LET s[i \in 0 .. Len(t)] == IF i = 0 THEN Start ELSE After(s[i - 1], t[i])
  IN  s[Len(t)]

\* However a text is cut into calls, the checksum is that of the whole text.
IsChecksum == pc = "idle" => check = Sums(text)[1] + Sums(text)[2] * HALF

\* The next byte, whatever it is, does not take either sum past 32 bits.
NeverWraps ==
  pc = "inner" /\ n > 0 =>
    adler + MaxByte < UINT32 /\ sum2 + (adler + MaxByte) < UINT32

\* Between batches the sums fit the halves they are returned in.
TypeOK ==
  /\ pc \in {"idle", "outer", "inner"}
  /\ check \in 0 .. (BASE - 1) * (HALF + 1)
  /\ adler \in Nat /\ sum2 \in Nat
  /\ pc # "inner" => adler < BASE /\ sum2 < BASE
  /\ len \in Nat /\ n \in 0 .. NMAX
  /\ text \in Seq(0 .. MaxByte)

=============================================================================
