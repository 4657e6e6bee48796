---------------------------- MODULE BlocksProofs ----------------------------
(***************************************************************************)
(* Proofs about Blocks: for every block, the code lengths and the symbols  *)
(* that the decoder gets are those the encoder had.                        *)
(*                                                                         *)
(* Both arguments are about positions.  What the encoder sends is a        *)
(* sequence of pieces, one for each symbol or run of lengths, and the      *)
(* decoder is always inside a known piece.                                 *)
(***************************************************************************)
EXTENDS Blocks, TLAPS, FiniteSetTheorems, WellFoundedInduction

----------------------------------------------------------------------------
(***************************************************************************)
(* Functions defined by recursion over 0 .. n.                             *)
(***************************************************************************)

\* A nonempty set of naturals has a least element.
LEMMA Least ==
  ASSUME NEW Z \in SUBSET Nat, Z # {}
  PROVE  \E x \in Z : \A y \in Z : x <= y
  <1>1. PICK x \in Z : \A y \in Z : ~(<<y, x>> \in OpToRel(<, Nat))
    BY NatLessThanWellFounded, WFMin
  <1>2. \A y \in Z : ~(y < x)
    BY <1>1 DEF OpToRel
  <1> QED
    BY <1>2

\* Induction, over a set
LEMMA Induct ==
  ASSUME NEW Z \in SUBSET Nat, 0 \in Z, \A k \in Z : k + 1 \in Z
  PROVE  Z = Nat
  <1> SUFFICES ASSUME Nat \ Z # {} PROVE FALSE
    OBVIOUS
  <1>1. PICK x \in Nat \ Z : \A y \in Nat \ Z : x <= y
    BY Least
  <1>2. x - 1 \in Nat /\ x - 1 \notin Nat \ Z
    BY <1>1
  <1> QED
    BY <1>2, x = (x - 1) + 1

IsFold(f, m, F, a) == f[0] = a /\ \A k \in 1 .. m : f[k] = F[<<k, f[k - 1]>>]

\* A function by recursion over 0 .. m exists.
LEMMA FoldExists ==
  ASSUME NEW Y, NEW a \in Y, NEW m \in Nat, NEW F \in [(1 .. m) \X Y -> Y]
  PROVE  \E f \in [0 .. m -> Y] : IsFold(f, m, F, a)
  <1> DEFINE Z == {k \in Nat : k <= m => \E f \in [0 .. k -> Y] : IsFold(f, k, F, a)}
  <1>1. 0 \in Z
    <2>1. [k \in 0 .. 0 |-> a] \in [0 .. 0 -> Y] /\ IsFold([k \in 0 .. 0 |-> a], 0, F, a)
      BY DEF IsFold
    <2> QED
      BY <2>1
  <1>2. ASSUME NEW k \in Z PROVE k + 1 \in Z
    <2>1. SUFFICES ASSUME k + 1 <= m PROVE \E f \in [0 .. k + 1 -> Y] : IsFold(f, k + 1, F, a)
      OBVIOUS
    <2>2. k \in Nat /\ k <= m
      BY <2>1
    <2>3. PICK f \in [0 .. k -> Y] : IsFold(f, k, F, a)
      BY <2>2
    <2> DEFINE g == [i \in 0 .. k + 1 |-> IF i = k + 1 THEN F[<<k + 1, f[k]>>] ELSE f[i]]
    <2>4. F[<<k + 1, f[k]>>] \in Y
      BY <2>1, <2>2
    <2>5. g \in [0 .. k + 1 -> Y]
      BY <2>2, <2>4
    <2>6. g[0] = a
      BY <2>2, <2>3 DEF IsFold
    <2>7. ASSUME NEW i \in 1 .. k + 1 PROVE g[i] = F[<<i, g[i - 1]>>]
      <3>1. CASE i = k + 1
        <4>1. g[i - 1] = f[k] /\ g[i] = F[<<k + 1, f[k]>>]
          BY <2>2, <3>1
        <4> QED
          BY <3>1, <4>1
      <3>2. CASE i # k + 1
        <4>1. g[i] = f[i] /\ g[i - 1] = f[i - 1] /\ i \in 1 .. k
          BY <2>2, <3>2
        <4> HIDE DEF g
        <4> QED
          BY <2>3, <4>1 DEF IsFold
      <3> QED
        BY <3>1, <3>2
    <2> HIDE DEF g
    <2> QED
      BY <2>5, <2>6, <2>7 DEF IsFold
  <1>3. Z = Nat
    <2>1. Z \in SUBSET Nat
      OBVIOUS
    <2> HIDE DEF Z
    <2> QED
      BY <1>1, <1>2, <2>1, Induct
  <1> QED
    BY <1>3

On(s, m) == s = [i \in 0 .. m |-> s[i]]

\* Whatever takes the steps of F as long as it stays in Y is the fold of F.
Folding(Y, a, m, F, s) ==
  /\ a \in Y /\ m \in Nat /\ F \in [(1 .. m) \X Y -> Y]
  /\ On(s, m) /\ s[0] = a
  /\ \A i \in 1 .. m : s[i - 1] \in Y => s[i] = F[<<i, s[i - 1]>>]

LEMMA Folded ==
  ASSUME NEW Y, NEW a, NEW m, NEW F, NEW s, Folding(Y, a, m, F, s)
  PROVE  s \in [0 .. m -> Y] /\ IsFold(s, m, F, a)
  <1> USE DEF Folding
  <1> DEFINE Z == {i \in Nat : i <= m => s[i] \in Y}
  <1>1. 0 \in Z
    OBVIOUS
  <1>2. ASSUME NEW i \in Z PROVE i + 1 \in Z
    <2>1. CASE i + 1 <= m
      <3>1. i + 1 \in 1 .. m /\ (i + 1) - 1 = i /\ s[i] \in Y
        BY <2>1
      <3>2. s[i + 1] = F[<<i + 1, s[i]>>]
        BY <3>1
      <3> QED
        BY <3>1, <3>2
    <2>2. CASE ~(i + 1 <= m)
      BY <2>2
    <2> QED
      BY <2>1, <2>2
  <1>3. Z = Nat
    <2>1. Z \in SUBSET Nat
      OBVIOUS
    <2> HIDE DEF Z
    <2> QED
      BY <1>1, <1>2, <2>1, Induct
  <1>4. ASSUME NEW i \in 0 .. m PROVE s[i] \in Y
    <2>1. i \in Z
      BY <1>3
    <2> QED
      BY <2>1
  <1>5. \A i \in 1 .. m : i - 1 \in 0 .. m
    OBVIOUS
  <1> QED
    BY <1>4, <1>5 DEF IsFold, On

\* Two that take the same steps are the same as far as the shorter goes.
LEMMA FoldsAgree ==
  ASSUME NEW k \in Nat, NEW m \in 0 .. k, NEW F, NEW G, NEW a, NEW Y,
         NEW f \in [0 .. k -> Y], NEW g \in [0 .. m -> Y],
         IsFold(f, k, F, a), IsFold(g, m, G, a),
         \A i \in 1 .. m, x \in Y : F[<<i, x>>] = G[<<i, x>>]
  PROVE  \A i \in 0 .. m : f[i] = g[i]
  <1> DEFINE Z == {i \in Nat : i <= m => f[i] = g[i]}
  <1>1. 0 \in Z
    BY DEF IsFold
  <1>2. ASSUME NEW i \in Z PROVE i + 1 \in Z
    <2>1. CASE i + 1 <= m
      <3>1. i + 1 \in 1 .. k /\ i + 1 \in 1 .. m /\ (i + 1) - 1 = i /\ f[i] = g[i] /\ g[i] \in Y
        BY <2>1
      <3>2. f[i + 1] = F[<<i + 1, f[i]>>] /\ g[i + 1] = G[<<i + 1, g[i]>>]
        BY <3>1 DEF IsFold
      <3> QED
        BY <3>1, <3>2
    <2>2. CASE ~(i + 1 <= m)
      BY <2>2
    <2> QED
      BY <2>1, <2>2
  <1>3. Z = Nat
    <2>1. Z \in SUBSET Nat
      OBVIOUS
    <2> HIDE DEF Z
    <2> QED
      BY <1>1, <1>2, <2>1, Induct
  <1> QED
    BY <1>3

----------------------------------------------------------------------------
(***************************************************************************)
(* The tables of SymbolCodes.                                              *)
(***************************************************************************)

\* Powers of two by a name, so that a table's entry can be one's exponent
Pow(i) == 2 ^ i

LEMMA Powers ==
  /\ Pow(0) = 1 /\ Pow(1) = 2 /\ Pow(2) = 4 /\ Pow(3) = 8 /\ Pow(4) = 16 /\ Pow(5) = 32
  /\ Pow(6) = 64 /\ Pow(7) = 128 /\ Pow(8) = 256 /\ Pow(9) = 512 /\ Pow(10) = 1024
  /\ Pow(11) = 2048 /\ Pow(12) = 4096 /\ Pow(13) = 8192
BY DEF Pow

LEMMA SmallPower ==
  ASSUME NEW e \in 0 .. 13
  PROVE  Pow(e) \in Nat
BY Powers

LEMMA LengthRow ==
  ASSUME NEW c \in 0 .. 27
  PROVE  /\ S!At(S!base_length, c) \in Nat
         /\ S!At(S!extra_lbits, c) \in 0 .. 5
         /\ S!At(S!lext, c) = 16 + S!At(S!extra_lbits, c)
         /\ S!At(S!lbase, c) = S!At(S!base_length, c) + 3
BY DEF S!At, S!base_length, S!extra_lbits, S!lext, S!lbase

LEMMA LengthRows ==
  ASSUME NEW lc \in Nat, lc < 255
  PROVE  \E c \in 0 .. 27 : S!At(S!base_length, c) <= lc
                             /\ lc < S!At(S!base_length, c) + Pow(S!At(S!extra_lbits, c))
<1> DEFINE begin(c) == S!At(S!base_length, c)
           end(c) == begin(c) + Pow(S!At(S!extra_lbits, c))
<1>1. /\ begin(0) = 0 /\ end(0) = 1 /\ begin(1) = 1 /\ end(1) = 2 /\ begin(2) = 2 /\ end(2) = 3
      /\ begin(3) = 3 /\ end(3) = 4 /\ begin(4) = 4 /\ end(4) = 5 /\ begin(5) = 5 /\ end(5) = 6
      /\ begin(6) = 6 /\ end(6) = 7 /\ begin(7) = 7 /\ end(7) = 8 /\ begin(8) = 8 /\ end(8) = 10
      /\ begin(9) = 10 /\ end(9) = 12 /\ begin(10) = 12 /\ end(10) = 14 /\ begin(11) = 14 /\ end(11) = 16
  BY Powers DEF S!At, S!base_length, S!extra_lbits
<1>2. /\ begin(12) = 16 /\ end(12) = 20 /\ begin(13) = 20 /\ end(13) = 24 /\ begin(14) = 24 /\ end(14) = 28
      /\ begin(15) = 28 /\ end(15) = 32 /\ begin(16) = 32 /\ end(16) = 40 /\ begin(17) = 40 /\ end(17) = 48
      /\ begin(18) = 48 /\ end(18) = 56 /\ begin(19) = 56 /\ end(19) = 64 /\ begin(20) = 64 /\ end(20) = 80
      /\ begin(21) = 80 /\ end(21) = 96 /\ begin(22) = 96 /\ end(22) = 112 /\ begin(23) = 112 /\ end(23) = 128
  BY Powers DEF S!At, S!base_length, S!extra_lbits
<1>3. /\ begin(24) = 128 /\ end(24) = 160 /\ begin(25) = 160 /\ end(25) = 192 /\ begin(26) = 192 /\ end(26) = 224
      /\ begin(27) = 224 /\ end(27) = 256
  BY Powers DEF S!At, S!base_length, S!extra_lbits
<1> HIDE DEF begin, end
<1>4. PICK c \in 0 .. 27 : begin(c) <= lc /\ lc < end(c)
  BY <1>1, <1>2, <1>3, SMT
<1> QED
  BY <1>4, SMT DEF begin, end

LEMMA LengthCode ==
  ASSUME NEW lc \in Nat, lc < 255
  PROVE  /\ S!_length_code[lc] \in 0 .. 27 
         /\ S!At(S!base_length, S!_length_code[lc]) <= lc
         /\ lc < S!At(S!base_length, S!_length_code[lc]) + Pow(S!At(S!extra_lbits, S!_length_code[lc]))
<1>1. lc \in 0 .. S!MAX_MATCH - S!MIN_MATCH /\ lc # 255
  BY DEF S!MAX_MATCH, S!MIN_MATCH
<1>2. S!_length_code[lc] = S!Within(S!base_length, S!extra_lbits, 0 .. 27, lc)
  BY <1>1 DEF S!_length_code
<1>3. PICK c : c = S!Within(S!base_length, S!extra_lbits, 0 .. 27, lc)
  OBVIOUS
<1>4. c \in 0 .. 27 /\ S!At(S!base_length, c) <= lc
      /\ lc < S!At(S!base_length, c) + Pow(S!At(S!extra_lbits, c))
  BY <1>3, LengthRows DEF S!Within, Pow
<1> QED
  BY <1>2, <1>3, <1>4

LEMMA DistRow ==
  ASSUME NEW c \in 0 .. 29
  PROVE  /\ S!At(S!base_dist, c) \in Nat
         /\ S!At(S!extra_dbits, c) \in 0 .. 13
         /\ S!At(S!dext, c) = 16 + S!At(S!extra_dbits, c)
         /\ S!At(S!dbase, c) = S!At(S!base_dist, c) + 1
BY DEF S!At, S!base_dist, S!extra_dbits, S!dext, S!dbase

LEMMA DistRows ==
  ASSUME NEW d \in Nat, d < 32768
  PROVE  \E c \in 0 .. 29 : S!At(S!base_dist, c) <= d
                             /\ d < S!At(S!base_dist, c) + Pow(S!At(S!extra_dbits, c))
<1> DEFINE begin(c) == S!At(S!base_dist, c)
           end(c) == begin(c) + Pow(S!At(S!extra_dbits, c))
<1>1. /\ begin(0) = 0 /\ end(0) = 1 /\ begin(1) = 1 /\ end(1) = 2 /\ begin(2) = 2 /\ end(2) = 3
      /\ begin(3) = 3 /\ end(3) = 4 /\ begin(4) = 4 /\ end(4) = 6 /\ begin(5) = 6 /\ end(5) = 8
      /\ begin(6) = 8 /\ end(6) = 12 /\ begin(7) = 12 /\ end(7) = 16 /\ begin(8) = 16 /\ end(8) = 24
      /\ begin(9) = 24 /\ end(9) = 32 /\ begin(10) = 32 /\ end(10) = 48 /\ begin(11) = 48 /\ end(11) = 64
  BY Powers, SMT DEF S!At, S!base_dist, S!extra_dbits
<1>2. /\ begin(12) = 64 /\ end(12) = 96 /\ begin(13) = 96 /\ end(13) = 128 /\ begin(14) = 128 /\ end(14) = 192
      /\ begin(15) = 192 /\ end(15) = 256 /\ begin(16) = 256 /\ end(16) = 384 /\ begin(17) = 384 /\ end(17) = 512
      /\ begin(18) = 512 /\ end(18) = 768 /\ begin(19) = 768 /\ end(19) = 1024 /\ begin(20) = 1024 /\ end(20) = 1536
      /\ begin(21) = 1536 /\ end(21) = 2048 /\ begin(22) = 2048 /\ end(22) = 3072 /\ begin(23) = 3072 /\ end(23) = 4096
  BY Powers, SMT DEF S!At, S!base_dist, S!extra_dbits
<1>3. /\ begin(24) = 4096 /\ end(24) = 6144 /\ begin(25) = 6144 /\ end(25) = 8192 /\ begin(26) = 8192 /\ end(26) = 12288
      /\ begin(27) = 12288 /\ end(27) = 16384 /\ begin(28) = 16384 /\ end(28) = 24576 /\ begin(29) = 24576 /\ end(29) = 32768
  BY Powers, SMT DEF S!At, S!base_dist, S!extra_dbits
<1> HIDE DEF begin, end
<1>4. PICK c \in 0 .. 29 : begin(c) <= d /\ d < end(c)
  BY <1>1, <1>2, <1>3, SMT
<1> QED
  BY <1>4, SMT DEF begin, end

LEMMA NearRow ==
  ASSUME NEW c \in 0 .. 15
  PROVE  /\ S!At(S!base_dist, c) + Pow(S!At(S!extra_dbits, c)) \in Nat
         /\ S!At(S!base_dist, c) + Pow(S!At(S!extra_dbits, c)) <= 256
BY Powers DEF S!At, S!base_dist, S!extra_dbits

\* Where the far intervals end, in steps of 128
Ends == <<3, 4, 6, 8, 12, 16, 24, 32, 48, 64, 96, 128, 192, 256>>

LEMMA FarRow ==
  ASSUME NEW c \in 16 .. 29
  PROVE  /\ S!At(S!base_dist, c) + Pow(S!At(S!extra_dbits, c)) = Ends[c - 15] * 128
         /\ Ends[c - 15] \in Nat
BY Powers DEF S!At, S!base_dist, S!extra_dbits, Ends


\* Beyond 255 a code is found in steps of 128, and every interval there is
\* made of such steps.
LEMMA DistCode ==
  ASSUME NEW d \in Nat, d < 32768
  PROVE  /\ S!d_code(d) \in 0 .. 29
         /\ S!At(S!base_dist, S!d_code(d)) <= d
         /\ d < S!At(S!base_dist, S!d_code(d)) + Pow(S!At(S!extra_dbits, S!d_code(d)))
         /\ d >= 256 => S!d_code(d) >= 16
<1> DEFINE begin(c) == S!At(S!base_dist, c)
           end(c) == begin(c) + Pow(S!At(S!extra_dbits, c))
<1>1. ASSUME NEW v \in Nat, v < 32768,
             NEW c, c = S!Within(S!base_dist, S!extra_dbits, 0 .. 29, v)
      PROVE  c \in 0 .. 29 /\ begin(c) <= v /\ v < end(c)
  BY <1>1, DistRows DEF S!Within, Pow
<1>2. \A c \in 0 .. 15 : end(c) \in Nat /\ end(c) <= 256
  BY NearRow
<1>3. \A c \in 16 .. 29 : end(c) = Ends[c - 15] * 128 /\ Ends[c - 15] \in Nat
  BY FarRow
<1>4. \A c \in 0 .. 29 : begin(c) \in Nat
  BY DistRow
<1>5. PICK c : c = S!d_code(d)
  OBVIOUS
<1>6. CASE d < 256
  <2>1. d \in 0 .. 511
    BY <1>6
  <2>2. c = S!Within(S!base_dist, S!extra_dbits, 0 .. 29, d)
    BY <1>5, <1>6, <2>1 DEF S!d_code, S!_dist_code
  <2>3. c \in 0 .. 29 /\ begin(c) <= d /\ d < end(c)
    BY <1>1, <2>2
  <2> QED
    BY <1>5, <1>6, <2>3
<1>7. CASE ~(d < 256)
  <2>1. PICK q : q = d \div 128
    OBVIOUS
  <2>2. q \in Nat /\ q >= 2 /\ q < 256 /\ q * 128 <= d /\ d < (q + 1) * 128
    BY <1>7, <2>1
  <2>3. 256 + q \in 0 .. 511 /\ ~(256 + q < 256) /\ ~(256 + q < 258) /\ (256 + q) - 256 = q
    BY <2>2
  <2>4. c = S!_dist_code[256 + q]
    BY <1>5, <1>7, <2>1 DEF S!d_code
  <2>5. S!_dist_code[256 + q] = S!Within(S!base_dist, S!extra_dbits, 0 .. 29, q * 128)
    BY <2>3 DEF S!_dist_code
  <2>6. q * 128 \in Nat /\ q * 128 < 32768 /\ q * 128 >= 256
    BY <2>2
  <2>7. c \in 0 .. 29 /\ begin(c) <= q * 128 /\ q * 128 < end(c)
    BY <1>1, <2>4, <2>5, <2>6
  <2> HIDE DEF begin, end
  <2>8. c \notin 0 .. 15
    <3>1. SUFFICES ASSUME c \in 0 .. 15 PROVE FALSE
      OBVIOUS
    <3>2. end(c) \in Nat /\ end(c) <= 256
      BY <1>2, <3>1
    <3>3. PICK e : e = end(c)
      OBVIOUS
    <3>4. e \in Nat /\ e <= 256 /\ q * 128 < e
      BY <2>7, <3>2, <3>3
    <3> QED
      BY <2>2, <3>4
  <2>9. c \in 16 .. 29
    BY <2>7, <2>8
  <2>10. PICK e : e = Ends[c - 15]
    OBVIOUS
  <2>11. e \in Nat /\ end(c) = e * 128
    BY <1>3, <2>9, <2>10
  <2>12. q < e
    BY <2>2, <2>7, <2>11
  <2>13. d < e * 128
    BY <2>2, <2>11, <2>12
  <2>14. PICK b : b = begin(c)
    OBVIOUS
  <2>15. b \in Nat /\ b <= q * 128
    BY <1>4, <2>7, <2>14
  <2>16. b <= d
    BY <2>2, <2>15
  <2>17. c >= 16
    BY <2>9
  <2>18. begin(c) <= d /\ d < end(c)
    BY <2>11, <2>13, <2>14, <2>16
  <2> QED
    BY <1>5, <2>7, <2>17, <2>18 DEF begin, end
<1> QED
  BY <1>6, <1>7

----------------------------------------------------------------------------
(***************************************************************************)
(* One symbol: what is sent for it and what the decoder makes of that.     *)
(***************************************************************************)

\* The code of a length, its extra bits and where its interval begins; those
\* of a distance
LCode(lc) == S!_length_code[lc]
XL(lc) == S!At(S!extra_lbits, LCode(lc))
BL(lc) == S!At(S!base_length, LCode(lc))
DCode(d) == S!d_code(d - 1)
XD(d) == S!At(S!extra_dbits, DCode(d))
BD(d) == S!At(S!base_dist, DCode(d))

LEMMA LengthFacts ==
  ASSUME NEW lc \in Nat, lc < S!LITERALS
  PROVE  /\ LCode(lc) \in 0 .. 28 /\ XL(lc) \in 0 .. 5 /\ BL(lc) \in Nat
         /\ S!At(S!lext, LCode(lc)) = 16 + XL(lc) /\ S!At(S!lbase, LCode(lc)) \in Nat
         /\ XL(lc) = 0 => S!At(S!lbase, LCode(lc)) = lc + 3
         /\ XL(lc) # 0 => /\ BL(lc) <= lc /\ lc - BL(lc) < Pow(XL(lc))
                          /\ S!At(S!lbase, LCode(lc)) + (lc - BL(lc)) = lc + 3
<1>0. lc < 256
  BY DEF S!LITERALS
<1>1. PICK c : c = LCode(lc)
  OBVIOUS
<1>2. CASE lc = 255
  <2>1. c = 28
    BY <1>1, <1>2 DEF LCode, S!_length_code, S!MAX_MATCH, S!MIN_MATCH
  <2>2. /\ S!At(S!extra_lbits, 28) = 0 /\ S!At(S!base_length, 28) = 0
        /\ S!At(S!lext, 28) = 16 /\ S!At(S!lbase, 28) = 258
    BY DEF S!At, S!extra_lbits, S!base_length, S!lext, S!lbase
  <2> QED
    BY <1>1, <1>2, <2>1, <2>2 DEF XL, BL
<1>3. CASE lc # 255
  <2>1. lc < 255
    BY <1>0, <1>3
  <2>2. c \in 0 .. 27 /\ S!At(S!base_length, c) <= lc
        /\ lc < S!At(S!base_length, c) + Pow(S!At(S!extra_lbits, c))
    BY <1>1, <2>1, LengthCode DEF LCode
  <2>3. PICK b : b = S!At(S!base_length, c)
    OBVIOUS
  <2>4. PICK x : x = S!At(S!extra_lbits, c)
    OBVIOUS
  <2>5. b \in Nat /\ x \in 0 .. 5 /\ S!At(S!lext, c) = 16 + x /\ S!At(S!lbase, c) = b + 3
    BY <2>2, <2>3, <2>4, LengthRow
  <2>6. b <= lc /\ lc < b + Pow(x)
    BY <2>2, <2>3, <2>4
  <2>7. XL(lc) = x /\ BL(lc) = b
    BY <1>1, <2>3, <2>4 DEF XL, BL
  <2>8. Pow(x) \in Nat /\ Pow(0) = 1
    <3>1. x \in 0 .. 13
      BY <2>5
    <3>2. Pow(x) \in Nat
      BY <3>1, SmallPower
    <3> QED
      BY <3>2, Powers
  <2>9. x = 0 => lc = b
    BY <2>5, <2>6, <2>8
  <2>10. lc - b < Pow(x) /\ (b + 3) + (lc - b) = lc + 3
    BY <2>5, <2>6, <2>8
  <2>11. c \in 0 .. 28
    BY <2>2
  <2> QED
    BY <1>1, <2>5, <2>6, <2>7, <2>9, <2>10, <2>11
<1> QED
  BY <1>2, <1>3

LEMMA DistFacts ==
  ASSUME NEW d \in Nat, 0 < d, d <= S!MAX_DISTANCE
  PROVE  /\ DCode(d) \in 0 .. 29 /\ XD(d) \in 0 .. 13 /\ BD(d) \in Nat
         /\ S!At(S!dext, DCode(d)) = 16 + XD(d) /\ S!At(S!dbase, DCode(d)) = BD(d) + 1
         /\ BD(d) <= d - 1 /\ d - 1 - BD(d) < Pow(XD(d))
         /\ XD(d) = 0 => BD(d) + 1 = d
         /\ d > 256 => DCode(d) >= 16
<1>1. PICK c : c = DCode(d)
  OBVIOUS
<1>2. d - 1 \in Nat /\ d - 1 < 32768
  BY DEF S!MAX_DISTANCE
<1>3. c \in 0 .. 29 /\ S!At(S!base_dist, c) <= d - 1
      /\ d - 1 < S!At(S!base_dist, c) + Pow(S!At(S!extra_dbits, c))
      /\ (d - 1 >= 256 => c >= 16)
  BY <1>1, <1>2, DistCode DEF DCode
<1>4. PICK b : b = S!At(S!base_dist, c)
  OBVIOUS
<1>5. PICK x : x = S!At(S!extra_dbits, c)
  OBVIOUS
<1>6. b \in Nat /\ x \in 0 .. 13 /\ S!At(S!dext, c) = 16 + x /\ S!At(S!dbase, c) = b + 1
  BY <1>3, <1>4, <1>5, DistRow
<1>7. b <= d - 1 /\ d - 1 < b + Pow(x)
  BY <1>3, <1>4, <1>5
<1>8. XD(d) = x /\ BD(d) = b
  BY <1>1, <1>4, <1>5 DEF XD, BD
<1>9. Pow(x) \in Nat /\ Pow(0) = 1
  <2>1. Pow(x) \in Nat
    BY <1>6, SmallPower
  <2> QED
    BY <2>1, Powers
<1>10. x = 0 => b + 1 = d
  BY <1>6, <1>7, <1>9
<1>11. d - 1 - b < Pow(x)
  BY <1>6, <1>7, <1>9
<1>12. d > 256 => c >= 16
  <2>1. d > 256 => d - 1 >= 256
    OBVIOUS
  <2> QED
    BY <1>3, <2>1
<1> QED
  BY <1>1, <1>3, <1>6, <1>7, <1>8, <1>10, <1>11, <1>12

\* The decoder's entries for the codes that are sent
LEMMA LiteralEntry ==
  ASSUME NEW lc \in Nat, lc < S!LITERALS
  PROVE  S!LenEntry(lc) = [op |-> 0, val |-> lc]
BY DEF S!LenEntry, S!Entry, S!LITERALS

LEMMA EndEntry == S!LenEntry(256).op # 0 /\ S!Flag(S!LenEntry(256).op, 32)
<1>1. S!LenEntry(256) = [op |-> 96, val |-> 0]
  BY DEF S!LenEntry, S!Entry
<1>2. (96 \div 32) % 2 = 1
  OBVIOUS
<1> QED
  BY <1>1, <1>2 DEF S!Flag

LEMMA Flags ==
  ASSUME NEW x \in 0 .. 13
  PROVE  /\ ~S!Flag(16 + x, 32) /\ ~S!Flag(16 + x, 64)
         /\ 16 + x # 0 /\ (16 + x) % 16 = x
BY DEF S!Flag

LEMMA LengthEntry ==
  ASSUME NEW c \in 0 .. 28
  PROVE  /\ S!LenEntry(c + 257).op = S!At(S!lext, c)
         /\ S!LenEntry(c + 257).val = S!At(S!lbase, c)
<1>1. ~(c + 257 + 1 < 257) /\ c + 257 >= 257 /\ (c + 257) - 257 = c
  OBVIOUS
<1>2. S!LenEntry(c + 257) = [op |-> S!At(S!lext, c), val |-> S!At(S!lbase, c)]
  BY <1>1 DEF S!LenEntry, S!Entry
<1> QED
  BY <1>2

LEMMA DistanceEntry ==
  ASSUME NEW c \in 0 .. 29
  PROVE  /\ S!DistEntry(c).op = S!At(S!dext, c)
         /\ S!DistEntry(c).val = S!At(S!dbase, c)
<1>1. ~(c + 1 < 0) /\ c >= 0 /\ c - 0 = c
  OBVIOUS
<1>2. S!DistEntry(c) = [op |-> S!At(S!dext, c), val |-> S!At(S!dbase, c)]
  BY <1>1 DEF S!DistEntry, S!Entry
<1> QED
  BY <1>2

----------------------------------------------------------------------------
(***************************************************************************)
(* How often a sequence has an element of a set.                           *)
(***************************************************************************)

Hits(w, X) == {i \in DOMAIN w : w[i] \in X}

LEMMA HitsFinite ==
  ASSUME NEW I, NEW w \in Seq(I), NEW X
  PROVE  IsFiniteSet(Hits(w, X)) /\ Cardinality(Hits(w, X)) \in Nat
<1>1. IsFiniteSet(1 .. Len(w))
  BY FS_Interval
<1>2. Hits(w, X) \in SUBSET (1 .. Len(w))
  BY DEF Hits
<1>3. IsFiniteSet(Hits(w, X))
  BY <1>1, <1>2, FS_Subset
<1> QED
  BY <1>3, FS_CardinalityType

LEMMA HitsConcat ==
  ASSUME NEW I, NEW v \in Seq(I), NEW w \in Seq(I), NEW X
  PROVE  Cardinality(Hits(v \o w, X)) = Cardinality(Hits(v, X)) + Cardinality(Hits(w, X))
<1> DEFINE m == Len(v)
           U == {i \in m + 1 .. m + Len(w) : w[i - m] \in X}
           f == [i \in Hits(w, X) |-> i + m]
<1>1. Hits(v \o w, X) = Hits(v, X) \cup U
  <2>1. DOMAIN (v \o w) = 1 .. m + Len(w) /\ DOMAIN v = 1 .. m
    OBVIOUS
  <2>2. \A i \in 1 .. m : (v \o w)[i] = v[i] /\ i \in 1 .. m + Len(w)
    OBVIOUS
  <2>3. \A i \in m + 1 .. m + Len(w) : (v \o w)[i] = w[i - m] /\ i \in 1 .. m + Len(w)
    OBVIOUS
  <2>4. \A i \in 1 .. m + Len(w) : i \in 1 .. m \/ i \in m + 1 .. m + Len(w)
    OBVIOUS
  <2> QED
    BY <2>1, <2>2, <2>3, <2>4, Zenon DEF Hits, U
<1>2. Hits(v, X) \cap U = {}
  BY DEF Hits
<1>3. f \in Bijection(Hits(w, X), U)
  <2>1. \A i \in Hits(w, X) : i \in 1 .. Len(w) /\ w[i] \in X
    BY DEF Hits
  <2>2. \A i \in Hits(w, X) : i + m \in U
    BY <2>1
  <2>3. f \in [Hits(w, X) -> U]
    BY <2>2
  <2>4. \A i, j \in Hits(w, X) : f[i] = f[j] => i = j
    BY <2>1
  <2>5. \A u \in U : u - m \in Hits(w, X) /\ f[u - m] = u
    BY DEF Hits
  <2> HIDE DEF f, U
  <2> QED
    BY <2>3, <2>4, <2>5 DEF Bijection, Injection, Surjection, IsInjective
<1>4. IsFiniteSet(Hits(v, X)) /\ IsFiniteSet(Hits(w, X))
  BY HitsFinite
<1> HIDE DEF f, U
<1>5. IsFiniteSet(U) /\ Cardinality(U) = Cardinality(Hits(w, X))
  <2>1. ExistsBijection(Hits(w, X), U)
    BY <1>3 DEF ExistsBijection
  <2> QED
    BY <1>4, <2>1, FS_Bijection
<1>6. Cardinality(Hits(v, X) \cup U)
        = Cardinality(Hits(v, X)) + Cardinality(U) - Cardinality(Hits(v, X) \cap U)
  BY <1>4, <1>5, FS_Union
<1>7. Cardinality(Hits(v, X) \cap U) = 0
  BY <1>2, FS_EmptySet
<1>8. Cardinality(Hits(v, X)) \in Nat /\ Cardinality(Hits(w, X)) \in Nat
  BY HitsFinite
<1> QED
  BY <1>1, <1>5, <1>6, <1>7, <1>8

LEMMA HitsOne ==
  ASSUME NEW x, NEW X
  PROVE  Cardinality(Hits(<<x>>, X)) = IF x \in X THEN 1 ELSE 0
<1>1. Hits(<<x>>, X) = IF x \in X THEN {1} ELSE {}
  BY DEF Hits
<1> QED
  BY <1>1, FS_EmptySet, FS_Singleton

LEMMA HitsNone ==
  ASSUME NEW X
  PROVE  Cardinality(Hits(<<>>, X)) = 0
BY FS_EmptySet DEF Hits

----------------------------------------------------------------------------
(***************************************************************************)
(* Sequences put together from pieces: C[k] is a with the first k of them. *)
(***************************************************************************)

IsConcat(s, v, w) ==
  /\ Len(s) = Len(v) + Len(w) /\ Len(v) \in Nat /\ Len(w) \in Nat
  /\ \A i \in 1 .. Len(v) : s[i] = v[i]
  /\ \A i \in 1 .. Len(w) : s[Len(v) + i] = w[i]

LEMMA Concat ==
  ASSUME NEW I, NEW v \in Seq(I), NEW w \in Seq(I)
  PROVE  v \o w \in Seq(I) /\ IsConcat(v \o w, v, w)
BY DEF IsConcat

LEMMA Pair ==
  ASSUME NEW x, NEW y
  PROVE  <<x>> \o <<y>> = <<x, y>>
<1>1. <<x>> \in Seq({x, y}) /\ <<y>> \in Seq({x, y}) /\ <<x, y>> \in Seq({x, y})
  OBVIOUS
<1>2. Len(<<x>> \o <<y>>) = 2 /\ (<<x>> \o <<y>>)[1] = x /\ (<<x>> \o <<y>>)[2] = y
  BY <1>1
<1>3. PICK v : v = <<x>> \o <<y>>
  OBVIOUS
<1>4. PICK z : z = <<x, y>>
  OBVIOUS
<1>5. v \in Seq({x, y}) /\ Len(v) = 2 /\ v[1] = x /\ v[2] = y
  BY <1>1, <1>2, <1>3
<1>6. z \in Seq({x, y}) /\ Len(z) = 2 /\ z[1] = x /\ z[2] = y
  BY <1>1, <1>4
<1>7. v = z
  <2>1. \A i \in 1 .. 2 : v[i] = z[i]
    BY <1>5, <1>6
  <2> QED
    BY <1>5, <1>6, <2>1
<1> QED
  BY <1>3, <1>4, <1>7

IsJoin(C, a, n, p) ==
  /\ On(C, n) /\ C[0] = a
  /\ \A k \in 1 .. n : C[k] = C[k - 1] \o p[k]

Joined(I, C, a, n, p) ==
  /\ a \in Seq(I) /\ n \in Nat /\ p \in [1 .. n -> Seq(I)] /\ IsJoin(C, a, n, p)

LEMMA JoinExists ==
  ASSUME NEW I, NEW a \in Seq(I), NEW n \in Nat, NEW p \in [1 .. n -> Seq(I)]
  PROVE  \E C : IsJoin(C, a, n, p)
<1> DEFINE F == [x \in (1 .. n) \X Seq(I) |-> x[2] \o p[x[1]]]
<1>1. F \in [(1 .. n) \X Seq(I) -> Seq(I)]
  OBVIOUS
<1>2. \A k \in 1 .. n, s \in Seq(I) : F[<<k, s>>] = s \o p[k]
  OBVIOUS
<1> HIDE DEF F
<1>3. PICK C \in [0 .. n -> Seq(I)] : IsFold(C, n, F, a)
  BY <1>1, FoldExists
<1>4. \A k \in 1 .. n : k - 1 \in 0 .. n
  OBVIOUS
<1>5. On(C, n)
  BY <1>3 DEF On
<1>6. C[0] = a
  BY <1>3 DEF IsFold
<1>7. ASSUME NEW k \in 1 .. n PROVE C[k] = C[k - 1] \o p[k]
  <2>1. C[k] = F[<<k, C[k - 1]>>] /\ C[k - 1] \in Seq(I)
    BY <1>3, <1>4 DEF IsFold
  <2> QED
    BY <1>2, <2>1
<1> QED
  BY <1>5, <1>6, <1>7 DEF IsJoin

LEMMA JoinIs ==
  ASSUME NEW I, NEW C, NEW a, NEW n, NEW p, Joined(I, C, a, n, p)
  PROVE  C \in [0 .. n -> Seq(I)]
<1>0. a \in Seq(I) /\ n \in Nat /\ p \in [1 .. n -> Seq(I)] /\ IsJoin(C, a, n, p)
  BY DEF Joined
<1> DEFINE Z == {k \in Nat : k <= n => C[k] \in Seq(I)}
<1>1. 0 \in Z
  BY <1>0 DEF IsJoin
<1>2. ASSUME NEW k \in Z PROVE k + 1 \in Z
  <2>1. CASE k + 1 <= n
    <3>1. k + 1 \in 1 .. n /\ (k + 1) - 1 = k /\ C[k] \in Seq(I)
      BY <1>0, <2>1
    <3>2. C[k + 1] = C[k] \o p[k + 1] /\ p[k + 1] \in Seq(I)
      BY <1>0, <3>1 DEF IsJoin
    <3>3. C[k + 1] \in Seq(I)
      BY <3>1, <3>2, Concat
    <3> QED
      BY <3>3
  <2>2. CASE ~(k + 1 <= n)
    BY <1>0, <2>2
  <2> QED
    BY <2>1, <2>2
<1>3. Z = Nat
  <2>1. Z \in SUBSET Nat
    OBVIOUS
  <2> HIDE DEF Z
  <2> QED
    BY <1>1, <1>2, <2>1, Induct
<1>4. ASSUME NEW k \in 0 .. n PROVE C[k] \in Seq(I)
  <2>1. k \in Nat /\ k <= n
    BY <1>0
  <2>2. k \in Z
    <3> HIDE DEF Z
    <3> QED
      BY <1>3, <2>1
  <2> QED
    BY <2>1, <2>2
<1> QED
  BY <1>0, <1>4 DEF IsJoin, On

\* As far as the pieces are the same
LEMMA JoinsAgree ==
  ASSUME NEW a, NEW n \in Nat, NEW m \in 0 .. n, NEW p, NEW q,
         \A k \in 1 .. m : p[k] = q[k],
         NEW C, IsJoin(C, a, n, p), NEW D, IsJoin(D, a, m, q)
  PROVE  \A k \in 0 .. m : C[k] = D[k]
<1> DEFINE Z == {k \in Nat : k <= m => C[k] = D[k]}
<1>1. 0 \in Z
  BY DEF IsJoin
<1>2. ASSUME NEW k \in Z PROVE k + 1 \in Z
  <2>1. CASE k + 1 <= m
    <3>1. k + 1 \in 1 .. n /\ k + 1 \in 1 .. m /\ (k + 1) - 1 = k /\ C[k] = D[k]
      BY <2>1
    <3>2. C[k + 1] = C[k] \o p[k + 1] /\ D[k + 1] = D[k] \o q[k + 1]
      BY <3>1 DEF IsJoin
    <3>3. p[k + 1] = q[k + 1]
      BY <3>1
    <3>4. C[k + 1] = D[k + 1]
      BY <3>1, <3>2, <3>3
    <3> QED
      BY <3>4
  <2>2. CASE ~(k + 1 <= m)
    BY <2>2
  <2> QED
    BY <2>1, <2>2
<1>3. Z = Nat
  <2>1. Z \in SUBSET Nat
    OBVIOUS
  <2> HIDE DEF Z
  <2> QED
    BY <1>1, <1>2, <2>1, Induct
<1> QED
  BY <1>3

\* What is put together stays where it is.
Grown(C, k, m) ==
  /\ Len(C[m]) >= Len(C[k])
  /\ \A i \in 1 .. Len(C[k]) : C[m][i] = C[k][i]

LEMMA JoinGrows ==
  ASSUME NEW I, NEW C, NEW a, NEW n, NEW p, Joined(I, C, a, n, p), NEW k \in 0 .. n
  PROVE  \A m \in k .. n : Grown(C, k, m)
<1> a \in Seq(I) /\ n \in Nat /\ p \in [1 .. n -> Seq(I)] /\ IsJoin(C, a, n, p)
  BY DEF Joined
<1>0. C \in [0 .. n -> Seq(I)]
  BY JoinIs
<1> DEFINE Z == {j \in Nat : k + j <= n => Grown(C, k, k + j)}
<1>1. 0 \in Z
  <2>1. k + 0 = k /\ C[k] \in Seq(I) /\ Len(C[k]) \in Nat
    BY <1>0
  <2> QED
    BY <2>1 DEF Grown
<1>2. ASSUME NEW j \in Z PROVE j + 1 \in Z
  <2>0. k \in Nat /\ j \in Nat
    OBVIOUS
  <2>1. CASE k + (j + 1) <= n
    <3>1. PICK m : m = k + j
      OBVIOUS
    <3>2. m \in 0 .. n /\ m + 1 \in 1 .. n /\ (m + 1) - 1 = m /\ k + (j + 1) = m + 1
      BY <2>0, <2>1, <3>1
    <3>3. Grown(C, k, m)
      BY <2>0, <2>1, <3>1
    <3>4. C[m + 1] = C[m] \o p[m + 1]
      BY <3>2 DEF IsJoin
    <3>5. C[m] \in Seq(I) /\ p[m + 1] \in Seq(I) /\ C[k] \in Seq(I)
      BY <1>0, <3>2
    <3>6. /\ Len(C[m + 1]) = Len(C[m]) + Len(p[m + 1])
          /\ \A i \in 1 .. Len(C[m]) : C[m + 1][i] = C[m][i]
      <4>1. PICK v : v = C[m]
        OBVIOUS
      <4>2. PICK w : w = p[m + 1]
        OBVIOUS
      <4>3. v \in Seq(I) /\ w \in Seq(I)
        BY <3>5, <4>1, <4>2
      <4>4. Len(v \o w) = Len(v) + Len(w) /\ \A i \in 1 .. Len(v) : (v \o w)[i] = v[i]
        BY <4>3, Concat DEF IsConcat
      <4> QED
        BY <3>4, <4>1, <4>2, <4>4, Zenon
    <3>7. Len(C[m]) \in Nat /\ Len(C[k]) \in Nat /\ Len(p[m + 1]) \in Nat
      BY <3>5
    <3>8. \A i \in 1 .. Len(C[k]) : i \in 1 .. Len(C[m])
      BY <3>3, <3>7 DEF Grown
    <3>9. Len(C[m + 1]) >= Len(C[k])
      <4>1. PICK x : x = Len(C[m])
        OBVIOUS
      <4>2. PICK y : y = Len(C[k])
        OBVIOUS
      <4>3. PICK z : z = Len(p[m + 1])
        OBVIOUS
      <4>4. x >= y /\ x \in Nat /\ y \in Nat /\ z \in Nat
        BY <3>3, <3>7, <4>1, <4>2, <4>3 DEF Grown
      <4>5. x + z >= y
        BY <4>4
      <4>6. Len(C[m + 1]) = x + z
        BY <3>6, <4>1, <4>3, Zenon
      <4> QED
        BY <4>2, <4>5, <4>6, Zenon
    <3>10. Grown(C, k, m + 1)
      BY <3>3, <3>6, <3>8, <3>9 DEF Grown
    <3> QED
      BY <2>0, <3>2, <3>10
  <2>2. CASE ~(k + (j + 1) <= n)
    BY <2>0, <2>2
  <2> QED
    BY <2>1, <2>2
<1>3. Z = Nat
  <2>1. Z \in SUBSET Nat
    OBVIOUS
  <2> HIDE DEF Z
  <2> QED
    BY <1>1, <1>2, <2>1, Induct
<1> QED
  <2> SUFFICES ASSUME NEW m \in k .. n PROVE Grown(C, k, m)
    OBVIOUS
  <2>1. m - k \in Nat /\ k + (m - k) = m /\ m <= n
    OBVIOUS
  <2>2. m - k \in Z
    BY <1>3, <2>1
  <2> QED
    BY <2>1, <2>2

\* Piece k begins behind what the pieces before it make.
IsPiece(C, n, p, k) ==
  /\ Len(C[k]) = Len(C[k - 1]) + Len(p[k])
  /\ Len(C[k]) <= Len(C[n])
  /\ \A i \in 1 .. Len(p[k]) : C[n][Len(C[k - 1]) + i] = p[k][i]

LEMMA PieceAt ==
  ASSUME NEW I, NEW C, NEW a, NEW n, NEW p, Joined(I, C, a, n, p), NEW k \in 1 .. n
  PROVE  IsPiece(C, n, p, k)
<1> a \in Seq(I) /\ n \in Nat /\ p \in [1 .. n -> Seq(I)] /\ IsJoin(C, a, n, p)
  BY DEF Joined
<1>0. C \in [0 .. n -> Seq(I)]
  BY JoinIs
<1>1. k - 1 \in 0 .. n /\ k \in 0 .. n /\ n \in k .. n
  OBVIOUS
<1>2. C[k] = C[k - 1] \o p[k] /\ C[k - 1] \in Seq(I) /\ p[k] \in Seq(I)
  BY <1>0, <1>1 DEF IsJoin
<1>3. /\ Len(C[k]) = Len(C[k - 1]) + Len(p[k])
      /\ \A i \in 1 .. Len(p[k]) : C[k][Len(C[k - 1]) + i] = p[k][i]
  BY <1>2, Concat DEF IsConcat
<1>4. Len(C[n]) >= Len(C[k]) /\ \A i \in 1 .. Len(C[k]) : C[n][i] = C[k][i]
  <2>1. Grown(C, k, n)
    BY <1>1, JoinGrows
  <2> QED
    BY <2>1 DEF Grown
<1>5. Len(C[k]) \in Nat /\ Len(C[n]) \in Nat /\ Len(C[k - 1]) \in Nat /\ Len(p[k]) \in Nat
  BY <1>0, <1>1, <1>2
<1>6. \A i \in 1 .. Len(p[k]) : Len(C[k - 1]) + i \in 1 .. Len(C[k])
  BY <1>3, <1>5
<1> QED
  BY <1>3, <1>4, <1>5, <1>6 DEF IsPiece

----------------------------------------------------------------------------
(***************************************************************************)
(* What is sent for the symbols.                                           *)
(***************************************************************************)

Coding(t, c) == [tree |-> t, val |-> c]
ExtraBits(v, n) == [tree |-> "bits", val |-> v, n |-> n]

Items == {x \in [tree : {"l"}, val : Nat] : x.val <= 285}
           \cup {x \in [tree : {"d"}, val : Nat] : x.val <= 29}
           \cup {x \in [tree : {"bits"}, val : Nat, n : 1 .. 13] : x.val < Pow(x.n)}

\* Whether there are extra bits
X(n) == IF n = 0 THEN 0 ELSE 1

LEMMA XIs ==
  ASSUME NEW n
  PROVE  X(n) \in {0, 1} /\ (n = 0 <=> X(n) = 0)
BY DEF X

LEMMA CodingIs ==
  /\ \A c \in Nat : c <= 285 => Coding("l", c) \in Items
  /\ \A c \in Nat : c <= 29 => Coding("d", c) \in Items
BY DEF Coding, Items

LEMMA ExtraBitsIs ==
  ASSUME NEW v \in Nat, NEW n \in 1 .. 13, v < Pow(n)
  PROVE  ExtraBits(v, n) \in Items
BY DEF ExtraBits, Items


\* What send_bits adds for n extra bits
IsExtra(s, v, n) ==
  /\ s \in Seq(Items) /\ Len(s) = X(n)
  /\ n # 0 => s[1] = ExtraBits(v, n)

LEMMA ExtraIs ==
  ASSUME NEW v \in Nat, NEW n \in 1 .. 13, v < Pow(n)
  PROVE  IsExtra(S!Extra(v, n), v, n)
<1>1. ExtraBits(v, n) \in Items
  BY ExtraBitsIs
<1>2. S!Extra(v, n) = <<ExtraBits(v, n)>>
  BY DEF S!Extra, ExtraBits
<1>3. X(n) = 1
  BY DEF X
<1> QED
  BY <1>1, <1>2, <1>3 DEF IsExtra

LEMMA NoExtra ==
  ASSUME NEW v
  PROVE  IsExtra(S!Extra(v, 0), v, 0)
<1>1. S!Extra(v, 0) = <<>> /\ X(0) = 0
  BY DEF S!Extra, X
<1>2. <<>> \in Seq(Items) /\ Len(<<>>) = 0
  OBVIOUS
<1>3. IsExtra(<<>>, v, 0)
  BY <1>1, <1>2 DEF IsExtra
<1> QED
  BY <1>1, <1>3

\* Four pieces in a row, the second and the fourth perhaps empty
IsFour(s, a, u, c, w) ==
  /\ Len(s) = 2 + Len(u) + Len(w)
  /\ s[1] = a /\ s[2 + Len(u)] = c
  /\ Len(u) = 1 => s[2] = u[1]
  /\ Len(w) = 1 => s[3 + Len(u)] = w[1]

LEMMA Three ==
  ASSUME NEW I, NEW a \in I, NEW c \in I, NEW u \in Seq(I), Len(u) \in {0, 1},
         NEW s, s = <<a>> \o u \o <<c>>
  PROVE  /\ s \in Seq(I) /\ Len(s) = 2 + Len(u) /\ s[1] = a /\ s[2 + Len(u)] = c
         /\ Len(u) = 1 => s[2] = u[1]
OBVIOUS

LEMMA Four ==
  ASSUME NEW I, NEW a \in I, NEW c \in I, NEW u \in Seq(I), NEW w \in Seq(I),
         Len(u) \in {0, 1}, Len(w) \in {0, 1}
  PROVE  /\ <<a>> \o u \o <<c>> \o w \in Seq(I)
         /\ IsFour(<<a>> \o u \o <<c>> \o w, a, u, c, w)
<1> DEFINE s == <<a>> \o u \o <<c>>
<1>1. /\ s \in Seq(I) /\ Len(s) = 2 + Len(u) /\ s[1] = a /\ s[2 + Len(u)] = c
      /\ Len(u) = 1 => s[2] = u[1]
  BY Three
<1> HIDE DEF s
<1>2. s \o w \in Seq(I) /\ IsConcat(s \o w, s, w)
  BY <1>1, Concat, Zenon
<1> DEFINE t == s \o w
<1> HIDE DEF t
<1>3. t \in Seq(I) /\ IsConcat(t, s, w)
  BY <1>2 DEF t
<1>4. PICK x : x = Len(u)
  OBVIOUS
<1>5. PICK y : y = Len(w)
  OBVIOUS
<1>6. x \in {0, 1} /\ y \in {0, 1}
  BY <1>4, <1>5
<1>7. s[1] = a /\ s[2 + x] = c /\ (x = 1 => s[2] = u[1]) /\ Len(s) = 2 + x
  BY <1>1, <1>4
<1>8. Len(t) = 2 + x + y
  BY <1>3, <1>5, <1>6, <1>7 DEF IsConcat
<1>9. t[1] = a /\ t[2 + x] = c /\ (x = 1 => t[2] = u[1])
  <2>1. \A i \in 1 .. 2 + x : t[i] = s[i]
    BY <1>3, <1>7 DEF IsConcat
  <2>2. 1 \in 1 .. 2 + x /\ 2 + x \in 1 .. 2 + x /\ 2 \in 1 .. 2 + x
    BY <1>6
  <2> QED
    BY <1>7, <2>1, <2>2
<1>10. y = 1 => t[3 + x] = w[1]
  <2>1. \A i \in 1 .. y : t[(2 + x) + i] = w[i]
    BY <1>3, <1>5, <1>7 DEF IsConcat
  <2>2. y = 1 => 1 \in 1 .. y /\ (2 + x) + 1 = 3 + x
    BY <1>6
  <2> QED
    BY <2>1, <2>2
<1>11. IsFour(t, a, u, c, w)
  BY <1>4, <1>5, <1>8, <1>9, <1>10 DEF IsFour
<1> QED
  BY <1>3, <1>11 DEF t, s

LEMMA SentLiteral ==
  ASSUME NEW lc \in Nat, lc < S!LITERALS
  PROVE  /\ S!Sent(0, lc) = <<Coding("l", lc)>> /\ S!Sent(0, lc) \in Seq(Items)
         /\ Len(S!Sent(0, lc)) = 1 /\ S!Sent(0, lc)[1] = Coding("l", lc)
<1>1. S!Sent(0, lc) = <<Coding("l", lc)>>
  BY DEF S!Sent, S!Code, Coding
<1>2. Coding("l", lc) \in Items
  BY CodingIs DEF S!LITERALS
<1>3. ASSUME NEW x \in Items
      PROVE  <<x>> \in Seq(Items) /\ Len(<<x>>) = 1 /\ <<x>>[1] = x
  OBVIOUS
<1>4. PICK x : x = Coding("l", lc)
  OBVIOUS
<1>5. S!Sent(0, lc) = <<x>> /\ x \in Items
  BY <1>1, <1>2, <1>4, Zenon
<1>6. S!Sent(0, lc) \in Seq(Items) /\ Len(S!Sent(0, lc)) = 1 /\ S!Sent(0, lc)[1] = x
  BY <1>3, <1>5, Zenon
<1> QED
  BY <1>1, <1>4, <1>6, Zenon

LEMMA SentMatch ==
  ASSUME NEW d \in Nat, 0 < d, d <= S!MAX_DISTANCE, NEW lc \in Nat, lc < S!LITERALS
  PROVE  /\ S!Sent(d, lc) \in Seq(Items)
         /\ Len(S!Sent(d, lc)) = 2 + X(XL(lc)) + X(XD(d))
         /\ S!Sent(d, lc)[1] = Coding("l", LCode(lc) + 257)
         /\ S!Sent(d, lc)[2 + X(XL(lc))] = Coding("d", DCode(d))
         /\ XL(lc) # 0 => S!Sent(d, lc)[2] = ExtraBits(lc - BL(lc), XL(lc))
         /\ XD(d) # 0 => S!Sent(d, lc)[3 + X(XL(lc))] = ExtraBits(d - 1 - BD(d), XD(d))
<1> DEFINE a == Coding("l", LCode(lc) + S!LITERALS + 1)
           c == Coding("d", DCode(d))
           u == S!Extra(lc - BL(lc), XL(lc))
           w == S!Extra(d - 1 - BD(d), XD(d))
<1>0. LCode(lc) + S!LITERALS + 1 = LCode(lc) + 257
  BY LengthFacts DEF S!LITERALS
<1>1. S!Sent(d, lc) = <<a>> \o u \o <<c>> \o w
  BY DEF S!Sent, S!Code, Coding, LCode, XL, BL, DCode, XD, BD
<1>2. a \in Items /\ c \in Items
  <2>1. LCode(lc) + 257 \in Nat /\ LCode(lc) + 257 <= 285
    <3>1. LCode(lc) \in 0 .. 28
      BY LengthFacts
    <3> QED
      BY <3>1
  <2>2. DCode(d) \in Nat /\ DCode(d) <= 29
    <3>1. DCode(d) \in 0 .. 29
      BY DistFacts
    <3> QED
      BY <3>1
  <2> QED
    BY <1>0, <2>1, <2>2, CodingIs
<1>3. IsExtra(u, lc - BL(lc), XL(lc))
  <2>1. PICK x : x = XL(lc)
    OBVIOUS
  <2>2. PICK v : v = lc - BL(lc)
    OBVIOUS
  <2>3. x \in 0 .. 13 /\ (x # 0 => v \in Nat /\ v < Pow(x))
    BY <2>1, <2>2, LengthFacts
  <2>4. IsExtra(S!Extra(v, x), v, x)
    <3>1. CASE x = 0
      <4>1. IsExtra(S!Extra(v, 0), v, 0)
        BY NoExtra
      <4> QED
        BY <3>1, <4>1
    <3>2. CASE x # 0
      <4>1. x \in 1 .. 13 /\ v \in Nat /\ v < Pow(x)
        BY <2>3, <3>2
      <4> QED
        BY <4>1, ExtraIs
    <3> QED
      BY <3>1, <3>2
  <2> QED
    BY <2>1, <2>2, <2>4
<1>4. IsExtra(w, d - 1 - BD(d), XD(d))
  <2>1. PICK x : x = XD(d)
    OBVIOUS
  <2>2. PICK v : v = d - 1 - BD(d)
    OBVIOUS
  <2>3. x \in 0 .. 13 /\ v \in Nat /\ v < Pow(x)
    BY <2>1, <2>2, DistFacts
  <2>4. IsExtra(S!Extra(v, x), v, x)
    <3>1. CASE x = 0
      <4>1. IsExtra(S!Extra(v, 0), v, 0)
        BY NoExtra
      <4> QED
        BY <3>1, <4>1
    <3>2. CASE x # 0
      <4>1. x \in 1 .. 13
        BY <2>3, <3>2
      <4> QED
        BY <2>3, <4>1, ExtraIs
    <3> QED
      BY <3>1, <3>2
  <2> QED
    BY <2>1, <2>2, <2>4
<1> DEFINE s == S!Sent(d, lc)
<1> HIDE DEF a, c, u, w, s
<1>5. s = <<a>> \o u \o <<c>> \o w
  BY <1>1 DEF s
<1>6. s \in Seq(Items) /\ IsFour(s, a, u, c, w)
  <2>1. Len(u) \in {0, 1} /\ Len(w) \in {0, 1} /\ u \in Seq(Items) /\ w \in Seq(Items)
    BY <1>3, <1>4, XIs DEF IsExtra
  <2>2. <<a>> \o u \o <<c>> \o w \in Seq(Items)
        /\ IsFour(<<a>> \o u \o <<c>> \o w, a, u, c, w)
    BY <1>2, <2>1, Four
  <2> QED
    BY <1>5, <2>2
<1>7. (XL(lc) # 0 => X(XL(lc)) = 1) /\ (XD(d) # 0 => X(XD(d)) = 1)
  BY DEF X
<1> QED
  BY <1>0, <1>3, <1>4, <1>6, <1>7 DEF a, c, s, IsExtra, IsFour

LEMMA Sizes == Cardinality({}) = 0 /\ \A x : Cardinality({x}) = 1
BY FS_EmptySet, FS_Singleton

\* Which codes those are
OfTree(t, c) == {x \in Items : x.tree = t /\ x.val = c}

LEMMA CodesOf ==
  ASSUME NEW d \in Nat, d <= S!MAX_DISTANCE, NEW lc \in Nat, lc < S!LITERALS, NEW c
  PROVE  /\ Cardinality(Hits(S!Sent(d, lc), OfTree("l", c)))
              = IF c = (IF d = 0 THEN lc ELSE LCode(lc) + 257) THEN 1 ELSE 0
         /\ Cardinality(Hits(S!Sent(d, lc), OfTree("d", c)))
              = IF d # 0 /\ c = DCode(d) THEN 1 ELSE 0
<1> DEFINE s == S!Sent(d, lc)
           lcode == IF d = 0 THEN lc ELSE LCode(lc) + 257
<1>1. CASE d = 0
  <2>1. s = <<Coding("l", lc)>>
    BY <1>1, SentLiteral
  <2>2. Coding("l", lc) \in OfTree("l", c) <=> c = lc
    <3>1. Coding("l", lc) \in Items
      BY CodingIs DEF S!LITERALS
    <3> QED
      BY <3>1 DEF OfTree, Coding
  <2>3. Coding("l", lc) \notin OfTree("d", c)
    BY DEF OfTree, Coding
  <2> HIDE DEF s
  <2> QED
    BY <1>1, <2>1, <2>2, <2>3, HitsOne DEF s
<1>2. CASE d # 0
  <2>1. 0 < d
    BY <1>2
  <2>2. /\ s \in Seq(Items) /\ Len(s) = 2 + X(XL(lc)) + X(XD(d))
        /\ s[1] = Coding("l", LCode(lc) + 257)
        /\ s[2 + X(XL(lc))] = Coding("d", DCode(d))
        /\ XL(lc) # 0 => s[2] = ExtraBits(lc - BL(lc), XL(lc))
        /\ XD(d) # 0 => s[3 + X(XL(lc))] = ExtraBits(d - 1 - BD(d), XD(d))
    BY <2>1, SentMatch
  <2>3. X(XL(lc)) \in {0, 1} /\ X(XD(d)) \in {0, 1}
        /\ (X(XL(lc)) # 0 => XL(lc) # 0) /\ (X(XD(d)) # 0 => XD(d) # 0)
    BY XIs
  <2> HIDE DEF s
  <2>4. PICK x : x = X(XL(lc))
    OBVIOUS
  <2>5. PICK y : y = X(XD(d))
    OBVIOUS
  <2>6. x \in {0, 1} /\ y \in {0, 1} /\ Len(s) = 2 + x + y
    BY <2>2, <2>3, <2>4, <2>5
  <2>7. /\ s[1] = Coding("l", LCode(lc) + 257) /\ s[2 + x] = Coding("d", DCode(d))
        /\ x # 0 => s[2].tree = "bits"
        /\ y # 0 => s[3 + x].tree = "bits"
    BY <2>2, <2>3, <2>4, <2>5 DEF ExtraBits
  <2>8. DOMAIN s = 1 .. 2 + x + y /\ \A i \in DOMAIN s : s[i] \in Items
    BY <2>2, <2>6
  <2>9. \A i \in DOMAIN s : i = 1 \/ i = 2 + x \/ (x # 0 /\ i = 2) \/ (y # 0 /\ i = 3 + x)
    BY <2>6, <2>8
  <2>10. /\ s[1].tree = "l" /\ s[1].val = LCode(lc) + 257
         /\ s[2 + x].tree = "d" /\ s[2 + x].val = DCode(d)
    BY <2>7 DEF Coding
  <2>11. \A i \in DOMAIN s : (s[i].tree = "l" <=> i = 1) /\ (s[i].tree = "d" <=> i = 2 + x)
    <3>1. 2 + x # 1 /\ 3 + x # 1 /\ 3 + x # 2 + x
      BY <2>6
    <3>2. x # 0 => 2 # 2 + x
      BY <2>6
    <3> QED
      BY <2>7, <2>9, <2>10, <3>1, <3>2
  <2>12. 1 \in DOMAIN s /\ 2 + x \in DOMAIN s
    BY <2>6, <2>8
  <2>13. Hits(s, OfTree("l", c)) = IF c = LCode(lc) + 257 THEN {1} ELSE {}
    BY <2>8, <2>10, <2>11, <2>12 DEF Hits, OfTree
  <2>14. Hits(s, OfTree("d", c)) = IF c = DCode(d) THEN {2 + x} ELSE {}
    BY <2>8, <2>10, <2>11, <2>12 DEF Hits, OfTree
  <2>15. Cardinality({1}) = 1 /\ Cardinality({2 + x}) = 1 /\ Cardinality({}) = 0
    <3>1. Cardinality({1}) = 1
      BY Sizes, Zenon
    <3>2. Cardinality({2 + x}) = 1
      BY Sizes, Zenon
    <3> QED
      BY <3>1, <3>2, Sizes, Zenon
  <2>16. Cardinality(Hits(s, OfTree("l", c))) = IF c = LCode(lc) + 257 THEN 1 ELSE 0
    BY <2>13, <2>15
  <2>17. Cardinality(Hits(s, OfTree("d", c))) = IF c = DCode(d) THEN 1 ELSE 0
    BY <2>14, <2>15
  <2> QED
    BY <1>2, <2>16, <2>17 DEF s
<1> QED
  BY <1>1, <1>2

----------------------------------------------------------------------------
(***************************************************************************)
(* The symbol buffer and what it becomes.                                  *)
(***************************************************************************)

\* A length as the buffer holds it
Lc(s) == IF s.dist = 0 THEN s.length ELSE s.length - 3

LEMMA SymbolFacts ==
  ASSUME NEW s \in S!Symbol
  PROVE  /\ s.dist \in Nat /\ s.dist <= S!MAX_DISTANCE
         /\ Lc(s) \in Nat /\ Lc(s) < S!LITERALS
         /\ s.dist = 0 => s = [dist |-> 0, length |-> Lc(s)]
         /\ s.dist # 0 => s = [dist |-> s.dist, length |-> Lc(s) + 3]
<1>1. S!LITERALS = 256 /\ S!MIN_MATCH = 3 /\ S!MAX_MATCH = 258
  BY DEF S!LITERALS, S!MIN_MATCH, S!MAX_MATCH
<1>2. S!MAX_DISTANCE \in Nat
  BY DEF S!MAX_DISTANCE
<1>3. CASE s \in [dist : {0}, length : 0 .. S!LITERALS - 1]
  <2>1. s.dist = 0 /\ s.length \in 0 .. S!LITERALS - 1 /\ s = [dist |-> s.dist, length |-> s.length]
    BY <1>3
  <2>2. Lc(s) = s.length
    BY <2>1 DEF Lc
  <2>3. s.length \in Nat /\ s.length < S!LITERALS
    BY <1>1, <2>1
  <2> QED
    BY <1>2, <2>1, <2>2, <2>3
<1>4. CASE s \in [dist : 1 .. S!MAX_DISTANCE, length : S!MIN_MATCH .. S!MAX_MATCH]
  <2>1. s.dist \in 1 .. S!MAX_DISTANCE /\ s.length \in S!MIN_MATCH .. S!MAX_MATCH
        /\ s = [dist |-> s.dist, length |-> s.length]
    BY <1>4
  <2>2. s.length \in Nat /\ 3 <= s.length /\ s.length <= 258
    BY <1>1, <2>1
  <2>3. s.dist \in Nat /\ s.dist # 0 /\ s.dist <= S!MAX_DISTANCE
    BY <1>2, <2>1
  <2>4. Lc(s) = s.length - 3
    BY <2>3 DEF Lc
  <2>5. Lc(s) \in Nat /\ Lc(s) < S!LITERALS /\ Lc(s) + 3 = s.length
    BY <1>1, <2>2, <2>4
  <2> QED
    BY <2>1, <2>3, <2>5
<1> QED
  BY <1>3, <1>4 DEF S!Symbol

\* Neither is cut off where it is stored.
LEMMA Stored ==
  ASSUME NEW s \in S!Symbol
  PROVE  /\ s.dist % 2 ^ 16 = s.dist
         /\ (IF s.dist % 2 ^ 16 = 0 THEN s.length ELSE s.length - S!MIN_MATCH) % 2 ^ 8 = Lc(s)
<1>1. 2 ^ 16 = 65536 /\ 2 ^ 8 = 256
  OBVIOUS
<1>2. s.dist \in Nat /\ s.dist < 65536
  BY SymbolFacts DEF S!MAX_DISTANCE
<1>3. s.dist % 2 ^ 16 = s.dist
  <2>1. \A x \in Nat : x < 65536 => x % 65536 = x
    OBVIOUS
  <2> QED
    BY <1>1, <1>2, <2>1
<1>4. (IF s.dist = 0 THEN s.length ELSE s.length - S!MIN_MATCH) = Lc(s)
  BY DEF Lc, S!MIN_MATCH
<1>5. Lc(s) \in Nat /\ Lc(s) < 256
  BY SymbolFacts DEF S!LITERALS
<1>6. \A x \in Nat : x < 256 => x % 256 = x
  OBVIOUS
<1> QED
  BY <1>1, <1>3, <1>4, <1>5, <1>6

\* Two buffers of distances and lengths, and what is sent for them
Pairs(D, L) ==
  /\ D \in Seq(Nat) /\ L \in Seq(Nat) /\ Len(L) = Len(D)
  /\ \A i \in 1 .. Len(D) : D[i] <= S!MAX_DISTANCE /\ L[i] < S!LITERALS

SentOf(D, L) == [k \in 1 .. Len(D) |-> S!Sent(D[k], L[k])]

LEMMA SentOfIs ==
  ASSUME NEW D, NEW L, Pairs(D, L)
  PROVE  SentOf(D, L) \in [1 .. Len(D) -> Seq(Items)]
<1> SUFFICES ASSUME NEW k \in 1 .. Len(D) PROVE S!Sent(D[k], L[k]) \in Seq(Items)
  BY DEF SentOf
<1>1. PICK d : d = D[k]
  OBVIOUS
<1>2. PICK lc : lc = L[k]
  OBVIOUS
<1>3. d \in Nat /\ d <= S!MAX_DISTANCE /\ lc \in Nat /\ lc < S!LITERALS
  BY <1>1, <1>2 DEF Pairs
<1>4. S!Sent(d, lc) \in Seq(Items)
  <2>1. CASE d = 0
    BY <1>3, <2>1, SentLiteral
  <2>2. CASE d # 0
    <3>1. 0 < d
      BY <1>3, <2>2
    <3> QED
      BY <1>3, <3>1, SentMatch
  <2> QED
    BY <2>1, <2>2
<1> QED
  BY <1>1, <1>2, <1>4

LEMMA CodedIs ==
  ASSUME NEW D, NEW L, Pairs(D, L)
  PROVE  Joined(Items, S!Coded(D, L), <<>>, Len(D), SentOf(D, L))
<1> DEFINE n == Len(D)
           p == SentOf(D, L)
           Is(s) == s = [lx \in 0 .. Len(D) |->
                           IF lx = 0 THEN <<>> ELSE s[lx - 1] \o S!Sent(D[lx], L[lx])]
<1>1. n \in Nat /\ p \in [1 .. n -> Seq(Items)] /\ <<>> \in Seq(Items)
  BY SentOfIs DEF Pairs
<1>2. \A k \in 1 .. n : p[k] = S!Sent(D[k], L[k])
  BY DEF SentOf
<1>3. S!Coded(D, L) = (CHOOSE s : Is(s))
  BY DEF S!Coded
<1> HIDE DEF p
<1>4. PICK C : IsJoin(C, <<>>, n, p)
  BY <1>1, JoinExists
<1>5. Is(C)
  <2>1. ASSUME NEW k \in 0 .. n
        PROVE  C[k] = IF k = 0 THEN <<>> ELSE C[k - 1] \o S!Sent(D[k], L[k])
    <3>1. CASE k = 0
      BY <1>4, <3>1 DEF IsJoin
    <3>2. CASE k # 0
      <4>1. k \in 1 .. n
        BY <1>1, <3>2
      <4> HIDE DEF n
      <4> QED
        BY <1>2, <1>4, <3>2, <4>1 DEF IsJoin
    <3> QED
      BY <3>1, <3>2
  <2> QED
    BY <1>4, <2>1 DEF IsJoin, On
<1> DEFINE s == CHOOSE s : Is(s)
<1>6. Is(s)
  BY <1>5
<1> HIDE DEF s
<1>7. \A k \in 0 .. n : s[k] = IF k = 0 THEN <<>> ELSE s[k - 1] \o S!Sent(D[k], L[k])
  BY <1>6
<1>8. On(s, n)
  BY <1>6 DEF On
<1> HIDE DEF Is, n
<1>9. s[0] = <<>> /\ \A k \in 1 .. n : s[k] = s[k - 1] \o p[k]
  <2>1. 0 \in 0 .. n /\ \A k \in 1 .. n : k \in 0 .. n /\ k # 0
    BY <1>1
  <2> QED
    BY <1>2, <1>7, <2>1
<1> QED
  BY <1>1, <1>3, <1>8, <1>9 DEF Joined, IsJoin, s, n, p

LEMMA CodedSeq ==
  ASSUME NEW D, NEW L, Pairs(D, L)
  PROVE  S!Coded(D, L) \in [0 .. Len(D) -> Seq(Items)] /\ Len(D) \in Nat
<1>1. Len(D) \in Nat
  BY DEF Pairs
<1> QED
  BY <1>1, CodedIs, JoinIs

\* One more symbol
LEMMA CodedAppend ==
  ASSUME NEW D, NEW L, Pairs(D, L),
         NEW d \in Nat, d <= S!MAX_DISTANCE, NEW lc \in Nat, lc < S!LITERALS
  PROVE  /\ Pairs(Append(D, d), Append(L, lc)) /\ Len(Append(D, d)) = Len(D) + 1
         /\ S!Coded(Append(D, d), Append(L, lc))[Len(D) + 1]
              = S!Coded(D, L)[Len(D)] \o S!Sent(d, lc)
<1> DEFINE n == Len(D)
           DD == Append(D, d)
           LL == Append(L, lc)
<1>1. /\ n \in Nat /\ Len(DD) = n + 1 /\ Len(LL) = n + 1 /\ DD \in Seq(Nat) /\ LL \in Seq(Nat)
      /\ \A i \in 1 .. n : DD[i] = D[i] /\ LL[i] = L[i]
      /\ DD[n + 1] = d /\ LL[n + 1] = lc
  BY DEF Pairs
<1> HIDE DEF DD, LL
<1>2. Pairs(DD, LL)
  <2>1. ASSUME NEW i \in 1 .. Len(DD) PROVE DD[i] <= S!MAX_DISTANCE /\ LL[i] < S!LITERALS
    <3>1. CASE i = n + 1
      BY <1>1, <3>1
    <3>2. CASE i # n + 1
      <4>1. i \in 1 .. n
        BY <1>1, <3>2
      <4> QED
        BY <1>1, <4>1 DEF Pairs
    <3> QED
      BY <3>1, <3>2
  <2> QED
    BY <1>1, <2>1 DEF Pairs
<1>4. IsJoin(S!Coded(DD, LL), <<>>, n + 1, SentOf(DD, LL)) /\ IsJoin(S!Coded(D, L), <<>>, n, SentOf(D, L))
  BY <1>1, <1>2, CodedIs DEF Joined
<1> HIDE DEF n
<1>5. \A i \in 1 .. n : SentOf(DD, LL)[i] = SentOf(D, L)[i]
  BY <1>1 DEF SentOf, n
<1>6. SentOf(DD, LL)[n + 1] = S!Sent(d, lc)
  BY <1>1 DEF SentOf
<1>7. n \in 0 .. n + 1 /\ n + 1 \in Nat /\ n + 1 \in 1 .. n + 1 /\ (n + 1) - 1 = n
  BY <1>1
<1>8. \A k \in 0 .. n : S!Coded(DD, LL)[k] = S!Coded(D, L)[k]
  BY <1>4, <1>5, <1>7, JoinsAgree
<1>9. S!Coded(DD, LL)[n] = S!Coded(D, L)[n]
  BY <1>1, <1>8
<1>10. S!Coded(DD, LL)[n + 1] = S!Coded(DD, LL)[n] \o SentOf(DD, LL)[n + 1]
  BY <1>4, <1>7 DEF IsJoin
<1> QED
  BY <1>1, <1>2, <1>6, <1>9, <1>10 DEF DD, LL, n

----------------------------------------------------------------------------
(***************************************************************************)
(* The frequencies: a bag of the codes of a tree in what is sent.          *)
(***************************************************************************)

Times(w, t, c) == Cardinality(Hits(w, OfTree(t, c)))

BagOf(w, t) == [c \in {x \in Nat : Times(w, t, x) > 0} |-> Times(w, t, c)]

LEMMA TimesIs ==
  ASSUME NEW w \in Seq(Items), NEW t, NEW c
  PROVE  Times(w, t, c) \in Nat /\ (Times(w, t, c) > 0 <=> Hits(w, OfTree(t, c)) # {})
<1>1. IsFiniteSet(Hits(w, OfTree(t, c))) /\ Times(w, t, c) \in Nat
  BY HitsFinite DEF Times
<1>2. Times(w, t, c) = 0 <=> Hits(w, OfTree(t, c)) = {}
  BY <1>1, FS_EmptySet DEF Times
<1> QED
  BY <1>1, <1>2

LEMMA TimesConcat ==
  ASSUME NEW v \in Seq(Items), NEW w \in Seq(Items), NEW e \in Seq(Items), NEW t, NEW c
  PROVE  /\ Times(v \o e, t, c) = Times(v, t, c) + Times(e, t, c)
         /\ Times((v \o w) \o e, t, c) = Times(v \o e, t, c) + Times(w, t, c)
         /\ Times(v \o e, t, c) \in Nat /\ (v \o w) \o e \in Seq(Items)
<1>1. v \o w \in Seq(Items) /\ v \o e \in Seq(Items) /\ (v \o w) \o e \in Seq(Items)
  BY Concat
<1>2. PICK vw : vw = v \o w
  OBVIOUS
<1>3. Times(vw \o e, t, c) = Times(vw, t, c) + Times(e, t, c)
  BY <1>1, <1>2, HitsConcat DEF Times
<1>4. Times(v \o w, t, c) = Times(v, t, c) + Times(w, t, c)
  BY HitsConcat DEF Times
<1>5. Times(v \o e, t, c) = Times(v, t, c) + Times(e, t, c)
  BY HitsConcat DEF Times
<1>6. Times(v, t, c) \in Nat /\ Times(w, t, c) \in Nat /\ Times(e, t, c) \in Nat
  BY TimesIs
<1> QED
  BY <1>1, <1>2, <1>3, <1>4, <1>5, <1>6

\* One code of tree t, x
HasOne(w, t, x) == x \in Nat /\ \A c \in Nat : Times(w, t, c) = IF c = x THEN 1 ELSE 0

LEMMA BagAdd ==
  ASSUME NEW v \in Seq(Items), NEW w \in Seq(Items), NEW e \in Seq(Items), NEW t, NEW x,
         HasOne(w, t, x)
  PROVE  BagOf((v \o w) \o e, t) = BagOf(v \o e, t) (+) SetToBag({x})
<1> DEFINE A == BagOf(v \o e, t)
           B == SetToBag({x})
           o(c) == Times(v \o e, t, c)
           n(c) == Times((v \o w) \o e, t, c)
<1>1. \A c \in Nat : o(c) \in Nat /\ n(c) = o(c) + IF c = x THEN 1 ELSE 0
  BY TimesConcat DEF HasOne
<1>2. BagOf((v \o w) \o e, t) = [c \in {y \in Nat : n(y) > 0} |-> n(c)]
  BY DEF BagOf
<1>3. A = [c \in {y \in Nat : o(y) > 0} |-> o(c)]
  BY DEF BagOf
<1>4. DOMAIN B = {x} /\ B[x] = 1 /\ x \in Nat
  BY DEF SetToBag, HasOne
<1> HIDE DEF A, B, o, n
<1>5. A (+) B = [c \in DOMAIN A \cup DOMAIN B |->
                   (IF c \in DOMAIN A THEN A[c] ELSE 0) + (IF c \in DOMAIN B THEN B[c] ELSE 0)]
  BY DEF (+)
<1>6. DOMAIN A \cup DOMAIN B = {y \in Nat : n(y) > 0}
  <2>1. DOMAIN A = {y \in Nat : o(y) > 0}
    BY <1>3
  <2>2. ASSUME NEW y \in Nat PROVE n(y) > 0 <=> (o(y) > 0 \/ y = x)
    <3>1. PICK k : k = o(y)
      OBVIOUS
    <3>2. k \in Nat /\ n(y) = k + IF y = x THEN 1 ELSE 0
      BY <1>1, <3>1
    <3>3. CASE y = x
      BY <3>2, <3>3
    <3>4. CASE y # x
      <4>1. n(y) = k
        BY <3>2, <3>4
      <4> QED
        BY <3>1, <3>4, <4>1
    <3> QED
      BY <3>3, <3>4
  <2> QED
    BY <1>4, <2>1, <2>2
<1>7. ASSUME NEW c \in Nat, n(c) > 0
      PROVE  (IF c \in DOMAIN A THEN A[c] ELSE 0) + (IF c \in DOMAIN B THEN B[c] ELSE 0) = n(c)
  <2>1. (IF c \in DOMAIN A THEN A[c] ELSE 0) = o(c)
    BY <1>1, <1>3
  <2>2. (IF c \in DOMAIN B THEN B[c] ELSE 0) = IF c = x THEN 1 ELSE 0
    BY <1>4
  <2> QED
    BY <1>1, <2>1, <2>2
<1>8. A (+) B = [c \in {y \in Nat : n(y) > 0} |-> n(c)]
  BY <1>5, <1>6, <1>7
<1> QED
  BY <1>2, <1>8 DEF A, B

LEMMA BagKept ==
  ASSUME NEW v \in Seq(Items), NEW w \in Seq(Items), NEW e \in Seq(Items), NEW t,
         \A c \in Nat : Times(w, t, c) = 0
  PROVE  BagOf((v \o w) \o e, t) = BagOf(v \o e, t)
<1>1. \A c \in Nat : Times((v \o w) \o e, t, c) = Times(v \o e, t, c)
  <2> TAKE c \in Nat
  <2>1. /\ Times((v \o w) \o e, t, c) = Times(v \o e, t, c) + Times(w, t, c)
        /\ Times(v \o e, t, c) \in Nat
    <3>1. Times((v \o w) \o e, t, c) = Times(v \o e, t, c) + Times(w, t, c)
      BY TimesConcat
    <3>2. Times(v \o e, t, c) \in Nat
      BY TimesConcat
    <3> QED
      BY <3>1, <3>2
  <2>2. Times(w, t, c) = 0
    OBVIOUS
  <2>3. PICK k : k = Times(v \o e, t, c)
    OBVIOUS
  <2>4. k \in Nat /\ Times((v \o w) \o e, t, c) = k + 0
    BY <2>1, <2>2, <2>3
  <2> QED
    BY <2>3, <2>4
<1> QED
  BY <1>1 DEF BagOf

\* What a bag of codes has
LEMMA BagHas ==
  ASSUME NEW w \in Seq(Items)
  PROVE  /\ \A c \in BagToSet(BagOf(w, "l")) : c \in Nat /\ c <= 285
         /\ \A c \in BagToSet(BagOf(w, "d")) : c \in Nat /\ c <= 29
<1>1. ASSUME NEW t, NEW c \in BagToSet(BagOf(w, t))
      PROVE  c \in Nat /\ \E x \in Items : x.tree = t /\ x.val = c
  <2>1. c \in Nat /\ Times(w, t, c) > 0
    BY DEF BagToSet, BagOf
  <2>2. Hits(w, OfTree(t, c)) # {}
    BY <2>1, TimesIs
  <2> QED
    BY <2>1, <2>2 DEF Hits, OfTree
<1>2. \A x \in Items : x.tree = "l" => x.val <= 285
  BY DEF Items
<1>3. \A x \in Items : x.tree = "d" => x.val <= 29
  BY DEF Items
<1> QED
  BY <1>1, <1>2, <1>3

LEMMA SameSizes == \A Y : S!Cardinality(Y) = Cardinality(Y)
BY DEF S!Cardinality, Cardinality

LEMMA SameBags ==
  /\ \A Y : S!SetToBag(Y) = SetToBag(Y) /\ S!BagToSet(Y) = BagToSet(Y)
  /\ \A A, B : S!(+)(A, B) = A (+) B
  /\ S!EmptyBag = SetToBag({})
BY DEF S!SetToBag, SetToBag, S!BagToSet, BagToSet, S!(+), (+), S!EmptyBag, EmptyBag

LEMMA CodesSentIs ==
  ASSUME wire \in Seq(Items), NEW t
  PROVE  S!CodesSent(t) = BagOf(wire, t)
<1> DEFINE has == {i \in DOMAIN wire : wire[i].tree = t}
<1>1. \A i \in DOMAIN wire : wire[i] \in Items /\ wire[i].val \in Nat
  <2>1. \A x \in Items : x.val \in Nat
    BY DEF Items
  <2> QED
    BY <2>1
<1>2. ASSUME NEW c PROVE {i \in has : wire[i].val = c} = Hits(wire, OfTree(t, c))
  BY <1>1 DEF Hits, OfTree
<1>3. {wire[i].val : i \in has} = {x \in Nat : Times(wire, t, x) > 0}
  <2>1. ASSUME NEW i \in has PROVE wire[i].val \in Nat /\ Times(wire, t, wire[i].val) > 0
    <3>1. i \in Hits(wire, OfTree(t, wire[i].val)) /\ wire[i].val \in Nat
      BY <1>1, <1>2
    <3> QED
      BY <3>1, TimesIs
  <2>2. ASSUME NEW x \in Nat, Times(wire, t, x) > 0 PROVE \E i \in has : wire[i].val = x
    <3>1. Hits(wire, OfTree(t, x)) # {}
      BY <2>2, TimesIs
    <3> QED
      BY <1>2, <3>1
  <2> HIDE DEF has
  <2> QED
    BY <2>1, <2>2
<1>4. S!CodesSent(t) = [c \in {wire[i].val : i \in has} |-> Cardinality({i \in has : wire[i].val = c})]
  BY SameSizes, Zenon DEF S!CodesSent
<1> HIDE DEF has
<1> QED
  BY <1>2, <1>3, <1>4 DEF BagOf, Times

----------------------------------------------------------------------------
(***************************************************************************)
(* The invariant of SymbolCodes.  While the block is decoded, the decoder  *)
(* is in the piece sent for the symbol it has to find next.                *)
(***************************************************************************)

\* The buffer holds the symbols tallied.
SBuffers ==
  /\ Pairs(d_buf, l_buf) /\ Len(d_buf) < lit_bufsize
  /\ wanted \in Seq(S!Symbol) /\ Len(wanted) = Len(d_buf)
  /\ \A i \in 1 .. Len(d_buf) : d_buf[i] = wanted[i].dist /\ l_buf[i] = Lc(wanted[i])

\* What is sent for the first k, and for the block
Made(k) == S!Coded(d_buf, l_buf)[k]
End == Coding("l", S!END_BLOCK)
Whole == Made(Len(d_buf)) \o <<End>>

\* Frequencies count what is to be sent.
SCounts == dyn_ltree = BagOf(Whole, "l") /\ dyn_dtree = BagOf(Whole, "d")

SDecoded ==
  /\ text \in Seq(S!Symbol) /\ Len(text) <= Len(d_buf)
  /\ \A i \in 1 .. Len(text) : text[i] = wanted[i]
  /\ length \in Nat /\ length <= S!MAX_MATCH
  /\ offset \in Nat /\ offset <= S!MAX_DISTANCE /\ extra \in 0 .. 13

\* Where the decoder is: k symbols were found, whose codes end at a; the next is
\* the distance d and the length lc.
Place(k, a, d, lc) ==
  \/ mode = "LEN" /\ pos = a
  \/ /\ mode = "LENEXT" /\ k < Len(d_buf) /\ d # 0 /\ pos = a + 1
     /\ length = S!At(S!lbase, LCode(lc)) /\ extra = XL(lc)
  \/ /\ mode = "DIST" /\ k < Len(d_buf) /\ d # 0 /\ pos = a + 1 + X(XL(lc))
     /\ length = lc + 3
  \/ /\ mode = "DISTEXT" /\ k < Len(d_buf) /\ d # 0 /\ pos = a + 2 + X(XL(lc))
     /\ length = lc + 3 /\ offset = S!At(S!dbase, DCode(d)) /\ extra = XD(d)
  \/ mode = "TYPE" /\ k = Len(d_buf) /\ pos = a + 1

SPlace == Place(Len(text), Len(Made(Len(text))), d_buf[Len(text) + 1], l_buf[Len(text) + 1])

SymInv ==
  /\ SBuffers /\ SCounts
  /\ \/ /\ mode = "tally" /\ wire = <<>> /\ pos = 0 /\ text = <<>>
        /\ length = 0 /\ offset = 0 /\ extra = 0
     \/ wire = Whole /\ SDecoded /\ SPlace

LEMMA EndIs == <<End>> \in Seq(Items) /\ Len(<<End>>) = 1 /\ <<End>>[1] = End
<1>1. End \in Items
  BY CodingIs DEF End, S!END_BLOCK
<1> QED
  BY <1>1

LEMMA EndTimes ==
  ASSUME NEW c
  PROVE  /\ Times(<<End>>, "l", c) = IF c = 256 THEN 1 ELSE 0
         /\ Times(<<End>>, "d", c) = 0
<1>1. End \in OfTree("l", c) <=> c = 256
  <2>1. End \in Items
    BY CodingIs DEF End, S!END_BLOCK
  <2> QED
    BY <2>1 DEF OfTree, End, Coding, S!END_BLOCK
<1>2. End \notin OfTree("d", c)
  BY DEF OfTree, End, Coding
<1> QED
  BY <1>1, <1>2, HitsOne DEF Times

\* What the sequences are made of
LEMMA MadeIs ==
  ASSUME SBuffers
  PROVE  /\ Len(d_buf) \in Nat
         /\ \A k \in 0 .. Len(d_buf) : Made(k) \in Seq(Items) /\ Len(Made(k)) \in Nat
         /\ Whole \in Seq(Items) /\ Len(Whole) = Len(Made(Len(d_buf))) + 1
         /\ Whole[Len(Made(Len(d_buf))) + 1] = End
         /\ \A i \in 1 .. Len(Made(Len(d_buf))) : Whole[i] = Made(Len(d_buf))[i]
<1>1. Pairs(d_buf, l_buf)
  BY DEF SBuffers
<1>2. S!Coded(d_buf, l_buf) \in [0 .. Len(d_buf) -> Seq(Items)] /\ Len(d_buf) \in Nat
  BY <1>1, CodedSeq
<1>3. \A k \in 0 .. Len(d_buf) : Made(k) \in Seq(Items)
  BY <1>2 DEF Made
<1>4. PICK m : m = Made(Len(d_buf))
  OBVIOUS
<1>5. m \in Seq(Items)
  BY <1>2, <1>3, <1>4
<1>6. m \o <<End>> \in Seq(Items) /\ IsConcat(m \o <<End>>, m, <<End>>)
  BY <1>5, EndIs, Concat
<1>7. /\ Len(m \o <<End>>) = Len(m) + 1 /\ (m \o <<End>>)[Len(m) + 1] = End
      /\ \A i \in 1 .. Len(m) : (m \o <<End>>)[i] = m[i]
  BY <1>6, EndIs DEF IsConcat
<1>8. \A s \in Seq(Items) : Len(s) \in Nat
  OBVIOUS
<1> QED
  BY <1>2, <1>3, <1>4, <1>6, <1>7, <1>8 DEF Whole

\* The piece of the symbol after the first k
LEMMA PieceIs ==
  ASSUME SBuffers, NEW k \in Nat, k < Len(d_buf)
  PROVE  /\ d_buf[k + 1] \in Nat /\ d_buf[k + 1] <= S!MAX_DISTANCE
         /\ l_buf[k + 1] \in Nat /\ l_buf[k + 1] < S!LITERALS
         /\ Len(Made(k)) \in Nat
         /\ Len(Made(k + 1)) = Len(Made(k)) + Len(S!Sent(d_buf[k + 1], l_buf[k + 1]))
         /\ Len(Made(k + 1)) <= Len(Made(Len(d_buf)))
         /\ \A i \in 1 .. Len(S!Sent(d_buf[k + 1], l_buf[k + 1])) :
              Whole[Len(Made(k)) + i] = S!Sent(d_buf[k + 1], l_buf[k + 1])[i]
<1> DEFINE n == Len(d_buf)
           p == SentOf(d_buf, l_buf)
           C == S!Coded(d_buf, l_buf)
<1>1. Pairs(d_buf, l_buf) /\ n \in Nat /\ k \in 0 .. n /\ k + 1 \in 1 .. n /\ (k + 1) - 1 = k
      /\ k + 1 \in 0 .. n /\ n \in 0 .. n
  BY MadeIs DEF SBuffers
<1>2. /\ d_buf[k + 1] \in Nat /\ d_buf[k + 1] <= S!MAX_DISTANCE
      /\ l_buf[k + 1] \in Nat /\ l_buf[k + 1] < S!LITERALS
  BY <1>1 DEF Pairs
<1>3. Joined(Items, C, <<>>, n, p)
  BY <1>1, CodedIs
<1>4. p[k + 1] = S!Sent(d_buf[k + 1], l_buf[k + 1])
  BY <1>1 DEF SentOf
<1> HIDE DEF n, p, C
<1>5. /\ Len(C[k + 1]) = Len(C[k]) + Len(p[k + 1])
      /\ Len(C[k + 1]) <= Len(C[n])
      /\ \A i \in 1 .. Len(p[k + 1]) : C[n][Len(C[k]) + i] = p[k + 1][i]
  <2>1. PICK j : j = k + 1
    OBVIOUS
  <2>2. j \in 1 .. n /\ j - 1 = k
    BY <1>1, <2>1
  <2>3. /\ Len(C[j]) = Len(C[j - 1]) + Len(p[j])
        /\ Len(C[j]) <= Len(C[n])
        /\ \A i \in 1 .. Len(p[j]) : C[n][Len(C[j - 1]) + i] = p[j][i]
    <3>1. IsPiece(C, n, p, j)
      BY <1>3, <2>2, PieceAt
    <3> QED
      BY <3>1 DEF IsPiece
  <2> QED
    BY <2>1, <2>2, <2>3
<1>6. Made(k) = C[k] /\ Made(k + 1) = C[k + 1] /\ Made(n) = C[n]
  BY DEF Made, C
<1>7. /\ Len(C[k]) \in Nat /\ Len(C[n]) \in Nat /\ Len(C[k + 1]) \in Nat
      /\ \A i \in 1 .. Len(C[n]) : Whole[i] = C[n][i]
  BY <1>1, <1>6, MadeIs DEF n
<1>8. p[k + 1] \in Seq(Items)
  BY <1>1, <1>3 DEF Joined
<1>9. Len(p[k + 1]) \in Nat
  BY <1>8
<1>10. \A i \in 1 .. Len(p[k + 1]) : Len(C[k]) + i \in 1 .. Len(C[n])
  <2>1. PICK x : x = Len(p[k + 1])
    OBVIOUS
  <2>2. PICK y : y = Len(C[k])
    OBVIOUS
  <2>3. PICK z : z = Len(C[n])
    OBVIOUS
  <2>4. x \in Nat /\ y \in Nat /\ z \in Nat /\ y + x <= z
    BY <1>5, <1>7, <1>9, <2>1, <2>2, <2>3
  <2>5. \A i \in 1 .. x : y + i \in 1 .. z
    BY <2>4
  <2> QED
    BY <2>1, <2>2, <2>3, <2>5
<1>11. \A i \in 1 .. Len(p[k + 1]) : Whole[Len(C[k]) + i] = p[k + 1][i]
  BY <1>5, <1>7, <1>10
<1> QED
  BY <1>2, <1>4, <1>5, <1>6, <1>7, <1>11 DEF n

IsLiteral(a, b, lc) == b = a + 1 /\ Whole[a + 1] = Coding("l", lc)

IsMatch(a, b, d, lc) ==
  /\ b = a + 2 + X(XL(lc)) + X(XD(d))
  /\ Whole[a + 1] = Coding("l", LCode(lc) + 257)
  /\ XL(lc) # 0 => Whole[a + 2] = ExtraBits(lc - BL(lc), XL(lc))
  /\ Whole[a + 2 + X(XL(lc))] = Coding("d", DCode(d))
  /\ XD(d) # 0 => Whole[a + 3 + X(XL(lc))] = ExtraBits(d - 1 - BD(d), XD(d))

\* What lies between a and b, and the symbol it stands for
Between(k, a, b, d, lc) ==
  /\ d \in Nat /\ d <= S!MAX_DISTANCE /\ lc \in Nat /\ lc < S!LITERALS
  /\ a \in Nat /\ b \in Nat /\ b + 1 <= Len(Whole)
  /\ wanted[k + 1] \in S!Symbol
  /\ d = 0 => wanted[k + 1] = [dist |-> 0, length |-> lc] /\ IsLiteral(a, b, lc)
  /\ d # 0 => wanted[k + 1] = [dist |-> d, length |-> lc + 3] /\ IsMatch(a, b, d, lc)

LEMMA Inside ==
  ASSUME SBuffers, NEW k \in Nat, k < Len(d_buf)
  PROVE  Between(k, Len(Made(k)), Len(Made(k + 1)), d_buf[k + 1], l_buf[k + 1])
<1>1. PICK d : d = d_buf[k + 1]
  OBVIOUS
<1>2. PICK lc : lc = l_buf[k + 1]
  OBVIOUS
<1>3. PICK a : a = Len(Made(k))
  OBVIOUS
<1>4. PICK b : b = Len(Made(k + 1))
  OBVIOUS
<1>5. PICK s : s = S!Sent(d, lc)
  OBVIOUS
<1>6. /\ d \in Nat /\ d <= S!MAX_DISTANCE /\ lc \in Nat /\ lc < S!LITERALS /\ a \in Nat
      /\ b = a + Len(s) /\ b <= Len(Made(Len(d_buf)))
      /\ \A i \in 1 .. Len(s) : Whole[a + i] = s[i]
  BY <1>1, <1>2, <1>3, <1>4, <1>5, PieceIs
<1>7. Len(d_buf) \in Nat /\ Len(Whole) = Len(Made(Len(d_buf))) + 1 /\ Len(Made(Len(d_buf))) \in Nat
  BY MadeIs
<1>8. PICK w : w = wanted[k + 1]
  OBVIOUS
<1>9. w \in S!Symbol /\ w.dist = d /\ Lc(w) = lc
  <2>1. k + 1 \in 1 .. Len(d_buf)
    BY <1>7
  <2> QED
    BY <1>1, <1>2, <1>8, <2>1 DEF SBuffers
<1>10. (d = 0 => w = [dist |-> 0, length |-> lc]) /\ (d # 0 => w = [dist |-> d, length |-> lc + 3])
  BY <1>9, SymbolFacts
<1>11. CASE d = 0
  <2>1. Len(s) = 1 /\ s[1] = Coding("l", lc)
    BY <1>5, <1>6, <1>11, SentLiteral
  <2>2. IsLiteral(a, b, lc)
    BY <1>6, <2>1 DEF IsLiteral
  <2>3. b \in Nat /\ b + 1 <= Len(Whole)
    <3>1. PICK m : m = Len(Made(Len(d_buf)))
      OBVIOUS
    <3>2. m \in Nat /\ Len(Whole) = m + 1 /\ b <= m
      BY <1>6, <1>7, <3>1
    <3>3. b = a + 1 /\ b \in Nat
      BY <1>6, <2>1
    <3> QED
      BY <3>2, <3>3
  <2>4. Between(k, a, b, d, lc)
    BY <1>6, <1>8, <1>9, <1>10, <1>11, <2>2, <2>3 DEF Between
  <2> QED
    BY <1>1, <1>2, <1>3, <1>4, <2>4
<1>12. CASE d # 0
  <2>1. 0 < d
    BY <1>6, <1>12
  <2>2. PICK x : x = X(XL(lc))
    OBVIOUS
  <2>3. PICK y : y = X(XD(d))
    OBVIOUS
  <2>4. x \in {0, 1} /\ y \in {0, 1} /\ (XL(lc) # 0 => x = 1) /\ (XD(d) # 0 => y = 1)
    BY <2>2, <2>3 DEF X
  <2>5. /\ Len(s) = 2 + x + y
        /\ s[1] = Coding("l", LCode(lc) + 257)
        /\ s[2 + x] = Coding("d", DCode(d))
        /\ XL(lc) # 0 => s[2] = ExtraBits(lc - BL(lc), XL(lc))
        /\ XD(d) # 0 => s[3 + x] = ExtraBits(d - 1 - BD(d), XD(d))
    BY <1>5, <1>6, <2>1, <2>2, <2>3, SentMatch
  <2>6. /\ 1 \in 1 .. Len(s) /\ 2 + x \in 1 .. Len(s) /\ 2 \in 1 .. Len(s)
        /\ XD(d) # 0 => 3 + x \in 1 .. Len(s)
    BY <2>4, <2>5
  <2>7. /\ a + (2 + x) = a + 2 + x /\ a + (3 + x) = a + 3 + x /\ a + (2 + x + y) = a + 2 + x + y
    BY <1>6, <2>4
  <2>8. /\ b = a + 2 + x + y
        /\ Whole[a + 1] = Coding("l", LCode(lc) + 257)
        /\ Whole[a + 2 + x] = Coding("d", DCode(d))
        /\ XL(lc) # 0 => Whole[a + 2] = ExtraBits(lc - BL(lc), XL(lc))
        /\ XD(d) # 0 => Whole[a + 3 + x] = ExtraBits(d - 1 - BD(d), XD(d))
    <3>1. \A i \in 1 .. Len(s) : Whole[a + i] = s[i]
      BY <1>6
    <3>2. Whole[a + 1] = s[1] /\ Whole[a + 2] = s[2] /\ Whole[a + (2 + x)] = s[2 + x]
      BY <2>6, <3>1
    <3>3. XD(d) # 0 => Whole[a + (3 + x)] = s[3 + x]
      BY <2>6, <3>1
    <3>4. b = a + 2 + x + y
      BY <1>6, <2>5, <2>7
    <3> QED
      BY <2>5, <2>7, <3>2, <3>3, <3>4
  <2>9. IsMatch(a, b, d, lc)
    BY <2>2, <2>3, <2>8 DEF IsMatch
  <2>10. b \in Nat /\ b + 1 <= Len(Whole)
    <3>1. PICK m : m = Len(Made(Len(d_buf)))
      OBVIOUS
    <3>2. m \in Nat /\ Len(Whole) = m + 1 /\ b <= m
      BY <1>6, <1>7, <3>1
    <3>3. b \in Nat
      BY <1>6, <2>4, <2>8
    <3> QED
      BY <3>2, <3>3
  <2>11. Between(k, a, b, d, lc)
    BY <1>6, <1>8, <1>9, <1>10, <1>12, <2>9, <2>10 DEF Between
  <2> QED
    BY <1>1, <1>2, <1>3, <1>4, <2>11
<1> QED
  BY <1>11, <1>12

----------------------------------------------------------------------------
(***************************************************************************)
(* The encoder's steps.                                                    *)
(***************************************************************************)

LEMMA SymInit ==
  ASSUME S!Init, BlockAssumption
  PROVE  SymInv
<1>1. /\ d_buf = <<>> /\ l_buf = <<>> /\ wire = <<>> /\ pos = 0 /\ mode = "tally"
      /\ dyn_ltree = SetToBag({256}) /\ dyn_dtree = SetToBag({})
      /\ length = 0 /\ offset = 0 /\ extra = 0 /\ wanted = <<>> /\ text = <<>>
  BY SameBags DEF S!Init, S!END_BLOCK
<1>2. Len(d_buf) = 0 /\ Len(wanted) = 0 /\ Len(l_buf) = 0
  BY <1>1
<1>3. Pairs(d_buf, l_buf)
  BY <1>1, <1>2 DEF Pairs
<1>4. lit_bufsize \in Nat /\ 0 < lit_bufsize
  BY DEF BlockAssumption, S!BufferAssumption
<1>5. SBuffers
  BY <1>1, <1>2, <1>3, <1>4 DEF SBuffers
<1>6. Whole = <<End>>
  <2>1. S!Coded(d_buf, l_buf)[0] = <<>>
    BY <1>3, CodedIs DEF Joined, IsJoin
  <2>2. PICK e : e = <<End>>
    OBVIOUS
  <2>3. e \in Seq(Items)
    BY <2>2, EndIs
  <2>4. \A z \in Seq(Items) : <<>> \o z = z
    OBVIOUS
  <2> QED
    BY <1>2, <2>1, <2>2, <2>3, <2>4 DEF Whole, Made
<1>7. BagOf(<<End>>, "l") = SetToBag({256})
  <2>1. \A c \in Nat : Times(<<End>>, "l", c) > 0 <=> c = 256
    BY EndTimes
  <2>2. \A c \in Nat : c = 256 => Times(<<End>>, "l", c) = 1
    BY EndTimes
  <2>3. {c \in Nat : Times(<<End>>, "l", c) > 0} = {256}
    BY <2>1
  <2> QED
    BY <2>2, <2>3 DEF BagOf, SetToBag
<1>8. BagOf(<<End>>, "d") = SetToBag({})
  <2>1. {c \in Nat : Times(<<End>>, "d", c) > 0} = {}
    BY EndTimes
  <2> QED
    BY <2>1 DEF BagOf, SetToBag
<1>9. SCounts
  BY <1>1, <1>6, <1>7, <1>8 DEF SCounts
<1> QED
  BY <1>1, <1>5, <1>9 DEF SymInv

\* Another symbol's codes are counted as they will be sent.
LEMMA SymTally ==
  ASSUME SBuffers, SCounts, BlockAssumption, mode = "tally", S!Tally
  PROVE  SBuffers' /\ SCounts'
<1>1. PICK s \in S!Symbol : S!_tr_tally(s) /\ wanted' = Append(wanted, s)
  <2>1. PICK s \in (IF wanted = <<>> THEN FirstSymbols ELSE Further) :
          S!_tr_tally(s) /\ wanted' = Append(wanted, s)
    BY DEF S!Tally
  <2>2. s \in S!Symbol
    BY DEF BlockAssumption, S!SymbolsAssumption
  <2> QED
    BY <2>1, <2>2
<1>2. PICK d : d = s.dist
  OBVIOUS
<1>3. PICK lc : lc = Lc(s)
  OBVIOUS
<1>4. d \in Nat /\ d <= S!MAX_DISTANCE /\ lc \in Nat /\ lc < S!LITERALS
  BY <1>2, <1>3, SymbolFacts
<1>5. s.dist % 2 ^ 16 = d
      /\ (IF s.dist % 2 ^ 16 = 0 THEN s.length ELSE s.length - S!MIN_MATCH) % 2 ^ 8 = lc
  BY <1>2, <1>3, Stored
<1>6. PICK m : m = Len(d_buf)
  OBVIOUS
<1>7. m \in Nat /\ m # lit_bufsize - 1 /\ m < lit_bufsize /\ lit_bufsize \in Nat
  BY <1>6, MadeIs DEF S!Tally, S!Full, S!last_lit, SBuffers, BlockAssumption, S!BufferAssumption
<1>8. /\ d_buf' = Append(d_buf, d) /\ l_buf' = Append(l_buf, lc)
      /\ IF d = 0
           THEN dyn_ltree' = S!(+)(dyn_ltree, S!SetToBag({lc})) /\ dyn_dtree' = dyn_dtree
           ELSE /\ dyn_ltree' = S!(+)(dyn_ltree, S!SetToBag({S!_length_code[lc] + S!LITERALS + 1}))
                /\ dyn_dtree' = S!(+)(dyn_dtree, S!SetToBag({S!Tallied(d)}))
  BY <1>1, <1>5 DEF S!_tr_tally
<1>9. Pairs(d_buf, l_buf)
  BY DEF SBuffers
<1>10. /\ Pairs(d_buf', l_buf') /\ Len(d_buf') = m + 1
       /\ S!Coded(d_buf', l_buf')[m + 1] = S!Coded(d_buf, l_buf)[m] \o S!Sent(d, lc)
  BY <1>4, <1>6, <1>8, <1>9, CodedAppend
<1>11. SBuffers'
  <2>1. wanted \in Seq(S!Symbol) /\ Len(wanted) = m /\ Len(l_buf) = m
        /\ d_buf \in Seq(Nat) /\ l_buf \in Seq(Nat)
    BY <1>6 DEF SBuffers, Pairs
  <2>2. /\ wanted' \in Seq(S!Symbol) /\ Len(wanted') = m + 1 /\ wanted'[m + 1] = s
        /\ \A i \in 1 .. m : wanted'[i] = wanted[i]
    BY <1>1, <2>1
  <2>3. /\ d_buf'[m + 1] = d /\ l_buf'[m + 1] = lc
        /\ \A i \in 1 .. m : d_buf'[i] = d_buf[i] /\ l_buf'[i] = l_buf[i]
    BY <1>6, <1>8, <2>1
  <2>4. \A i \in 1 .. m : d_buf[i] = wanted[i].dist /\ l_buf[i] = Lc(wanted[i])
    BY <1>6 DEF SBuffers
  <2>5. ASSUME NEW i \in 1 .. m + 1
        PROVE  d_buf'[i] = wanted'[i].dist /\ l_buf'[i] = Lc(wanted'[i])
    <3>1. CASE i = m + 1
      BY <1>2, <1>3, <2>2, <2>3, <3>1
    <3>2. CASE i # m + 1
      <4>1. i \in 1 .. m
        BY <1>7, <3>2
      <4> QED
        BY <2>2, <2>3, <2>4, <4>1
    <3> QED
      BY <3>1, <3>2
  <2>6. m + 1 < lit_bufsize
    BY <1>7
  <2> QED
    BY <1>10, <2>2, <2>5, <2>6 DEF SBuffers, Lc
<1>12. PICK v : v = Made(m)
  OBVIOUS
<1>13. PICK w : w = S!Sent(d, lc)
  OBVIOUS
<1>14. v \in Seq(Items) /\ w \in Seq(Items) /\ <<End>> \in Seq(Items)
  <2>1. v \in Seq(Items)
    BY <1>6, <1>7, <1>12, MadeIs
  <2>2. w \in Seq(Items)
    BY <1>4, <1>13, SentLiteral, SentMatch, d = 0 \/ 0 < d
  <2> QED
    BY <2>1, <2>2, EndIs
<1>15. Whole = v \o <<End>> /\ Whole' = (v \o w) \o <<End>>
  BY <1>6, <1>10, <1>12, <1>13 DEF Whole, Made, End, Coding
<1>16. PICK e : e = <<End>>
  OBVIOUS
<1>17. e \in Seq(Items) /\ Whole = v \o e /\ Whole' = (v \o w) \o e
  BY <1>14, <1>15, <1>16
<1>18. \A c \in Nat : /\ Times(w, "l", c) = IF c = (IF d = 0 THEN lc ELSE LCode(lc) + 257) THEN 1 ELSE 0
                      /\ Times(w, "d", c) = IF d # 0 /\ c = DCode(d) THEN 1 ELSE 0
  BY <1>4, <1>13, CodesOf DEF Times
<1>19. dyn_ltree = BagOf(v \o e, "l") /\ dyn_dtree = BagOf(v \o e, "d")
  BY <1>17 DEF SCounts
<1>20. dyn_ltree' = BagOf((v \o w) \o e, "l") /\ dyn_dtree' = BagOf((v \o w) \o e, "d")
  <2>1. CASE d = 0
    <3>1. \A c \in Nat : Times(w, "l", c) = IF c = lc THEN 1 ELSE 0
      BY <1>18, <2>1
    <3>2. \A c \in Nat : Times(w, "d", c) = 0
      BY <1>18, <2>1
    <3>3. BagOf((v \o w) \o e, "l") = BagOf(v \o e, "l") (+) SetToBag({lc})
      <4>1. HasOne(w, "l", lc)
        BY <1>4, <3>1 DEF HasOne
      <4> QED
        BY <1>14, <1>17, <4>1, BagAdd
    <3>4. BagOf((v \o w) \o e, "d") = BagOf(v \o e, "d")
      BY <1>14, <1>17, <3>2, BagKept
    <3>5. dyn_ltree' = dyn_ltree (+) SetToBag({lc}) /\ dyn_dtree' = dyn_dtree
      BY <1>8, <2>1, SameBags
    <3> QED
      BY <1>19, <3>3, <3>4, <3>5
  <2>2. CASE d # 0
    <3>0. 0 < d
      BY <1>4, <2>2
    <3>1. PICK x : x = LCode(lc) + 257
      OBVIOUS
    <3>2. PICK y : y = DCode(d)
      OBVIOUS
    <3>3. x \in Nat /\ y \in Nat /\ x = S!_length_code[lc] + S!LITERALS + 1 /\ y = S!Tallied(d)
      <4>1. LCode(lc) \in Nat /\ DCode(d) \in Nat
        <5>1. LCode(lc) \in 0 .. 28
          BY <1>4, LengthFacts
        <5>2. DCode(d) \in 0 .. 29
          BY <1>4, <3>0, DistFacts
        <5> QED
          BY <5>1, <5>2
      <4> QED
        BY <3>1, <3>2, <4>1 DEF LCode, DCode, S!LITERALS, S!Tallied
    <3>4. \A c \in Nat : Times(w, "l", c) = IF c = x THEN 1 ELSE 0
      BY <1>18, <2>2, <3>1
    <3>5. \A c \in Nat : Times(w, "d", c) = IF c = y THEN 1 ELSE 0
      BY <1>18, <2>2, <3>2
    <3>6. BagOf((v \o w) \o e, "l") = BagOf(v \o e, "l") (+) SetToBag({x})
      <4>1. HasOne(w, "l", x)
        BY <3>3, <3>4 DEF HasOne
      <4> QED
        BY <1>14, <1>17, <4>1, BagAdd
    <3>7. BagOf((v \o w) \o e, "d") = BagOf(v \o e, "d") (+) SetToBag({y})
      <4>1. HasOne(w, "d", y)
        BY <3>3, <3>5 DEF HasOne
      <4> QED
        BY <1>14, <1>17, <4>1, BagAdd
    <3>8. dyn_ltree' = dyn_ltree (+) SetToBag({x}) /\ dyn_dtree' = dyn_dtree (+) SetToBag({y})
      BY <1>8, <2>2, <3>3, SameBags
    <3> QED
      BY <1>19, <3>6, <3>7, <3>8
  <2> QED
    BY <2>1, <2>2
<1>21. SCounts'
  <2>1. BagOf(Whole', "l") = BagOf((v \o w) \o e, "l") /\ BagOf(Whole', "d") = BagOf((v \o w) \o e, "d")
    BY <1>17
  <2> QED
    BY <1>20, <2>1 DEF SCounts, BagOf, Times, Hits, OfTree, Items
<1> QED
  BY <1>11, <1>21

LEMMA SymCompress ==
  ASSUME SBuffers, SCounts, mode = "tally", text = <<>>, pos = 0,
         length = 0, offset = 0, extra = 0, S!compress_block
  PROVE  SymInv'
<1>1. /\ d_buf' = d_buf /\ l_buf' = l_buf /\ dyn_ltree' = dyn_ltree /\ dyn_dtree' = dyn_dtree
      /\ pos' = 0 /\ wanted' = wanted /\ length' = 0 /\ offset' = 0 /\ extra' = 0
      /\ text' = <<>> /\ mode' = "LEN"
      /\ wire' = S!Coded(d_buf, l_buf)[Len(d_buf)] \o S!Code("l", S!END_BLOCK)
  BY DEF S!compress_block, S!decoder, S!last_lit
<1>2. S!Code("l", S!END_BLOCK) = <<End>>
  BY DEF S!Code, End, Coding
<1>3. SBuffers' /\ SCounts' /\ Whole' = Whole
  BY <1>1 DEF SBuffers, SCounts, Whole, Made
<1>4. wire' = Whole
  BY <1>1, <1>2 DEF Whole, Made
<1>5. Len(text') = 0 /\ text' \in Seq(S!Symbol)
  BY <1>1
<1>6. Len(d_buf) \in Nat
  BY MadeIs
<1>7. SDecoded'
  BY <1>1, <1>5, <1>6 DEF SDecoded, S!MAX_MATCH, S!MAX_DISTANCE
<1>8. Len(Made(0)) = 0
  <2>1. S!Coded(d_buf, l_buf)[0] = <<>>
    BY CodedIs DEF SBuffers, Joined, IsJoin
  <2> QED
    BY <2>1 DEF Made
<1>9. Made(0)' = Made(0)
  BY <1>1 DEF Made
<1>10. SPlace'
  <2>1. Len(Made(Len(text)))' = 0
    BY <1>1, <1>5, <1>8, <1>9 DEF Made
  <2> QED
    BY <1>1, <2>1 DEF SPlace, Place
<1> QED
  BY <1>3, <1>4, <1>7, <1>10 DEF SymInv

----------------------------------------------------------------------------
(***************************************************************************)
(* The decoder's steps.                                                    *)
(***************************************************************************)

\* The decoder is where it may read, and knows where it is.
Decoding(k, a, b, d, lc) ==
  /\ k = Len(text) /\ k \in Nat /\ k <= Len(d_buf) /\ a = Len(Made(k)) /\ a \in Nat
  /\ d = d_buf[k + 1] /\ lc = l_buf[k + 1]
  /\ k < Len(d_buf) => b = Len(Made(k + 1)) /\ Between(k, a, b, d, lc)
  /\ k = Len(d_buf) => a + 1 = Len(Whole) /\ Whole[a + 1] = End
  /\ Place(k, a, d, lc)

LEMMA DecodingIs ==
  ASSUME SBuffers, SDecoded, SPlace
  PROVE  \E k, a, b, d, lc : Decoding(k, a, b, d, lc)
<1>1. PICK k : k = Len(text)
  OBVIOUS
<1>2. k \in Nat /\ k <= Len(d_buf) /\ Len(d_buf) \in Nat
  BY <1>1, MadeIs DEF SDecoded
<1>3. k \in 0 .. Len(d_buf)
  BY <1>2
<1>4. PICK a : a = Len(Made(k))
  OBVIOUS
<1>5. a \in Nat
  BY <1>3, <1>4, MadeIs
<1>6. PICK b : b = Len(Made(k + 1))
  OBVIOUS
<1>7. PICK d : d = d_buf[k + 1]
  OBVIOUS
<1>8. PICK lc : lc = l_buf[k + 1]
  OBVIOUS
<1>9. k < Len(d_buf) => Between(k, a, b, d, lc)
  BY <1>2, <1>4, <1>6, <1>7, <1>8, Inside
<1>10. k = Len(d_buf) => a + 1 = Len(Whole) /\ Whole[a + 1] = End
  BY <1>4, MadeIs
<1>11. Place(k, a, d, lc)
  BY <1>1, <1>4, <1>7, <1>8 DEF SPlace
<1> QED
  BY <1>1, <1>2, <1>4, <1>5, <1>6, <1>7, <1>8, <1>9, <1>10, <1>11 DEF Decoding

\* The other side stays as it is.
Quiet ==
  /\ d_buf' = d_buf /\ l_buf' = l_buf /\ dyn_ltree' = dyn_ltree /\ dyn_dtree' = dyn_dtree
  /\ wire' = wire /\ wanted' = wanted

LEMMA QuietKeeps ==
  ASSUME SBuffers, SCounts, wire = Whole, Quiet
  PROVE  SBuffers' /\ SCounts' /\ wire' = Whole' /\ Whole' = Whole /\ \A k : Made(k)' = Made(k)
BY DEF Quiet, SBuffers, SCounts, Whole, Made

\* A step within a piece
LEMMA StaysIn ==
  ASSUME SBuffers, SCounts, wire = Whole, SDecoded, Quiet, text' = text,
         length' \in Nat, length' <= S!MAX_MATCH, offset' \in Nat, offset' <= S!MAX_DISTANCE,
         extra' \in 0 .. 13,
         NEW k, NEW a, NEW b, NEW d, NEW lc, Decoding(k, a, b, d, lc), Place(k, a, d, lc)'
  PROVE  SymInv'
<1>1. SBuffers' /\ SCounts' /\ wire' = Whole' /\ Made(k)' = Made(k) /\ d_buf' = d_buf /\ l_buf' = l_buf
  BY QuietKeeps DEF Quiet
<1>2. SDecoded'
  BY DEF SDecoded, Quiet
<1>3. Len(text') = k /\ a = Len(Made(k)) /\ d = d_buf[k + 1] /\ lc = l_buf[k + 1]
  BY DEF Decoding
<1>4. SPlace'
  <2>1. Len(Made(Len(text)))' = a
    BY <1>1, <1>3 DEF Made
  <2>2. Place(Len(text), Len(Made(Len(text))), d_buf[Len(text) + 1], l_buf[Len(text) + 1])'
    BY <1>1, <1>3, <2>1 DEF Place
  <2> QED
    BY <2>2 DEF SPlace
<1> QED
  BY <1>1, <1>2, <1>4 DEF SymInv

\* A step to the end of a piece, that gives its symbol
LEMMA Gives ==
  ASSUME SBuffers, SCounts, wire = Whole, SDecoded, Quiet,
         length' \in Nat, length' <= S!MAX_MATCH, offset' \in Nat, offset' <= S!MAX_DISTANCE,
         extra' \in 0 .. 13,
         NEW k, NEW a, NEW b, NEW d, NEW lc, Decoding(k, a, b, d, lc), k < Len(d_buf),
         NEW s, text' = Append(text, s), s = wanted[k + 1], mode' = "LEN", pos' = b
  PROVE  SymInv'
<1>1. SBuffers' /\ SCounts' /\ wire' = Whole' /\ Made(k + 1)' = Made(k + 1)
      /\ d_buf' = d_buf /\ l_buf' = l_buf /\ wanted' = wanted
  BY QuietKeeps DEF Quiet
<1>2. k \in Nat /\ k = Len(text) /\ b = Len(Made(k + 1)) /\ s \in S!Symbol
  BY DEF Decoding, Between
<1>3. text \in Seq(S!Symbol) /\ \A i \in 1 .. k : text[i] = wanted[i]
  BY <1>2 DEF SDecoded
<1>4. /\ text' \in Seq(S!Symbol) /\ Len(text') = k + 1 /\ text'[k + 1] = s
      /\ \A i \in 1 .. k : text'[i] = text[i]
  BY <1>2, <1>3
<1>5. \A i \in 1 .. k + 1 : text'[i] = wanted[i]
  <2> TAKE i \in 1 .. k + 1
  <2>1. CASE i = k + 1
    BY <1>4, <2>1
  <2>2. CASE i # k + 1
    <3>1. i \in 1 .. k
      BY <1>2, <2>2
    <3> QED
      BY <1>3, <1>4, <3>1
  <2> QED
    BY <2>1, <2>2
<1>6. k + 1 <= Len(d_buf)
  BY <1>2, MadeIs
<1>7. SDecoded'
  BY <1>1, <1>4, <1>5, <1>6 DEF SDecoded
<1>8. SPlace'
  <2>1. Len(Made(Len(text)))' = b
    BY <1>1, <1>2, <1>4 DEF Made
  <2> QED
    BY <2>1 DEF SPlace, Place
<1> QED
  BY <1>1, <1>7, <1>8 DEF SymInv

\* What a step of the decoder needs to know
LEMMA QuietIs ==
  ASSUME S!LEN \/ S!LENEXT \/ S!DIST \/ S!DISTEXT
  PROVE  Quiet
BY DEF Quiet, S!LEN, S!LENEXT, S!DIST, S!DISTEXT, S!Drop, S!DropExtra

LEMMA SymLEN ==
  ASSUME SBuffers, SCounts, wire = Whole, SDecoded,
         NEW k, NEW a, NEW b, NEW d, NEW lc, Decoding(k, a, b, d, lc), S!LEN
  PROVE  SymInv'
<1>1. mode = "LEN" /\ pos = a /\ a \in Nat
  BY DEF S!LEN, Decoding, Place
<1>2. PICK here : here = S!LenEntry(Whole[a + 1].val)
  OBVIOUS
<1>3. /\ pos' = a + 1 /\ length' = here.val /\ offset' = offset
      /\ here.op = 0 => /\ mode' = "LEN" /\ extra' = extra
                        /\ text' = Append(text, [dist |-> 0, length |-> here.val])
      /\ here.op # 0 /\ S!Flag(here.op, 32) => mode' = "TYPE" /\ extra' = extra /\ text' = text
      /\ here.op # 0 /\ ~S!Flag(here.op, 32) /\ ~S!Flag(here.op, 64) =>
           mode' = "LENEXT" /\ extra' = here.op % 16 /\ text' = text
  <2>1. ~S!Flag(0, 32)
    BY DEF S!Flag
  <2>2. PICK f : f = S!Flag(here.op, 32)
    OBVIOUS
  <2>3. PICK g : g = S!Flag(here.op, 64)
    OBVIOUS
  <2>4. here.op = 0 => ~f
    BY <2>1, <2>2
  <2>5. /\ pos' = a + 1 /\ length' = here.val /\ offset' = offset
        /\ CASE here.op = 0 ->
                  /\ mode' = "LEN"
                  /\ text' = Append(text, [dist |-> 0, length |-> here.val])
                  /\ extra' = extra
             [] f -> mode' = "TYPE" /\ extra' = extra /\ text' = text
             [] here.op # 0 /\ ~f /\ g -> mode' = "BAD" /\ extra' = extra /\ text' = text
             [] OTHER -> extra' = here.op % 16 /\ mode' = "LENEXT" /\ text' = text
    BY <1>1, <1>2, <2>2, <2>3 DEF S!LEN, S!Drop, S!Arriving
  <2> QED
    BY <2>2, <2>3, <2>4, <2>5
<1>4. Quiet
  BY QuietIs
<1>5. offset' \in Nat /\ offset' <= S!MAX_DISTANCE /\ extra \in 0 .. 13
  BY <1>3 DEF SDecoded
<1>6. S!MAX_MATCH = 258 /\ S!LITERALS = 256 /\ S!END_BLOCK = 256
  BY DEF S!MAX_MATCH, S!LITERALS, S!END_BLOCK
<1>7. ASSUME k < Len(d_buf), d = 0
      PROVE  SymInv'
  <2>1. /\ lc \in Nat /\ lc < S!LITERALS /\ b = a + 1 /\ Whole[a + 1].val = lc
        /\ wanted[k + 1] = [dist |-> 0, length |-> lc]
    BY <1>7 DEF Decoding, Between, IsLiteral, Coding
  <2>2. here = [op |-> 0, val |-> lc]
    BY <1>2, <2>1, LiteralEntry
  <2>3. here.op = 0 /\ here.val = lc
    BY <2>2
  <2>4. PICK s : s = [dist |-> 0, length |-> lc]
    OBVIOUS
  <2>5. /\ mode' = "LEN" /\ text' = Append(text, s) /\ s = wanted[k + 1] /\ pos' = b
        /\ extra' \in 0 .. 13
    BY <1>3, <1>5, <2>1, <2>3, <2>4
  <2>6. length' \in Nat /\ length' <= S!MAX_MATCH
    BY <1>3, <1>6, <2>1, <2>3
  <2> QED
    BY <1>4, <1>5, <1>7, <2>5, <2>6, Gives
<1>8. ASSUME k < Len(d_buf), d # 0
      PROVE  SymInv'
  <2>1. /\ lc \in Nat /\ lc < S!LITERALS /\ Whole[a + 1].val = LCode(lc) + 257
    BY <1>8 DEF Decoding, Between, IsMatch, Coding
  <2>2. PICK c : c = LCode(lc)
    OBVIOUS
  <2>3. PICK x : x = XL(lc)
    OBVIOUS
  <2>4. PICK y : y = S!At(S!lbase, LCode(lc))
    OBVIOUS
  <2>5. PICK z : z = BL(lc)
    OBVIOUS
  <2>6. /\ c \in 0 .. 28 /\ x \in 0 .. 5 /\ S!At(S!lext, c) = 16 + x /\ y \in Nat /\ z \in Nat
        /\ x = 0 => y = lc + 3
        /\ x # 0 => z <= lc /\ y + (lc - z) = lc + 3
    BY <2>1, <2>2, <2>3, <2>4, <2>5, LengthFacts
  <2>7. here.op = 16 + x /\ here.val = y
    <3>1. S!LenEntry(c + 257).op = S!At(S!lext, c) /\ S!LenEntry(c + 257).val = S!At(S!lbase, c)
      BY <2>6, LengthEntry
    <3>2. here = S!LenEntry(c + 257)
      BY <1>2, <2>1, <2>2
    <3> QED
      BY <2>2, <2>4, <2>6, <3>1, <3>2
  <2>8. x \in 0 .. 13
    BY <2>6
  <2>9. ~S!Flag(16 + x, 32) /\ ~S!Flag(16 + x, 64) /\ 16 + x # 0 /\ (16 + x) % 16 = x
    BY <2>8, Flags
  <2>10. mode' = "LENEXT" /\ extra' = x /\ text' = text /\ length' = y
    BY <1>3, <2>7, <2>9
  <2>11. length' \in Nat /\ length' <= S!MAX_MATCH
    <3>1. y <= lc + 3 /\ lc < 256
      BY <1>6, <2>1, <2>6
    <3> QED
      BY <1>6, <2>1, <2>6, <2>10, <3>1
  <2>12. d_buf' = d_buf
    BY <1>4 DEF Quiet
  <2>13. Place(k, a, d, lc)'
    BY <1>3, <1>8, <2>3, <2>4, <2>10, <2>12 DEF Place
  <2>14. extra' \in 0 .. 13 /\ text' = text
    BY <2>8, <2>10
  <2> QED
    BY <1>4, <1>5, <2>11, <2>13, <2>14, StaysIn
<1>9. ASSUME k = Len(d_buf)
      PROVE  SymInv'
  <2>1. Whole[a + 1].val = 256
    BY <1>6, <1>9 DEF Decoding, End, Coding
  <2>2. here.op # 0 /\ S!Flag(here.op, 32) /\ here.val = 0
    <3>1. here = S!LenEntry(256)
      BY <1>2, <2>1
    <3>2. S!LenEntry(256).val = 0
      BY DEF S!LenEntry, S!Entry
    <3> QED
      BY <3>1, <3>2, EndEntry
  <2>3. mode' = "TYPE" /\ extra' = extra /\ text' = text /\ length' = 0
    BY <1>3, <2>2
  <2>4. d_buf' = d_buf
    BY <1>4 DEF Quiet
  <2>5. Place(k, a, d, lc)'
    BY <1>3, <1>9, <2>3, <2>4 DEF Place
  <2>6. length' \in Nat /\ length' <= S!MAX_MATCH /\ extra' \in 0 .. 13
    BY <1>5, <1>6, <2>3
  <2> QED
    BY <1>4, <1>5, <2>3, <2>5, <2>6, StaysIn
<1>10. k \in Nat /\ k <= Len(d_buf) /\ Len(d_buf) \in Nat
  BY MadeIs DEF Decoding
<1>11. k < Len(d_buf) \/ k = Len(d_buf)
  BY <1>10
<1> QED
  BY <1>7, <1>8, <1>9, <1>11

LEMMA SymLENEXT ==
  ASSUME SBuffers, SCounts, wire = Whole, SDecoded,
         NEW k, NEW a, NEW b, NEW d, NEW lc, Decoding(k, a, b, d, lc), S!LENEXT
  PROVE  SymInv'
<1>1. /\ mode = "LENEXT" /\ k < Len(d_buf) /\ d # 0 /\ pos = a + 1 /\ a \in Nat
      /\ length = S!At(S!lbase, LCode(lc)) /\ extra = XL(lc)
  BY DEF S!LENEXT, Decoding, Place
<1>2. Between(k, a, b, d, lc)
  BY <1>1 DEF Decoding
<1>3. PICK x : x = XL(lc)
  OBVIOUS
<1>4. PICK v : v = lc - BL(lc)
  OBVIOUS
<1>5. /\ lc \in Nat /\ lc < S!LITERALS
      /\ x # 0 => Whole[a + 2] = ExtraBits(v, x)
  BY <1>1, <1>2, <1>3, <1>4 DEF Between, IsMatch
<1>6. /\ x \in 0 .. 5 /\ x = 0 => length = lc + 3
      /\ x # 0 => length + v = lc + 3
  BY <1>1, <1>3, <1>4, <1>5, LengthFacts
<1>7. PICK i : i = (a + 1) + 1
  OBVIOUS
<1>8. i = a + 2
  BY <1>1, <1>7
<1>9. S!Bits = IF x = 0 THEN 0 ELSE Whole[i].val
  BY <1>1, <1>3, <1>7 DEF S!Bits, S!Arriving
<1>10. /\ pos' = (IF x = 0 THEN a + 1 ELSE i) /\ length' = length + S!Bits /\ mode' = "DIST"
       /\ offset' = offset /\ extra' = extra /\ text' = text
  BY <1>1, <1>3, <1>7 DEF S!LENEXT, S!DropExtra
<1>11. x # 0 => Whole[i].val = v
  BY <1>5, <1>8 DEF ExtraBits
<1>12. length \in Nat /\ offset \in Nat /\ offset <= S!MAX_DISTANCE /\ extra \in 0 .. 13
  BY DEF SDecoded
<1>13. length' = lc + 3
  BY <1>6, <1>9, <1>10, <1>11, <1>12
<1>14. pos' = a + 1 + X(XL(lc))
  BY <1>1, <1>3, <1>8, <1>10 DEF X
<1>15. Quiet
  BY QuietIs
<1>16. d_buf' = d_buf
  BY <1>15 DEF Quiet
<1>17. Place(k, a, d, lc)'
  BY <1>1, <1>10, <1>13, <1>14, <1>16 DEF Place
<1>18. length' \in Nat /\ length' <= S!MAX_MATCH
  BY <1>5, <1>13 DEF S!MAX_MATCH, S!LITERALS
<1>19. offset' \in Nat /\ offset' <= S!MAX_DISTANCE /\ extra' \in 0 .. 13 /\ text' = text
  BY <1>10, <1>12
<1> QED
  BY <1>15, <1>17, <1>18, <1>19, StaysIn

LEMMA SymDIST ==
  ASSUME SBuffers, SCounts, wire = Whole, SDecoded,
         NEW k, NEW a, NEW b, NEW d, NEW lc, Decoding(k, a, b, d, lc), S!DIST
  PROVE  SymInv'
<1>1. /\ mode = "DIST" /\ k < Len(d_buf) /\ d # 0 /\ pos = a + 1 + X(XL(lc)) /\ a \in Nat
      /\ length = lc + 3
  BY DEF S!DIST, Decoding, Place
<1>2. Between(k, a, b, d, lc)
  BY <1>1 DEF Decoding
<1>3. PICK c : c = DCode(d)
  OBVIOUS
<1>4. PICK i : i = X(XL(lc))
  OBVIOUS
<1>5. d \in Nat /\ d <= S!MAX_DISTANCE /\ 0 < d /\ Whole[a + 2 + i] = Coding("d", c)
  BY <1>1, <1>2, <1>3, <1>4 DEF Between, IsMatch
<1>6. i \in {0, 1} /\ (a + 1 + i) + 1 = a + 2 + i
  BY <1>1, <1>4, XIs
<1>7. PICK x : x = XD(d)
  OBVIOUS
<1>8. PICK z : z = BD(d)
  OBVIOUS
<1>9. /\ c \in 0 .. 29 /\ x \in 0 .. 13 /\ z \in Nat
      /\ S!At(S!dext, c) = 16 + x /\ S!At(S!dbase, c) = z + 1 /\ z <= d - 1
  BY <1>3, <1>5, <1>7, <1>8, DistFacts
<1>10. PICK here : here = S!DistEntry(Whole[pos + 1].val)
  OBVIOUS
<1>11. here.op = 16 + x /\ here.val = z + 1
  <2>1. Whole[pos + 1] = Coding("d", c)
    BY <1>1, <1>4, <1>5, <1>6
  <2>2. here = S!DistEntry(c)
    BY <1>10, <2>1 DEF Coding
  <2> QED
    BY <1>9, <2>2, DistanceEntry
<1>12. ~S!Flag(16 + x, 64) /\ (16 + x) % 16 = x
  BY <1>9, Flags
<1>13. /\ pos' = pos + 1 /\ offset' = z + 1 /\ extra' = x /\ mode' = "DISTEXT"
       /\ length' = length /\ text' = text
  BY <1>10, <1>11, <1>12 DEF S!DIST, S!Drop, S!Arriving
<1>14. Quiet
  BY QuietIs
<1>15. d_buf' = d_buf
  BY <1>14 DEF Quiet
<1>16. pos' = a + 2 + i
  BY <1>1, <1>4, <1>6, <1>13
<1>17. offset' = S!At(S!dbase, DCode(d))
  BY <1>3, <1>9, <1>13
<1>18. Place(k, a, d, lc)'
  BY <1>1, <1>4, <1>7, <1>13, <1>15, <1>16, <1>17 DEF Place
<1>19. length' \in Nat /\ length' <= S!MAX_MATCH
  BY <1>13 DEF SDecoded
<1>20. PICK m : m = S!MAX_DISTANCE
  OBVIOUS
<1>21. offset' \in Nat /\ offset' <= m
  <2>1. m \in Nat /\ d <= m
    BY <1>5, <1>20 DEF S!MAX_DISTANCE
  <2> QED
    BY <1>5, <1>9, <1>13, <2>1
<1>22. offset' \in Nat /\ offset' <= S!MAX_DISTANCE /\ extra' \in 0 .. 13 /\ text' = text
  BY <1>9, <1>13, <1>20, <1>21
<1> QED
  BY <1>14, <1>18, <1>19, <1>22, StaysIn

LEMMA SymDISTEXT ==
  ASSUME SBuffers, SCounts, wire = Whole, SDecoded,
         NEW k, NEW a, NEW b, NEW d, NEW lc, Decoding(k, a, b, d, lc), S!DISTEXT
  PROVE  SymInv'
<1>1. /\ mode = "DISTEXT" /\ k < Len(d_buf) /\ d # 0 /\ pos = a + 2 + X(XL(lc)) /\ a \in Nat
      /\ length = lc + 3 /\ offset = S!At(S!dbase, DCode(d)) /\ extra = XD(d)
  BY DEF S!DISTEXT, Decoding, Place
<1>2. Between(k, a, b, d, lc)
  BY <1>1 DEF Decoding
<1>3. PICK i : i = X(XL(lc))
  OBVIOUS
<1>4. PICK x : x = XD(d)
  OBVIOUS
<1>5. PICK z : z = BD(d)
  OBVIOUS
<1>6. PICK v : v = d - 1 - z
  OBVIOUS
<1>7. /\ d \in Nat /\ d <= S!MAX_DISTANCE /\ 0 < d
      /\ x # 0 => Whole[a + 3 + i] = ExtraBits(v, x)
      /\ b = a + 2 + i + X(x)
      /\ wanted[k + 1] = [dist |-> d, length |-> lc + 3]
  BY <1>1, <1>2, <1>3, <1>4, <1>5, <1>6 DEF Between, IsMatch
<1>8. i \in {0, 1} /\ (a + 2 + i) + 1 = a + 3 + i
  BY <1>1, <1>3, XIs
<1>9. z \in Nat /\ offset = z + 1 /\ (x = 0 => z + 1 = d)
  BY <1>1, <1>4, <1>5, <1>7, DistFacts
<1>10. S!Bits = IF x = 0 THEN 0 ELSE Whole[pos + 1].val
  BY <1>1, <1>4 DEF S!Bits, S!Arriving
<1>11. x # 0 => Whole[pos + 1].val = v
  BY <1>1, <1>3, <1>7, <1>8 DEF ExtraBits
<1>12. /\ pos' = (IF x = 0 THEN pos ELSE pos + 1) /\ offset' = offset + S!Bits
       /\ text' = Append(text, [dist |-> offset', length |-> length])
       /\ mode' = "LEN" /\ length' = length /\ extra' = extra
  BY <1>1, <1>4 DEF S!DISTEXT, S!DropExtra
<1>13. offset' = d
  BY <1>6, <1>7, <1>9, <1>10, <1>11, <1>12
<1>14. pos' = b
  BY <1>1, <1>3, <1>7, <1>8, <1>12 DEF X
<1>15. PICK s : s = wanted[k + 1]
  OBVIOUS
<1>16. text' = Append(text, s) /\ s = wanted[k + 1]
  BY <1>1, <1>7, <1>12, <1>13, <1>15
<1>17. length' \in Nat /\ length' <= S!MAX_MATCH /\ extra' \in 0 .. 13
  BY <1>12 DEF SDecoded
<1>18. offset' \in Nat /\ offset' <= S!MAX_DISTANCE
  BY <1>7, <1>13
<1>19. Quiet
  BY QuietIs
<1> QED
  BY <1>1, <1>12, <1>14, <1>16, <1>17, <1>18, <1>19, Gives

----------------------------------------------------------------------------
(***************************************************************************)
(* What the invariant says of the properties.                              *)
(***************************************************************************)

LEMMA Prefix ==
  ASSUME NEW I, NEW u \in Seq(I), NEW v \in Seq(I), Len(u) <= Len(v),
         \A i \in 1 .. Len(u) : u[i] = v[i]
  PROVE  S!IsPrefix(u, v) /\ (Len(u) = Len(v) => u = v)
<1>1. Len(u) \in Nat /\ Len(v) \in Nat
  OBVIOUS
<1>2. SubSeq(u, 1, Len(u)) = SubSeq(v, 1, Len(u))
  BY <1>1
<1>3. Len(u) = Len(v) => u = v
  OBVIOUS
<1> QED
  BY <1>2, <1>3 DEF S!IsPrefix

LEMMA SeqInto ==
  ASSUME NEW J, NEW u \in Seq(J), NEW I, \A i \in 1 .. Len(u) : u[i] \in I
  PROVE  u \in Seq(I)
<1>1. Len(u) \in Nat /\ u = [i \in 1 .. Len(u) |-> u[i]]
  OBVIOUS
<1>2. [i \in 1 .. Len(u) |-> u[i]] \in [1 .. Len(u) -> I]
  OBVIOUS
<1> QED
  BY <1>1, <1>2

LEMMA SymPos ==
  ASSUME SBuffers, SDecoded, SPlace, wire = Whole
  PROVE  /\ pos \in 0 .. Len(wire)
         /\ mode \in {"LEN", "LENEXT", "DIST", "DISTEXT", "TYPE"}
         /\ mode = "TYPE" => Len(text) = Len(d_buf)
<1>1. PICK k, a, b, d, lc : Decoding(k, a, b, d, lc)
  BY DecodingIs
<1>2. PICK n : n = Len(Whole)
  OBVIOUS
<1>3. PICK x : x = X(XL(lc))
  OBVIOUS
<1>4. PICK y : y = X(XD(d))
  OBVIOUS
<1>5. x \in {0, 1} /\ y \in {0, 1} /\ a \in Nat
  BY <1>1, <1>3, <1>4, XIs DEF Decoding
<1>6. n \in Nat
  BY <1>2, MadeIs
<1>7. k < Len(d_buf) => b + 1 <= n /\ b \in Nat /\ (d = 0 => b = a + 1) /\ (d # 0 => b = a + 2 + x + y)
  BY <1>1, <1>2, <1>3, <1>4 DEF Decoding, Between, IsLiteral, IsMatch
<1>8. k = Len(d_buf) => a + 1 = n
  BY <1>1, <1>2 DEF Decoding
<1>9. /\ k \in Nat /\ k <= Len(d_buf) /\ Len(d_buf) \in Nat /\ k = Len(text)
  BY <1>1, MadeIs DEF Decoding
<1>10. \/ mode = "LEN" /\ pos = a
       \/ mode = "LENEXT" /\ k < Len(d_buf) /\ d # 0 /\ pos = a + 1
       \/ mode = "DIST" /\ k < Len(d_buf) /\ d # 0 /\ pos = a + 1 + x
       \/ mode = "DISTEXT" /\ k < Len(d_buf) /\ d # 0 /\ pos = a + 2 + x
       \/ mode = "TYPE" /\ k = Len(d_buf) /\ pos = a + 1
  BY <1>1, <1>3 DEF Decoding, Place
<1>11. pos \in 0 .. n
  <2>1. CASE k < Len(d_buf)
    <3>1. a + 1 <= n /\ (d # 0 => a + 2 + x + y <= n)
      BY <1>5, <1>6, <1>7, <2>1
    <3> QED
      BY <1>5, <1>6, <1>10, <2>1, <3>1
  <2>2. CASE k = Len(d_buf)
    BY <1>5, <1>6, <1>8, <1>9, <1>10, <2>2
  <2> QED
    BY <1>9, <2>1, <2>2
<1> QED
  BY <1>2, <1>9, <1>10, <1>11

LEMMA SymTypes ==
  ASSUME SymInv
  PROVE  S!TypeOK
<1>1. SBuffers /\ SCounts
  BY DEF SymInv
<1>2. Whole \in Seq(Items) /\ Len(d_buf) \in Nat
  BY <1>1, MadeIs
<1>3. PICK w : w = Whole
  OBVIOUS
<1>4. PICK m : m = S!MAX_DISTANCE
  OBVIOUS
<1>5. PICK n : n = S!LITERALS - 1
  OBVIOUS
<1>6. m \in Nat /\ n \in Nat /\ n + 1 = S!LITERALS
  BY <1>4, <1>5 DEF S!MAX_DISTANCE, S!LITERALS
<1>7. d_buf \in Seq(0 .. m) /\ l_buf \in Seq(0 .. n)
  <2>1. d_buf \in Seq(Nat) /\ l_buf \in Seq(Nat) /\ Len(l_buf) = Len(d_buf)
    BY <1>1 DEF SBuffers, Pairs
  <2>2. \A i \in 1 .. Len(d_buf) : d_buf[i] <= m /\ l_buf[i] < n + 1
    BY <1>1, <1>4, <1>6 DEF SBuffers, Pairs
  <2>3. \A i \in 1 .. Len(d_buf) : d_buf[i] \in 0 .. m /\ l_buf[i] \in 0 .. n
    BY <1>6, <2>1, <2>2
  <2>4. d_buf \in Seq(0 .. m)
    BY <2>1, <2>3, SeqInto
  <2>5. l_buf \in Seq(0 .. n)
    <3>1. \A i \in 1 .. Len(l_buf) : l_buf[i] \in 0 .. n
      BY <2>1, <2>3
    <3> QED
      BY <2>1, <3>1, SeqInto
  <2> QED
    BY <2>4, <2>5
<1>8. ASSUME NEW t, NEW c \in DOMAIN BagOf(w, t)
      PROVE  c \in Nat /\ \E x \in Items : x.tree = t /\ x.val = c
  <2>1. c \in Nat /\ Times(w, t, c) > 0
    BY DEF BagOf
  <2>2. Hits(w, OfTree(t, c)) # {}
    BY <1>2, <1>3, <2>1, TimesIs
  <2> QED
    BY <2>1, <2>2 DEF Hits, OfTree
<1>9. S!BagToSet(dyn_ltree) \subseteq 0 .. 285 /\ S!BagToSet(dyn_dtree) \subseteq 0 .. 29
  <2>1. BagToSet(dyn_ltree) = DOMAIN BagOf(w, "l") /\ BagToSet(dyn_dtree) = DOMAIN BagOf(w, "d")
    BY <1>1, <1>3 DEF SCounts, BagToSet
  <2>a. PICK lmax : lmax = 285
    OBVIOUS
  <2>b. PICK dmax : dmax = 29
    OBVIOUS
  <2>c. \A h \in Nat : \A c \in Nat : c <= h => c \in 0 .. h
    OBVIOUS
  <2>2. ASSUME NEW c \in DOMAIN BagOf(w, "l") PROVE c \in Nat /\ c <= lmax
    <3>1. \A x \in Items : x.tree = "l" => x.val <= lmax
      BY <2>a DEF Items
    <3> QED
      BY <1>8, <3>1
  <2>3. ASSUME NEW c \in DOMAIN BagOf(w, "d") PROVE c \in Nat /\ c <= dmax
    <3>1. \A x \in Items : x.tree = "d" => x.val <= dmax
      BY <2>b DEF Items
    <3> QED
      BY <1>8, <3>1
  <2>4. DOMAIN BagOf(w, "l") \subseteq 0 .. lmax
    <3>1. lmax \in Nat
      BY <2>a
    <3> QED
      BY <2>2, <2>c, <3>1
  <2>5. DOMAIN BagOf(w, "d") \subseteq 0 .. dmax
    <3>1. dmax \in Nat
      BY <2>b
    <3> QED
      BY <2>3, <2>c, <3>1
  <2>6. S!BagToSet(dyn_ltree) = BagToSet(dyn_ltree) /\ S!BagToSet(dyn_dtree) = BagToSet(dyn_dtree)
    BY SameBags
  <2>7. S!BagToSet(dyn_ltree) \subseteq 0 .. lmax /\ S!BagToSet(dyn_dtree) \subseteq 0 .. dmax
    BY <2>1, <2>4, <2>5, <2>6
  <2> QED
    BY <2>a, <2>b, <2>7
<1>10. Len(d_buf) < lit_bufsize /\ Len(l_buf) = Len(d_buf)
  BY <1>1 DEF SBuffers, Pairs
<1>11. pos \in 0 .. Len(wire) /\ extra \in 0 .. 13
       /\ mode \in {"tally", "LEN", "LENEXT", "DIST", "DISTEXT", "TYPE", "BAD"}
       /\ length \in Nat /\ length <= S!MAX_MATCH /\ offset \in Nat /\ offset <= m
  <2>1. CASE mode = "tally" /\ wire = <<>> /\ pos = 0 /\ length = 0 /\ offset = 0 /\ extra = 0
    BY <1>6, <2>1 DEF S!MAX_MATCH
  <2>2. CASE wire = Whole /\ SDecoded /\ SPlace
    BY <1>1, <1>4, <2>2, SymPos DEF SDecoded
  <2> QED
    BY <2>1, <2>2 DEF SymInv
<1>12. PICK x : x = S!MAX_MATCH
  OBVIOUS
<1>13. length \in 0 .. x /\ offset \in 0 .. m
  <2>1. x \in Nat
    BY <1>12 DEF S!MAX_MATCH
  <2> QED
    BY <1>6, <1>11, <1>12, <2>1
<1> QED
  BY <1>4, <1>5, <1>7, <1>9, <1>10, <1>11, <1>12, <1>13 DEF S!TypeOK, S!last_lit

LEMMA SymImplies ==
  ASSUME SymInv
  PROVE  S!RoundTrip /\ S!ExtraFits /\ S!FrequenciesExact /\ S!FarCodesReal
<1>1. SBuffers /\ SCounts
  BY DEF SymInv
<1>2. Whole \in Seq(Items) /\ Len(d_buf) \in Nat
  BY <1>1, MadeIs
<1>3. wanted \in Seq(S!Symbol) /\ Len(wanted) = Len(d_buf)
  BY <1>1 DEF SBuffers
<1>4. S!RoundTrip
  <2>1. CASE mode = "tally" /\ text = <<>>
    <3>1. text \in Seq(S!Symbol) /\ Len(text) = 0
      BY <2>1
    <3>2. Len(text) <= Len(wanted) /\ \A i \in 1 .. Len(text) : text[i] = wanted[i]
      BY <1>2, <1>3, <3>1
    <3>3. S!IsPrefix(text, wanted)
      BY <1>3, <3>1, <3>2, Prefix
    <3> QED
      BY <2>1, <3>3 DEF S!RoundTrip
  <2>2. CASE wire = Whole /\ SDecoded /\ SPlace
    <3>1. mode # "BAD" /\ (mode = "TYPE" => Len(text) = Len(d_buf))
      BY <1>1, <2>2, SymPos
    <3>2. text \in Seq(S!Symbol) /\ Len(text) <= Len(wanted)
          /\ \A i \in 1 .. Len(text) : text[i] = wanted[i]
      BY <1>3, <2>2 DEF SDecoded
    <3>3. S!IsPrefix(text, wanted) /\ (Len(text) = Len(wanted) => text = wanted)
      BY <1>3, <3>2, Prefix
    <3> QED
      BY <1>3, <3>1, <3>3 DEF S!RoundTrip
  <2> QED
    BY <2>1, <2>2 DEF SymInv
<1>5. wire \in Seq(Items)
  <2>1. <<>> \in Seq(Items)
    OBVIOUS
  <2> QED
    BY <1>2, <2>1 DEF SymInv
<1>6. S!ExtraFits
  <2>1. \A x \in Items : x.tree = "bits" => x.val \in Nat /\ x.val < 2 ^ x.n
    BY DEF Items, Pow
  <2>2. \A i \in DOMAIN wire : wire[i] \in Items
    BY <1>5
  <2>3. \A v \in Nat : v >= 0
    OBVIOUS
  <2> QED
    BY <2>1, <2>2, <2>3, Zenon DEF S!ExtraFits
<1>7. S!FrequenciesExact
  <2>1. mode # "tally" => wire = Whole
    BY DEF SymInv
  <2>2. S!CodesSent("l") = BagOf(wire, "l") /\ S!CodesSent("d") = BagOf(wire, "d")
    BY <1>5, CodesSentIs
  <2> QED
    BY <1>1, <2>1, <2>2 DEF S!FrequenciesExact, SCounts
<1>8. S!FarCodesReal
  <2> SUFFICES ASSUME NEW i \in DOMAIN d_buf, d_buf[i] > 256
               PROVE  S!d_code(d_buf[i] - 1) >= 16
    BY DEF S!FarCodesReal
  <2>1. PICK d : d = d_buf[i]
    OBVIOUS
  <2>2. d \in Nat /\ d <= S!MAX_DISTANCE /\ d > 256
    BY <1>1, <2>1 DEF SBuffers, Pairs
  <2>3. 0 < d
    BY <2>2
  <2>4. DCode(d) >= 16
    BY <2>2, <2>3, DistFacts
  <2> QED
    BY <2>1, <2>4 DEF DCode
<1> QED
  BY <1>4, <1>6, <1>7, <1>8

----------------------------------------------------------------------------
(***************************************************************************)
(* The theorem about SymbolCodes.                                          *)
(***************************************************************************)

LEMMA SymNext ==
  ASSUME SymInv, BlockAssumption, S!Next
  PROVE  SymInv'
<1>1. SBuffers /\ SCounts
  BY DEF SymInv
<1>2. mode = "tally" => wire = <<>> /\ pos = 0 /\ text = <<>> /\ length = 0 /\ offset = 0 /\ extra = 0
  <2>1. wire = Whole /\ SDecoded /\ SPlace => mode # "tally"
    BY <1>1, SymPos
  <2> QED
    BY <2>1 DEF SymInv
<1>3. mode # "tally" => wire = Whole /\ SDecoded /\ SPlace
  BY DEF SymInv
<1>4. CASE S!Tally
  <2>1. SBuffers' /\ SCounts'
    BY <1>1, <1>4, SymTally DEF S!Tally
  <2>2. /\ mode' = "tally" /\ wire' = <<>> /\ pos' = 0 /\ text' = <<>>
        /\ length' = 0 /\ offset' = 0 /\ extra' = 0
    BY <1>2, <1>4 DEF S!Tally, S!decoder
  <2> QED
    BY <2>1, <2>2 DEF SymInv
<1>5. CASE S!compress_block
  BY <1>1, <1>2, <1>5, SymCompress DEF S!compress_block
<1>6. CASE S!LEN \/ S!LENEXT \/ S!DIST \/ S!DISTEXT
  <2>1. mode # "tally"
    BY <1>6 DEF S!LEN, S!LENEXT, S!DIST, S!DISTEXT
  <2>2. wire = Whole /\ SDecoded /\ SPlace
    BY <1>3, <2>1
  <2>3. PICK k, a, b, d, lc : Decoding(k, a, b, d, lc)
    BY <1>1, <2>2, DecodingIs
  <2>4. CASE S!LEN
    BY <1>1, <2>2, <2>3, <2>4, SymLEN
  <2>5. CASE S!LENEXT
    BY <1>1, <2>2, <2>3, <2>5, SymLENEXT
  <2>6. CASE S!DIST
    BY <1>1, <2>2, <2>3, <2>6, SymDIST
  <2>7. CASE S!DISTEXT
    BY <1>1, <2>2, <2>3, <2>7, SymDISTEXT
  <2> QED
    BY <1>6, <2>4, <2>5, <2>6, <2>7
<1>7. CASE S!Done
  BY <1>7 DEF S!Done, S!vars, S!decoder, SymInv, SBuffers, SCounts, SDecoded, SPlace, Place, Whole, Made
<1> QED
  BY <1>4, <1>5, <1>6, <1>7 DEF S!Next

\* All variables of Blocks
BVars == <<part, HOwn, COwn, TOwn, SOwn, freq, pc, mode, lens>>

\* Whatever is tallied within the format's limits, in a buffer of any size:
\* the decoder gets those symbols, each extra field fits its bits, and each
\* code is sent as often as _tr_tally counted it.
THEOREM SymbolsAreExact == BSpec => []SymbolsArrive
<1> DEFINE Inv == part = "symbols" => SymInv
<1>0. BlockAssumption
  BY BlockAssumption
<1>1. BInit => Inv
  <2> SUFFICES ASSUME BInit, part = "symbols" PROVE SymInv
    OBVIOUS
  <2>1. S!Init
    BY DEF BInit
  <2> QED
    BY <1>0, <2>1, SymInit
<1>2. Inv /\ [BNext]_BVars => Inv'
  <2> SUFFICES ASSUME Inv, [BNext]_BVars, part' = "symbols" PROVE SymInv'
    OBVIOUS
  <2>1. part = "symbols" /\ SymInv
    BY DEF BNext, BVars
  <2>2. CASE UNCHANGED BVars
    BY <2>1, <2>2 DEF BVars, SOwn, SymInv, SBuffers, SCounts, SDecoded, SPlace, Place, Whole, Made
  <2>3. CASE BNext
    <3>1. S!Next
      BY <2>1, <2>3 DEF BNext
    <3> QED
      BY <1>0, <2>1, <3>1, SymNext
  <2> QED
    BY <2>2, <2>3
<1>3. Inv => SymbolsArrive
  BY SymTypes, SymImplies DEF SymbolsArrive
<1> QED
  BY <1>1, <1>2, <1>3, PTL DEF BSpec, BVars

----------------------------------------------------------------------------
(***************************************************************************)
(* The symbols of CodeLengths and the lengths they tell.                   *)
(***************************************************************************)

Caps(r, z, l) ==
  /\ r \in Nat /\ z \in Nat /\ l \in Nat /\ r >= 2 /\ z >= 2 /\ l >= 2
  /\ r = 2 ^ RepBits /\ z = 2 ^ ZBits /\ l = 2 ^ LongBits
  /\ RepMax = 2 + r /\ ZMax = 2 + z /\ LongMax = 2 + z + l

LEMMA CapsAre ==
  ASSUME SymbolsAssumption
  PROVE  \E r, z, l : Caps(r, z, l)
<1>1. ASSUME NEW b \in 1 .. 7 PROVE Pow(b) \in Nat /\ Pow(b) >= 2
  BY Powers
<1>2. RepBits \in 1 .. 7 /\ ZBits \in 1 .. 7 /\ LongBits \in 1 .. 7
  BY DEF SymbolsAssumption
<1>3. PICK r : r = Pow(RepBits)
  OBVIOUS
<1>4. PICK z : z = Pow(ZBits)
  OBVIOUS
<1>5. PICK l : l = Pow(LongBits)
  OBVIOUS
<1>6. r \in Nat /\ z \in Nat /\ l \in Nat /\ r >= 2 /\ z >= 2 /\ l >= 2
  BY <1>1, <1>2, <1>3, <1>4, <1>5
<1>7. r = 2 ^ RepBits /\ z = 2 ^ ZBits /\ l = 2 ^ LongBits
  BY <1>3, <1>4, <1>5 DEF Pow
<1>8. RepMax = 2 + r /\ ZMax = 2 + z /\ LongMax = 2 + z + l
  BY <1>6, <1>7 DEF RepMax, ZMax, LongMax
<1> QED
  BY <1>6, <1>7, <1>8 DEF Caps

LEMMA Kinds ==
  ASSUME SymbolsAssumption, LensAssumption
  PROVE  /\ 0 \in Lens /\ \A c \in Lens : c \in Nat /\ c # -1
         /\ REP \notin Lens /\ REPZ \notin Lens /\ REPZ_LONG \notin Lens
         /\ REP # REPZ /\ REP # REPZ_LONG /\ REPZ # REPZ_LONG
         /\ \A c : c \in BlSymbols <=> c \in Lens \/ c = REP \/ c = REPZ \/ c = REPZ_LONG
<1>1. \A c \in Nat : c # -1
  OBVIOUS
<1> QED
  BY <1>1 DEF SymbolsAssumption, LensAssumption, BlSymbols

\* A symbol that may be sent
Fits(x) ==
  \/ x.code \in Lens /\ x.extra = 0
  \/ x.code = REP /\ x.extra < 2 ^ RepBits
  \/ x.code = REPZ /\ x.extra < 2 ^ ZBits
  \/ x.code = REPZ_LONG /\ x.extra < 2 ^ LongBits

Told == {x \in [code : BlSymbols, extra : Nat] : Fits(x)}

\* What x tells of the lengths of ls that follow the first o
Tells(x, ls, o) ==
  /\ x \in Told /\ o \in Nat /\ Count(x) \in Nat /\ Count(x) > 0 /\ o + Count(x) <= Len(ls)
  /\ x.code = REP => o > 0
  /\ \A j \in o + 1 .. o + Count(x) :
       ls[j] = IF x.code \in Lens THEN x.code ELSE IF x.code = REP THEN ls[o] ELSE 0

LEMMA ToldIs ==
  ASSUME SymbolsAssumption, LensAssumption
  PROVE  /\ \A c \in Lens : Code(c) \in Told /\ Count(Code(c)) = 1
         /\ \A e \in Nat : e < 2 ^ RepBits => Repeat(REP, e) \in Told /\ Count(Repeat(REP, e)) = 3 + e
         /\ \A e \in Nat : e < 2 ^ ZBits => Repeat(REPZ, e) \in Told /\ Count(Repeat(REPZ, e)) = 3 + e
         /\ \A e \in Nat : e < 2 ^ LongBits =>
              Repeat(REPZ_LONG, e) \in Told /\ Count(Repeat(REPZ_LONG, e)) = ZMax + 1 + e
<1>1. ASSUME NEW c \in Lens PROVE Code(c) \in Told /\ Count(Code(c)) = 1
  <2>1. Code(c).code = c /\ Code(c).extra = 0 /\ c \in BlSymbols
        /\ c # REP /\ c # REPZ /\ c # REPZ_LONG
    BY Kinds DEF Code
  <2>2. Code(c) \in [code : BlSymbols, extra : Nat]
    BY <2>1 DEF Code
  <2> QED
    BY <2>1, <2>2 DEF Told, Fits, Count
<1>2. ASSUME NEW e \in Nat, e < 2 ^ RepBits
      PROVE  Repeat(REP, e) \in Told /\ Count(Repeat(REP, e)) = 3 + e
  <2>1. Repeat(REP, e).code = REP /\ Repeat(REP, e).extra = e /\ REP \in BlSymbols
        /\ REP \notin Lens /\ REP # REPZ_LONG
    BY Kinds DEF Repeat
  <2>2. Repeat(REP, e) \in [code : BlSymbols, extra : Nat]
    BY <2>1 DEF Repeat
  <2> QED
    BY <1>2, <2>1, <2>2 DEF Told, Fits, Count
<1>3. ASSUME NEW e \in Nat, e < 2 ^ ZBits
      PROVE  Repeat(REPZ, e) \in Told /\ Count(Repeat(REPZ, e)) = 3 + e
  <2>1. Repeat(REPZ, e).code = REPZ /\ Repeat(REPZ, e).extra = e /\ REPZ \in BlSymbols
        /\ REPZ \notin Lens /\ REPZ # REPZ_LONG
    BY Kinds DEF Repeat
  <2>2. Repeat(REPZ, e) \in [code : BlSymbols, extra : Nat]
    BY <2>1 DEF Repeat
  <2> QED
    BY <1>3, <2>1, <2>2 DEF Told, Fits, Count
<1>4. ASSUME NEW e \in Nat, e < 2 ^ LongBits
      PROVE  Repeat(REPZ_LONG, e) \in Told /\ Count(Repeat(REPZ_LONG, e)) = ZMax + 1 + e
  <2>1. Repeat(REPZ_LONG, e).code = REPZ_LONG /\ Repeat(REPZ_LONG, e).extra = e
        /\ REPZ_LONG \in BlSymbols /\ REPZ_LONG \notin Lens /\ REPZ_LONG # REP /\ REPZ_LONG # REPZ
    BY Kinds DEF Repeat
  <2>2. Repeat(REPZ_LONG, e) \in [code : BlSymbols, extra : Nat]
    BY <2>1 DEF Repeat
  <2> QED
    BY <1>4, <2>1, <2>2 DEF Told, Fits, Count
<1> QED
  BY <1>1, <1>2, <1>3, <1>4

\* z tells the lengths of ls from place a to place b, at the places off.
Places(off, z, ls, a, b) ==
  /\ off \in [0 .. Len(z) -> Nat] /\ off[0] = a /\ off[Len(z)] = b
  /\ \A i \in 1 .. Len(z) : off[i] = off[i - 1] + Count(z[i]) /\ Tells(z[i], ls, off[i - 1])

Spells(z, ls, a, b) ==
  /\ z \in Seq(Told) /\ a \in Nat /\ b \in Nat
  /\ \E off : Places(off, z, ls, a, b)

LEMMA SpellsNone ==
  ASSUME NEW ls, NEW a \in Nat
  PROVE  Spells(<<>>, ls, a, a) /\ \A b : Spells(<<>>, ls, a, b) => b = a
<1>1. <<>> \in Seq(Told) /\ Len(<<>>) = 0
  OBVIOUS
<1>2. Spells(<<>>, ls, a, a)
  <2>1. [i \in 0 .. 0 |-> a] \in [0 .. 0 -> Nat] /\ [i \in 0 .. 0 |-> a][0] = a
    OBVIOUS
  <2>2. Places([i \in 0 .. 0 |-> a], <<>>, ls, a, a)
    BY <1>1, <2>1 DEF Places
  <2> QED
    BY <1>1, <2>2 DEF Spells
<1>3. ASSUME NEW b, Spells(<<>>, ls, a, b) PROVE b = a
  BY <1>1, <1>3 DEF Spells, Places
<1> QED
  BY <1>2, <1>3

LEMMA SpellsOne ==
  ASSUME NEW ls, NEW a, NEW x, Tells(x, ls, a)
  PROVE  Spells(<<x>>, ls, a, a + Count(x))
<1>1. x \in Told /\ a \in Nat /\ Count(x) \in Nat /\ a + Count(x) \in Nat
  BY DEF Tells
<1> DEFINE off == [i \in 0 .. 1 |-> IF i = 0 THEN a ELSE a + Count(x)]
<1>2. <<x>> \in Seq(Told) /\ Len(<<x>>) = 1 /\ <<x>>[1] = x
  BY <1>1
<1>3. off \in [0 .. 1 -> Nat] /\ off[0] = a /\ off[1] = a + Count(x)
  BY <1>1
<1> HIDE DEF off
<1>4. \A i \in 1 .. 1 : i = 1 /\ i - 1 = 0
  OBVIOUS
<1>5. Places(off, <<x>>, ls, a, a + Count(x))
  BY <1>2, <1>3, <1>4 DEF Places
<1> QED
  BY <1>1, <1>2, <1>5 DEF Spells

LEMMA SpellsConcat ==
  ASSUME NEW ls, NEW y, NEW z, NEW a, NEW b, NEW c, Spells(y, ls, a, b), Spells(z, ls, b, c)
  PROVE  Spells(y \o z, ls, a, c)
<1>1. y \in Seq(Told) /\ z \in Seq(Told) /\ a \in Nat /\ b \in Nat /\ c \in Nat
  BY DEF Spells
<1>2. PICK p : Places(p, y, ls, a, b)
  BY DEF Spells
<1>3. PICK q : Places(q, z, ls, b, c)
  BY DEF Spells
<1>4. PICK w : w = y \o z
  OBVIOUS
<1>5. w \in Seq(Told) /\ IsConcat(w, y, z)
  BY <1>1, <1>4, Concat
<1>6. PICK m : m = Len(y)
  OBVIOUS
<1>7. PICK n : n = Len(z)
  OBVIOUS
<1>8. /\ m \in Nat /\ n \in Nat /\ Len(w) = m + n
      /\ \A i \in 1 .. m : w[i] = y[i]
      /\ \A i \in 1 .. n : w[m + i] = z[i]
  BY <1>5, <1>6, <1>7 DEF IsConcat
<1> DEFINE off == [i \in 0 .. m + n |-> IF i <= m THEN p[i] ELSE q[i - m]]
<1>9. /\ p \in [0 .. m -> Nat] /\ p[0] = a /\ p[m] = b
      /\ \A i \in 1 .. m : p[i] = p[i - 1] + Count(y[i]) /\ Tells(y[i], ls, p[i - 1])
  BY <1>2, <1>6 DEF Places
<1>10. /\ q \in [0 .. n -> Nat] /\ q[0] = b /\ q[n] = c
       /\ \A i \in 1 .. n : q[i] = q[i - 1] + Count(z[i]) /\ Tells(z[i], ls, q[i - 1])
  BY <1>3, <1>7 DEF Places
<1>11. off \in [0 .. m + n -> Nat]
  <2> SUFFICES ASSUME NEW i \in 0 .. m + n PROVE (IF i <= m THEN p[i] ELSE q[i - m]) \in Nat
    OBVIOUS
  <2>1. CASE i <= m
    <3>1. i \in 0 .. m
      BY <1>8, <2>1
    <3> QED
      BY <1>9, <2>1, <3>1
  <2>2. CASE ~(i <= m)
    <3>1. i - m \in 0 .. n
      BY <1>8, <2>2
    <3> QED
      BY <1>10, <2>2, <3>1
  <2> QED
    BY <2>1, <2>2
<1>12. off[0] = a /\ off[m + n] = c
  <2>1. 0 \in 0 .. m + n /\ m + n \in 0 .. m + n /\ 0 <= m /\ (m + n <= m => n = 0 /\ m + n = m) /\ (m + n) - m = n
    BY <1>8
  <2> QED
    BY <1>9, <1>10, <2>1
<1>13. ASSUME NEW i \in 1 .. m + n
       PROVE  off[i] = off[i - 1] + Count(w[i]) /\ Tells(w[i], ls, off[i - 1])
  <2>1. i \in 0 .. m + n /\ i - 1 \in 0 .. m + n
    BY <1>8
  <2>2. CASE i <= m
    <3>1. i \in 1 .. m /\ i - 1 <= m
      BY <1>8, <2>2
    <3>2. off[i] = p[i] /\ off[i - 1] = p[i - 1] /\ w[i] = y[i]
      BY <1>8, <2>1, <2>2, <3>1
    <3> QED
      BY <1>9, <3>1, <3>2
  <2>3. CASE ~(i <= m)
    <3>1. i - m \in 1 .. n /\ (i - m) - 1 = (i - 1) - m /\ m + (i - m) = i
      BY <1>8, <2>3
    <3>2. off[i] = q[i - m] /\ w[i] = z[i - m]
      BY <1>8, <2>1, <2>3, <3>1
    <3>3. off[i - 1] = q[(i - m) - 1]
      <4>1. CASE i - 1 <= m
        <5>1. i - 1 = m /\ (i - m) - 1 = 0
          BY <1>8, <2>3, <4>1
        <5> QED
          BY <1>9, <1>10, <2>1, <4>1, <5>1
      <4>2. CASE ~(i - 1 <= m)
        BY <2>1, <3>1, <4>2
      <4> QED
        BY <4>1, <4>2
    <3> QED
      BY <1>10, <3>1, <3>2, <3>3
  <2> QED
    BY <2>2, <2>3
<1> HIDE DEF off
<1>14. Places(off, w, ls, a, c)
  BY <1>8, <1>11, <1>12, <1>13 DEF Places
<1> QED
  BY <1>1, <1>4, <1>5, <1>14 DEF Spells

LEMMA SpellsHead ==
  ASSUME NEW ls, NEW z, NEW a, NEW b, Spells(z, ls, a, b), z # <<>>
  PROVE  /\ z \in Seq(Told) /\ Tells(Head(z), ls, a)
         /\ Spells(Tail(z), ls, a + Count(Head(z)), b)
<1>1. z \in Seq(Told) /\ a \in Nat /\ b \in Nat
  BY DEF Spells
<1>2. PICK p : Places(p, z, ls, a, b)
  BY DEF Spells
<1>3. PICK n : n = Len(z)
  OBVIOUS
<1>4. PICK x : x = Head(z)
  OBVIOUS
<1>5. PICK t : t = Tail(z)
  OBVIOUS
<1>6. /\ n \in Nat /\ n > 0 /\ z[1] = x /\ t \in Seq(Told) /\ Len(t) = n - 1
      /\ \A i \in 1 .. n - 1 : t[i] = z[i + 1]
  BY <1>1, <1>3, <1>4, <1>5
<1>7. /\ p \in [0 .. n -> Nat] /\ p[0] = a /\ p[n] = b
      /\ \A i \in 1 .. n : p[i] = p[i - 1] + Count(z[i]) /\ Tells(z[i], ls, p[i - 1])
  BY <1>2, <1>3 DEF Places
<1>8. 1 \in 1 .. n /\ 1 - 1 = 0
  BY <1>6
<1>9. Tells(x, ls, a) /\ p[1] = a + Count(x)
  BY <1>6, <1>7, <1>8
<1> DEFINE off == [i \in 0 .. n - 1 |-> p[i + 1]]
<1>10. off \in [0 .. n - 1 -> Nat] /\ off[0] = a + Count(x) /\ off[n - 1] = b
  <2>1. \A i \in 0 .. n - 1 : i + 1 \in 0 .. n
    BY <1>6
  <2>2. 0 \in 0 .. n - 1 /\ n - 1 \in 0 .. n - 1 /\ 0 + 1 = 1 /\ (n - 1) + 1 = n
    BY <1>6
  <2> QED
    BY <1>7, <1>9, <2>1, <2>2
<1>11. ASSUME NEW i \in 1 .. n - 1
       PROVE  off[i] = off[i - 1] + Count(t[i]) /\ Tells(t[i], ls, off[i - 1])
  <2>1. i \in 0 .. n - 1 /\ i - 1 \in 0 .. n - 1 /\ i + 1 \in 1 .. n /\ (i - 1) + 1 = i /\ (i + 1) - 1 = i
    BY <1>6
  <2>2. off[i] = p[i + 1] /\ off[i - 1] = p[i] /\ t[i] = z[i + 1]
    BY <1>6, <2>1
  <2>3. p[i + 1] = p[(i + 1) - 1] + Count(z[i + 1]) /\ Tells(z[i + 1], ls, p[(i + 1) - 1])
    BY <1>7, <2>1
  <2> QED
    BY <2>1, <2>2, <2>3
<1> HIDE DEF off
<1>12. a + Count(x) \in Nat
  BY <1>9 DEF Tells
<1>13. Places(off, t, ls, a + Count(x), b)
  BY <1>6, <1>10, <1>11 DEF Places
<1> QED
  BY <1>1, <1>4, <1>5, <1>6, <1>9, <1>12, <1>13 DEF Spells

----------------------------------------------------------------------------
(***************************************************************************)
(* One run of equal lengths: what is sent for it and what is counted.      *)
(***************************************************************************)

\* A run as the encoder cuts them
IsRun(r) ==
  /\ r.len \in Lens /\ r.prevlen \in Lens \cup {-1}
  /\ r.count \in Nat /\ r.count > 0
  /\ r.count <= Limits(r.prevlen, r.len).max /\ r.min = Limits(r.prevlen, r.len).min

\* The five things that may be sent
SentFew(r) == r.count < r.min /\ SentRun(r) = [i \in 1 .. r.count |-> Code(r.len)]
SentFirst(r, e) ==
  /\ ~(r.count < r.min) /\ r.len # 0 /\ r.len # r.prevlen
  /\ e \in Nat /\ e < 2 ^ RepBits /\ r.count = 4 + e
  /\ SentRun(r) = <<Code(r.len), Repeat(REP, e)>>
SentMore(r, e) ==
  /\ ~(r.count < r.min) /\ r.len # 0 /\ r.len = r.prevlen
  /\ e \in Nat /\ e < 2 ^ RepBits /\ r.count = 3 + e
  /\ SentRun(r) = <<Repeat(REP, e)>>
SentZeros(r, e) ==
  /\ ~(r.count < r.min) /\ r.len = 0 /\ r.count <= ZMax
  /\ e \in Nat /\ e < 2 ^ ZBits /\ r.count = 3 + e
  /\ SentRun(r) = <<Repeat(REPZ, e)>>
SentMany(r, e) ==
  /\ ~(r.count < r.min) /\ r.len = 0 /\ ~(r.count <= ZMax)
  /\ e \in Nat /\ e < 2 ^ LongBits /\ r.count = ZMax + 1 + e
  /\ SentRun(r) = <<Repeat(REPZ_LONG, e)>>

LEMMA RunCases ==
  ASSUME SymbolsAssumption, NEW r, IsRun(r)
  PROVE  \/ SentFew(r)
         \/ \E e : SentFirst(r, e) \/ SentMore(r, e) \/ SentZeros(r, e) \/ SentMany(r, e)
<1>1. PICK x, z, l : Caps(x, z, l)
  BY CapsAre
<1>2. PICK n : n = r.count
  OBVIOUS
<1>3. PICK m : m = r.min
  OBVIOUS
<1>4. n \in Nat /\ n <= Limits(r.prevlen, r.len).max /\ m = Limits(r.prevlen, r.len).min
  BY <1>2, <1>3 DEF IsRun
<1>5. /\ x \in Nat /\ z \in Nat /\ l \in Nat
      /\ x = 2 ^ RepBits /\ z = 2 ^ ZBits /\ l = 2 ^ LongBits
      /\ RepMax = 2 + x /\ ZMax = 2 + z /\ LongMax = 2 + z + l
  BY <1>1 DEF Caps
<1>6. CASE n < m
  <2>1. SentFew(r)
    BY <1>2, <1>3, <1>6 DEF SentFew, SentRun
  <2> QED
    BY <2>1
<1>7. CASE ~(n < m) /\ r.len # 0 /\ r.len # r.prevlen
  <2>1. m = 4 /\ n <= 3 + x
    BY <1>4, <1>5, <1>7 DEF Limits
  <2>2. n - 4 \in Nat /\ n - 4 < x /\ n = 4 + (n - 4)
    BY <1>4, <1>5, <1>7, <2>1
  <2>3. SentRun(r) = <<Code(r.len), Repeat(REP, n - 4)>>
    BY <1>2, <1>3, <1>7 DEF SentRun
  <2>4. PICK e : e = n - 4
    OBVIOUS
  <2>5. SentFirst(r, e)
    BY <1>2, <1>3, <1>5, <1>7, <2>2, <2>3, <2>4 DEF SentFirst
  <2> QED
    BY <2>5
<1>8. CASE ~(n < m) /\ r.len # 0 /\ r.len = r.prevlen
  <2>1. m = 3 /\ n <= 2 + x
    BY <1>4, <1>5, <1>8 DEF Limits
  <2>2. n - 3 \in Nat /\ n - 3 < x /\ n = 3 + (n - 3)
    BY <1>4, <1>5, <1>8, <2>1
  <2>3. SentRun(r) = <<Repeat(REP, n - 3)>>
    BY <1>2, <1>3, <1>8 DEF SentRun
  <2>4. PICK e : e = n - 3
    OBVIOUS
  <2>5. SentMore(r, e)
    BY <1>2, <1>3, <1>5, <1>8, <2>2, <2>3, <2>4 DEF SentMore
  <2> QED
    BY <2>5
<1>9. CASE ~(n < m) /\ r.len = 0 /\ n <= ZMax
  <2>1. m = 3
    BY <1>4, <1>9 DEF Limits
  <2>2. n - 3 \in Nat /\ n - 3 < z /\ n = 3 + (n - 3)
    BY <1>4, <1>5, <1>9, <2>1
  <2>3. SentRun(r) = <<Repeat(REPZ, n - 3)>>
    BY <1>2, <1>3, <1>9 DEF SentRun
  <2>4. PICK e : e = n - 3
    OBVIOUS
  <2>5. SentZeros(r, e)
    BY <1>2, <1>3, <1>5, <1>9, <2>2, <2>3, <2>4 DEF SentZeros
  <2> QED
    BY <2>5
<1>10. CASE ~(n < m) /\ r.len = 0 /\ ~(n <= ZMax)
  <2>1. n <= 2 + z + l
    BY <1>4, <1>5, <1>10 DEF Limits
  <2>2. n - ZMax - 1 \in Nat /\ n - ZMax - 1 < l /\ n = ZMax + 1 + (n - ZMax - 1)
    BY <1>4, <1>5, <1>10, <2>1
  <2>3. SentRun(r) = <<Repeat(REPZ_LONG, n - ZMax - 1)>>
    BY <1>2, <1>3, <1>10 DEF SentRun
  <2>4. PICK e : e = n - ZMax - 1
    OBVIOUS
  <2>5. SentMany(r, e)
    BY <1>2, <1>3, <1>5, <1>10, <2>2, <2>3, <2>4 DEF SentMany
  <2> QED
    BY <2>5
<1> QED
  BY <1>6, <1>7, <1>8, <1>9, <1>10

\* Where a run stands in ls: after the first o lengths
Stands(r, ls, o) ==
  /\ o \in Nat /\ Len(ls) \in Nat /\ o + r.count <= Len(ls)
  /\ \A j \in o + 1 .. o + r.count : ls[j] = r.len
  /\ r.prevlen # -1 => o > 0 /\ ls[o] = r.prevlen

\* One of the four repeats
LEMMA TellsRepeat ==
  ASSUME SymbolsAssumption, LensAssumption, NEW ls, NEW o \in Nat, NEW x \in Told,
         NEW n \in Nat, n > 0, Count(x) = n, o + n <= Len(ls), NEW v,
         \A j \in o + 1 .. o + n : ls[j] = v,
         \/ x.code = REP /\ o > 0 /\ ls[o] = v
         \/ x.code \in Lens /\ x.code = v
         \/ x.code \in {REPZ, REPZ_LONG} /\ v = 0
  PROVE  Tells(x, ls, o)
<1>1. (IF x.code \in Lens THEN x.code ELSE IF x.code = REP THEN ls[o] ELSE 0) = v
  BY Kinds
<1>2. x.code = REP => o > 0
  BY Kinds
<1> QED
  BY <1>1, <1>2 DEF Tells

LEMMA RunSpells ==
  ASSUME SymbolsAssumption, LensAssumption, NEW r, IsRun(r), NEW ls, NEW o, Stands(r, ls, o)
  PROVE  Spells(SentRun(r), ls, o, o + r.count)
<1>1. PICK n : n = r.count
  OBVIOUS
<1>2. PICK v : v = r.len
  OBVIOUS
<1>3. PICK L : L = Len(ls)
  OBVIOUS
<1>4. /\ n \in Nat /\ n > 0 /\ v \in Lens /\ o \in Nat /\ L \in Nat /\ o + n <= L
      /\ \A j \in o + 1 .. o + n : ls[j] = v
      /\ r.prevlen # -1 => o > 0 /\ ls[o] = r.prevlen
  BY <1>1, <1>2, <1>3 DEF IsRun, Stands
<1>5. v \in Nat /\ v # -1 /\ Code(v) \in Told /\ Count(Code(v)) = 1
      /\ Code(v).code = v
  BY <1>4, Kinds, ToldIs DEF Code
<1>6. ASSUME NEW i \in o .. o + n - 1 PROVE Tells(Code(v), ls, i)
  <2>1. i \in Nat /\ i + 1 <= L /\ \A j \in i + 1 .. i + 1 : j \in o + 1 .. o + n
    <3>1. o \in Nat /\ n \in Nat /\ L \in Nat /\ o + n <= L
      BY <1>4
    <3> QED
      BY <3>1
  <2>2. \A j \in i + 1 .. i + 1 : ls[j] = v
    BY <1>4, <2>1
  <2>3. PICK x : x = Code(v)
    OBVIOUS
  <2>4. x \in Told /\ Count(x) = 1 /\ x.code \in Lens /\ x.code = v
    BY <1>4, <1>5, <2>3
  <2>5. Tells(x, ls, i)
    <3>1. i + 1 <= Len(ls) /\ 1 \in Nat /\ 1 > 0
      BY <1>3, <2>1
    <3>2. \/ x.code = REP /\ i > 0 /\ ls[i] = v
          \/ x.code \in Lens /\ x.code = v
          \/ x.code \in {REPZ, REPZ_LONG} /\ v = 0
      BY <2>4
    <3> QED
      BY <2>1, <2>2, <2>4, <3>1, <3>2, TellsRepeat
  <2> QED
    BY <2>3, <2>5
<1>7. CASE SentFew(r)
  <2>1. SentRun(r) = [i \in 1 .. n |-> Code(v)]
    BY <1>1, <1>2, <1>7 DEF SentFew
  <2> DEFINE z == [i \in 1 .. n |-> Code(v)]
             off == [i \in 0 .. n |-> o + i]
  <2>2. z \in Seq(Told) /\ Len(z) = n /\ \A i \in 1 .. n : z[i] = Code(v)
    BY <1>4, <1>5
  <2>3. off \in [0 .. n -> Nat] /\ off[0] = o /\ off[n] = o + n
    BY <1>4
  <2>4. \A i \in 1 .. n : /\ off[i] = o + i /\ off[i - 1] = o + (i - 1)
                          /\ o + i = (o + (i - 1)) + 1 /\ o + (i - 1) \in o .. o + n - 1
    BY <1>4
  <2> HIDE DEF z, off
  <2>5. ASSUME NEW i \in 1 .. n
        PROVE  off[i] = off[i - 1] + Count(z[i]) /\ Tells(z[i], ls, off[i - 1])
    <3>1. off[i] = off[i - 1] + 1 /\ off[i - 1] \in o .. o + n - 1 /\ z[i] = Code(v)
      BY <2>2, <2>4
    <3> QED
      BY <1>5, <1>6, <3>1
  <2>6. Places(off, z, ls, o, o + n)
    BY <2>2, <2>3, <2>5 DEF Places
  <2>7. o + n \in Nat
    BY <1>4
  <2>8. Spells(z, ls, o, o + n)
    BY <1>4, <2>2, <2>6, <2>7 DEF Spells
  <2> QED
    BY <1>1, <2>1, <2>8 DEF z
<1>8. ASSUME NEW e, SentFirst(r, e)
      PROVE  Spells(SentRun(r), ls, o, o + r.count)
  <2>1. e \in Nat /\ e < 2 ^ RepBits /\ n = 4 + e /\ SentRun(r) = <<Code(v), Repeat(REP, e)>>
    BY <1>1, <1>2, <1>8 DEF SentFirst
  <2>2. PICK x : x = Code(v)
    OBVIOUS
  <2>3. PICK y : y = Repeat(REP, e)
    OBVIOUS
  <2>4. y \in Told /\ Count(y) = 3 + e /\ y.code = REP
    BY <2>1, <2>3, ToldIs DEF Repeat
  <2>5. o \in o .. o + n - 1
    BY <1>4
  <2>6. Spells(<<x>>, ls, o, o + 1)
    <3>1. Tells(x, ls, o) /\ Count(x) = 1
      BY <1>5, <1>6, <2>2, <2>5
    <3> QED
      BY <3>1, SpellsOne
  <2>7. PICK p : p = o + 1
    OBVIOUS
  <2>8. PICK k : k = 3 + e
    OBVIOUS
  <2>9. p \in Nat /\ p > 0 /\ k \in Nat /\ k > 0 /\ p + k = o + n /\ p + k <= L
        /\ p \in o + 1 .. o + n /\ \A j \in p + 1 .. p + k : j \in o + 1 .. o + n
    BY <1>4, <2>1, <2>7, <2>8
  <2>10. ls[p] = v /\ \A j \in p + 1 .. p + k : ls[j] = v
    BY <1>4, <2>9
  <2>11. Tells(y, ls, p)
    BY <1>3, <2>4, <2>8, <2>9, <2>10, TellsRepeat
  <2>12. Spells(<<y>>, ls, p, o + n)
    <3>1. Spells(<<y>>, ls, p, p + Count(y))
      BY <2>11, SpellsOne
    <3> QED
      BY <2>4, <2>8, <2>9, <3>1
  <2>13. Spells(<<x>> \o <<y>>, ls, o, o + n)
    BY <2>6, <2>7, <2>12, SpellsConcat
  <2>14. <<x>> \o <<y>> = <<x, y>>
    BY Pair
  <2> QED
    BY <1>1, <2>1, <2>2, <2>3, <2>13, <2>14
<1>9. ASSUME NEW e, NEW y, y \in Told, Count(y) = n, SentRun(r) = <<y>>,
             \/ y.code = REP /\ v = r.prevlen
             \/ y.code \in {REPZ, REPZ_LONG} /\ v = 0
      PROVE  Spells(SentRun(r), ls, o, o + r.count)
  <2>1. (y.code = REP /\ o > 0 /\ ls[o] = v) \/ (y.code \in {REPZ, REPZ_LONG} /\ v = 0)
    BY <1>4, <1>5, <1>9
  <2>2. Tells(y, ls, o)
    BY <1>3, <1>4, <1>9, <2>1, TellsRepeat
  <2> QED
    BY <1>1, <1>9, <2>2, SpellsOne
<1>10. ASSUME NEW e, SentMore(r, e)
       PROVE  Spells(SentRun(r), ls, o, o + r.count)
  <2>1. Repeat(REP, e) \in Told /\ Count(Repeat(REP, e)) = n
    BY <1>1, <1>10, ToldIs DEF SentMore
  <2>2. Repeat(REP, e).code = REP /\ v = r.prevlen
    BY <1>2, <1>10 DEF SentMore, Repeat
  <2> QED
    BY <1>9, <1>10, <2>1, <2>2 DEF SentMore
<1>11. ASSUME NEW e, SentZeros(r, e)
       PROVE  Spells(SentRun(r), ls, o, o + r.count)
  <2>1. Repeat(REPZ, e) \in Told /\ Count(Repeat(REPZ, e)) = n
    BY <1>1, <1>11, ToldIs DEF SentZeros
  <2>2. Repeat(REPZ, e).code = REPZ /\ v = 0
    BY <1>2, <1>11 DEF SentZeros, Repeat
  <2> QED
    BY <1>9, <1>11, <2>1, <2>2 DEF SentZeros
<1>12. ASSUME NEW e, SentMany(r, e)
       PROVE  Spells(SentRun(r), ls, o, o + r.count)
  <2>1. Repeat(REPZ_LONG, e) \in Told /\ Count(Repeat(REPZ_LONG, e)) = n
    BY <1>1, <1>12, ToldIs DEF SentMany
  <2>2. Repeat(REPZ_LONG, e).code = REPZ_LONG /\ v = 0
    BY <1>2, <1>12 DEF SentMany, Repeat
  <2> QED
    BY <1>9, <1>12, <2>1, <2>2 DEF SentMany
<1> QED
  BY <1>7, <1>8, <1>10, <1>11, <1>12, RunCases

\* Whatever ls is
LEMMA RunSent ==
  ASSUME SymbolsAssumption, LensAssumption, NEW r, IsRun(r)
  PROVE  SentRun(r) \in Seq(Told)
<1>1. PICK n : n = r.count
  OBVIOUS
<1>2. PICK v : v = r.len
  OBVIOUS
<1>3. PICK p : p = r.prevlen
  OBVIOUS
<1>4. n \in Nat /\ v \in Lens /\ p \in Lens \cup {-1}
  BY <1>1, <1>2, <1>3 DEF IsRun
<1>5. CASE p = -1
  <2>1. PICK ls : ls = [j \in 1 .. n |-> v]
    OBVIOUS
  <2>2. ls \in Seq(Lens) /\ Len(ls) = n /\ \A j \in 0 + 1 .. 0 + n : ls[j] = v
    BY <1>4, <2>1
  <2>3. Stands(r, ls, 0)
    BY <1>1, <1>2, <1>3, <1>4, <1>5, <2>2 DEF Stands
  <2> QED
    BY <2>3, RunSpells DEF Spells
<1>6. CASE p # -1
  <2>1. PICK ls : ls = [j \in 1 .. n + 1 |-> IF j = 1 THEN p ELSE v]
    OBVIOUS
  <2>2. /\ ls \in Seq(Lens) /\ Len(ls) = n + 1 /\ ls[1] = p
        /\ \A j \in 1 + 1 .. 1 + n : ls[j] = v
    BY <1>4, <1>6, <2>1
  <2>3. 1 + n <= n + 1 /\ 1 > 0
    BY <1>4
  <2>4. Stands(r, ls, 1)
    BY <1>1, <1>2, <1>3, <2>2, <2>3 DEF Stands
  <2> QED
    BY <2>4, RunSpells DEF Spells
<1> QED
  BY <1>5, <1>6

\* The symbols of one code
OfCode(c) == {x \in Told : x.code = c}

Counts(f, z) ==
  /\ f \in [BlSymbols -> Nat]
  /\ \A c \in BlSymbols : f[c] = Cardinality(Hits(z, OfCode(c)))

LEMMA RunCounts ==
  ASSUME SymbolsAssumption, LensAssumption, NEW r, IsRun(r), NEW c \in BlSymbols
  PROVE  Scanned(r, c) = Cardinality(Hits(SentRun(r), OfCode(c))) /\ Scanned(r, c) \in Nat
<1>1. PICK n : n = r.count
  OBVIOUS
<1>2. PICK v : v = r.len
  OBVIOUS
<1>3. n \in Nat /\ v \in Lens /\ v # REP /\ v # REPZ /\ v # REPZ_LONG
  BY <1>1, <1>2, Kinds DEF IsRun
<1>4. ASSUME NEW x \in Told, NEW b, x.code = b, SentRun(r) = <<x>>,
             Scanned(r, c) = IF c = b THEN 1 ELSE 0
      PROVE  Scanned(r, c) = Cardinality(Hits(SentRun(r), OfCode(c))) /\ Scanned(r, c) \in Nat
  <2>1. x \in OfCode(c) <=> c = b
    BY <1>4 DEF OfCode
  <2> QED
    BY <1>4, <2>1, HitsOne
<1>5. CASE SentFew(r)
  <2>1. SentRun(r) = [i \in 1 .. n |-> Code(v)] /\ r.count < r.min
    BY <1>1, <1>2, <1>5 DEF SentFew
  <2>2. Scanned(r, c) = IF c = v THEN n ELSE 0
    BY <1>1, <1>2, <2>1 DEF Scanned
  <2>3. Code(v) \in OfCode(c) <=> c = v
    BY <1>3, ToldIs DEF OfCode, Code
  <2>4. Hits(SentRun(r), OfCode(c)) = IF c = v THEN 1 .. n ELSE {}
    BY <2>1, <2>3 DEF Hits
  <2>5. Cardinality(1 .. n) = n /\ Cardinality({}) = 0
    <3>1. Cardinality(1 .. n) = IF 1 > n THEN 0 ELSE n - 1 + 1
      BY <1>3, FS_Interval
    <3> QED
      BY <1>3, <3>1, FS_EmptySet
  <2> QED
    BY <1>3, <2>2, <2>4, <2>5
<1>6. ASSUME NEW e, SentFirst(r, e)
      PROVE  Scanned(r, c) = Cardinality(Hits(SentRun(r), OfCode(c))) /\ Scanned(r, c) \in Nat
  <2>1. PICK x : x = Code(v)
    OBVIOUS
  <2>2. PICK y : y = Repeat(REP, e)
    OBVIOUS
  <2>3. x \in Told /\ x.code = v /\ y \in Told /\ y.code = REP /\ SentRun(r) = <<x, y>>
    BY <1>2, <1>3, <1>6, <2>1, <2>2, ToldIs DEF SentFirst, Code, Repeat
  <2>4. Scanned(r, c) = IF c = REP \/ c = v THEN 1 ELSE 0
    BY <1>2, <1>6 DEF SentFirst, Scanned
  <2>5. <<x, y>> = <<x>> \o <<y>> /\ <<x>> \in Seq(Told) /\ <<y>> \in Seq(Told)
    BY <2>3, Pair
  <2>6. Cardinality(Hits(<<x>> \o <<y>>, OfCode(c)))
          = Cardinality(Hits(<<x>>, OfCode(c))) + Cardinality(Hits(<<y>>, OfCode(c)))
    <3>1. PICK u : u = <<x>>
      OBVIOUS
    <3>2. PICK w : w = <<y>>
      OBVIOUS
    <3>3. u \in Seq(Told) /\ w \in Seq(Told)
      BY <2>5, <3>1, <3>2
    <3>4. Cardinality(Hits(u \o w, OfCode(c)))
            = Cardinality(Hits(u, OfCode(c))) + Cardinality(Hits(w, OfCode(c)))
      BY <3>3, HitsConcat
    <3> QED
      BY <3>1, <3>2, <3>4
  <2>7. Cardinality(Hits(<<x>>, OfCode(c))) = IF c = v THEN 1 ELSE 0
    <3>1. x \in OfCode(c) <=> c = v
      BY <2>3 DEF OfCode
    <3> QED
      BY <3>1, HitsOne
  <2>8. Cardinality(Hits(<<y>>, OfCode(c))) = IF c = REP THEN 1 ELSE 0
    <3>1. y \in OfCode(c) <=> c = REP
      BY <2>3 DEF OfCode
    <3> QED
      BY <3>1, HitsOne
  <2>9. Cardinality(Hits(SentRun(r), OfCode(c)))
          = (IF c = v THEN 1 ELSE 0) + (IF c = REP THEN 1 ELSE 0)
    BY <2>3, <2>5, <2>6, <2>7, <2>8
  <2> QED
    BY <1>3, <2>4, <2>9
<1>7. ASSUME NEW e, SentMore(r, e)
      PROVE  Scanned(r, c) = Cardinality(Hits(SentRun(r), OfCode(c))) /\ Scanned(r, c) \in Nat
  <2>1. Repeat(REP, e) \in Told /\ Repeat(REP, e).code = REP /\ SentRun(r) = <<Repeat(REP, e)>>
    BY <1>7, ToldIs DEF SentMore, Repeat
  <2>2. Scanned(r, c) = IF c = REP THEN 1 ELSE 0
    BY <1>7 DEF SentMore, Scanned
  <2> QED
    BY <1>4, <2>1, <2>2
<1>8. ASSUME NEW e, SentZeros(r, e)
      PROVE  Scanned(r, c) = Cardinality(Hits(SentRun(r), OfCode(c))) /\ Scanned(r, c) \in Nat
  <2>1. Repeat(REPZ, e) \in Told /\ Repeat(REPZ, e).code = REPZ /\ SentRun(r) = <<Repeat(REPZ, e)>>
    BY <1>8, ToldIs DEF SentZeros, Repeat
  <2>2. Scanned(r, c) = IF c = REPZ THEN 1 ELSE 0
    BY <1>8 DEF SentZeros, Scanned
  <2> QED
    BY <1>4, <2>1, <2>2
<1>9. ASSUME NEW e, SentMany(r, e)
      PROVE  Scanned(r, c) = Cardinality(Hits(SentRun(r), OfCode(c))) /\ Scanned(r, c) \in Nat
  <2>1. Repeat(REPZ_LONG, e) \in Told /\ Repeat(REPZ_LONG, e).code = REPZ_LONG
        /\ SentRun(r) = <<Repeat(REPZ_LONG, e)>>
    BY <1>9, ToldIs DEF SentMany, Repeat
  <2>2. Scanned(r, c) = IF c = REPZ_LONG THEN 1 ELSE 0
    BY <1>9 DEF SentMany, Scanned
  <2> QED
    BY <1>4, <2>1, <2>2
<1> QED
  BY <1>5, <1>6, <1>7, <1>8, <1>9, RunCases

\* One more run
LEMMA CountsMore ==
  ASSUME SymbolsAssumption, LensAssumption, NEW r, IsRun(r),
         NEW f, NEW z \in Seq(Told), Counts(f, z), SentRun(r) \in Seq(Told)
  PROVE  Counts(Counted(f, r), z \o SentRun(r))
<1>1. PICK s : s = SentRun(r)
  OBVIOUS
<1>2. ASSUME NEW c \in BlSymbols
      PROVE  /\ f[c] + Scanned(r, c) \in Nat
             /\ f[c] + Scanned(r, c) = Cardinality(Hits(z \o s, OfCode(c)))
  <2>1. Scanned(r, c) = Cardinality(Hits(s, OfCode(c))) /\ Scanned(r, c) \in Nat
    BY <1>1, RunCounts
  <2>2. f[c] \in Nat /\ f[c] = Cardinality(Hits(z, OfCode(c)))
    BY DEF Counts
  <2>3. Cardinality(Hits(z \o s, OfCode(c)))
          = Cardinality(Hits(z, OfCode(c))) + Cardinality(Hits(s, OfCode(c)))
    BY <1>1, HitsConcat
  <2> QED
    BY <2>1, <2>2, <2>3
<1>3. Counted(f, r) \in [BlSymbols -> Nat]
  BY <1>2 DEF Counted
<1>4. \A c \in BlSymbols : Counted(f, r)[c] = f[c] + Scanned(r, c)
  BY DEF Counted
<1> QED
  BY <1>1, <1>2, <1>3, <1>4 DEF Counts

----------------------------------------------------------------------------
(***************************************************************************)
(* The walk over a tree's lengths: how it cuts them into runs.             *)
(***************************************************************************)

IsTree(t) == t \in Seq(Lens) /\ Len(t) > 0

WalkState == [count : Nat, prevlen : Int, lim : [max : Int, min : Int]]

WalkStart(t) == [count |-> 0, prevlen |-> -1, lim |-> Limits(-1, t[1])]

WalkStep(t, s, n) ==
  IF Continues(t, s, n) THEN [s EXCEPT !.count = s.count + 1]
  ELSE [count |-> 0, prevlen |-> t[n], lim |-> Limits(t[n], nextlen(t, n))]

Walks(t, w) ==
  /\ w \in [0 .. Len(t) -> WalkState] /\ w[0] = WalkStart(t)
  /\ \A n \in 1 .. Len(t) : w[n] = WalkStep(t, w[n - 1], n)

LEMMA LimitsAre ==
  ASSUME SymbolsAssumption, NEW c, NEW d
  PROVE  Limits(c, d) \in [max : Int, min : Int] /\ Limits(c, d).max > 0
<1>1. PICK r, z, l : Caps(r, z, l)
  BY CapsAre
<1>2. RepMax \in Nat /\ RepMax > 0 /\ LongMax \in Nat /\ LongMax > 0
  BY <1>1 DEF Caps
<1> QED
  BY <1>2 DEF Limits

LEMMA WalkIs ==
  ASSUME SymbolsAssumption, LensAssumption, NEW t, IsTree(t)
  PROVE  Walks(t, Walk(t))
<1> DEFINE N == Len(t)
           Is(w) == w = [n \in 0 .. Len(t) |->
                           IF n = 0 THEN [count |-> 0, prevlen |-> -1, lim |-> Limits(-1, t[1])]
                           ELSE IF Continues(t, w[n - 1], n)
                                THEN [w[n - 1] EXCEPT !.count = w[n - 1].count + 1]
                           ELSE [count |-> 0, prevlen |-> t[n],
                                 lim |-> Limits(t[n], nextlen(t, n))]]
           F == [x \in (1 .. N) \X WalkState |-> WalkStep(t, x[2], x[1])]
<1>1. N \in Nat /\ \A n \in 1 .. N : t[n] \in Int
  BY Kinds DEF IsTree
<1>2. WalkStart(t) \in WalkState
  BY LimitsAre DEF WalkStart, WalkState
<1>3. ASSUME NEW n \in 1 .. N, NEW s \in WalkState PROVE WalkStep(t, s, n) \in WalkState
  <2>1. [s EXCEPT !.count = s.count + 1] \in WalkState
    BY DEF WalkState
  <2>2. [count |-> 0, prevlen |-> t[n], lim |-> Limits(t[n], nextlen(t, n))] \in WalkState
    BY <1>1, LimitsAre DEF WalkState
  <2> QED
    BY <2>1, <2>2 DEF WalkStep
<1>4. F \in [(1 .. N) \X WalkState -> WalkState]
  BY <1>3
<1>5. \A n \in 1 .. N, s \in WalkState : F[<<n, s>>] = WalkStep(t, s, n)
  OBVIOUS
<1>6. Walk(t) = (CHOOSE w : Is(w))
  BY DEF Walk
<1> HIDE DEF N, F
<1>7. PICK w \in [0 .. N -> WalkState] : IsFold(w, N, F, WalkStart(t))
  BY <1>1, <1>2, <1>4, FoldExists
<1>8. w[0] = WalkStart(t) /\ \A n \in 1 .. N : w[n] = WalkStep(t, w[n - 1], n)
  <2>1. \A n \in 1 .. N : n - 1 \in 0 .. N
    BY <1>1
  <2> QED
    BY <1>5, <1>7, <2>1 DEF IsFold
<1>9. Is(w)
  <2>1. ASSUME NEW n \in 0 .. N
        PROVE  w[n] = IF n = 0 THEN [count |-> 0, prevlen |-> -1, lim |-> Limits(-1, t[1])]
                      ELSE IF Continues(t, w[n - 1], n)
                           THEN [w[n - 1] EXCEPT !.count = w[n - 1].count + 1]
                      ELSE [count |-> 0, prevlen |-> t[n],
                            lim |-> Limits(t[n], nextlen(t, n))]
    <3>1. CASE n = 0
      BY <1>8, <3>1 DEF WalkStart
    <3>2. CASE n # 0
      <4>1. n \in 1 .. N
        BY <1>1, <3>2
      <4> QED
        BY <1>8, <3>2, <4>1 DEF WalkStep
    <3> QED
      BY <3>1, <3>2
  <2>2. w = [n \in 0 .. N |-> w[n]]
    OBVIOUS
  <2> QED
    BY <2>1, <2>2, Zenon DEF N
<1> DEFINE v == CHOOSE u : Is(u)
<1>10. Is(v)
  BY <1>9, Zenon
<1> HIDE DEF v
<1>11. On(v, N) /\ \A n \in 0 .. N :
         v[n] = IF n = 0 THEN [count |-> 0, prevlen |-> -1, lim |-> Limits(-1, t[1])]
                ELSE IF Continues(t, v[n - 1], n)
                     THEN [v[n - 1] EXCEPT !.count = v[n - 1].count + 1]
                ELSE [count |-> 0, prevlen |-> t[n],
                      lim |-> Limits(t[n], nextlen(t, n))]
  BY <1>10 DEF On, N
<1> HIDE DEF Is
<1>12. v[0] = WalkStart(t) /\ \A n \in 1 .. N : v[n] = WalkStep(t, v[n - 1], n)
  <2>1. 0 \in 0 .. N /\ \A n \in 1 .. N : n \in 0 .. N /\ n # 0
    BY <1>1
  <2> QED
    BY <1>11, <2>1 DEF WalkStart, WalkStep
<1>13. Folding(WalkState, WalkStart(t), N, F, v)
  <2>1. \A n \in 1 .. N : v[n - 1] \in WalkState => v[n] = F[<<n, v[n - 1]>>]
    BY <1>5, <1>12
  <2> QED
    BY <1>1, <1>2, <1>4, <1>11, <1>12, <2>1 DEF Folding
<1>14. v \in [0 .. N -> WalkState]
  BY <1>13, Folded
<1> QED
  BY <1>6, <1>12, <1>14 DEF Walks, v, N

\* k lengths on: those that wait are equal to the one that comes next.
Waits(t, k, s) ==
  /\ s.count <= k /\ s.count < s.lim.max
  /\ s.lim = Limits(s.prevlen, nextlen(t, k))
  /\ s.prevlen = IF s.count = k THEN -1 ELSE t[k - s.count]
  /\ \A j \in k - s.count + 1 .. k : t[j] = nextlen(t, k)

LEMMA WaitsStart ==
  ASSUME SymbolsAssumption, NEW t, IsTree(t)
  PROVE  Waits(t, 0, WalkStart(t))
<1>1. nextlen(t, 0) = t[1]
  BY DEF nextlen, IsTree
<1>2. Limits(-1, t[1]).max > 0
  BY LimitsAre
<1> QED
  BY <1>1, <1>2 DEF Waits, WalkStart

LEMMA WaitsStep ==
  ASSUME SymbolsAssumption, LensAssumption, NEW t, IsTree(t), NEW k \in Nat, k + 1 <= Len(t),
         NEW s \in WalkState, Waits(t, k, s)
  PROVE  Waits(t, k + 1, WalkStep(t, s, k + 1))
<1>1. PICK m : m = k + 1
  OBVIOUS
<1>2. m \in Nat /\ m = k + 1 /\ s.count \in Nat
  BY <1>1 DEF WalkState
<1>3. nextlen(t, k) = t[m]
  <2>1. k # Len(t)
    BY DEF IsTree
  <2> QED
    BY <1>1, <2>1 DEF nextlen
<1>4. CASE Continues(t, s, m)
  <2>1. PICK u : u = [s EXCEPT !.count = s.count + 1]
    OBVIOUS
  <2>2. u.count = s.count + 1 /\ u.prevlen = s.prevlen /\ u.lim = s.lim
    BY <2>1 DEF WalkState
  <2>3. t[m] = nextlen(t, m) /\ u.count < u.lim.max
    BY <1>4, <2>2 DEF Continues
  <2>4. u.lim = Limits(u.prevlen, nextlen(t, m))
    BY <1>3, <2>2, <2>3 DEF Waits
  <2>5. u.count <= m /\ (u.count = m <=> s.count = k) /\ m - u.count = k - s.count
    BY <1>2, <2>2 DEF Waits
  <2>6. u.prevlen = IF u.count = m THEN -1 ELSE t[m - u.count]
    BY <2>2, <2>5 DEF Waits
  <2>7. \A j \in m - u.count + 1 .. m : t[j] = nextlen(t, m)
    <3> TAKE j \in m - u.count + 1 .. m
    <3>1. CASE j = m
      BY <2>3, <3>1
    <3>2. CASE j # m
      <4>1. j \in k - s.count + 1 .. k
        BY <1>2, <2>2, <2>5, <3>2
      <4> QED
        BY <1>3, <2>3, <4>1 DEF Waits
    <3> QED
      BY <3>1, <3>2
  <2>8. Waits(t, m, u)
    BY <2>3, <2>4, <2>5, <2>6, <2>7 DEF Waits
  <2>9. WalkStep(t, s, m) = u
    BY <1>4, <2>1 DEF WalkStep
  <2> QED
    BY <1>1, <2>8, <2>9
<1>5. CASE ~Continues(t, s, m)
  <2>1. PICK u : u = [count |-> 0, prevlen |-> t[m], lim |-> Limits(t[m], nextlen(t, m))]
    OBVIOUS
  <2>2. u.count = 0 /\ u.prevlen = t[m] /\ u.lim = Limits(t[m], nextlen(t, m))
    BY <2>1
  <2>3. u.lim.max > 0 /\ u.lim \in [max : Int, min : Int]
    BY <2>2, LimitsAre
  <2>4. m # 0 /\ m - 0 = m /\ 0 <= m /\ m - 0 + 1 = m + 1 /\ \A j \in m + 1 .. m : FALSE
    BY <1>2
  <2>5. 0 < u.lim.max
    BY <2>3
  <2>6. Waits(t, m, u)
    BY <2>2, <2>4, <2>5 DEF Waits
  <2>7. WalkStep(t, s, m) = u
    BY <1>5, <2>1 DEF WalkStep
  <2> QED
    BY <1>1, <2>6, <2>7
<1> QED
  BY <1>4, <1>5

LEMMA WaitsAlways ==
  ASSUME SymbolsAssumption, LensAssumption, NEW t, IsTree(t), NEW w, Walks(t, w)
  PROVE  \A k \in 0 .. Len(t) : Waits(t, k, w[k])
<1> DEFINE G == {k \in Nat : k <= Len(t) => Waits(t, k, w[k])}
<1>0. Len(t) \in Nat
  BY DEF IsTree
<1>1. 0 \in G
  BY WaitsStart DEF Walks
<1>2. ASSUME NEW k \in G PROVE k + 1 \in G
  <2>1. CASE k + 1 <= Len(t)
    <3>1. k + 1 \in 1 .. Len(t) /\ (k + 1) - 1 = k /\ k \in 0 .. Len(t) /\ k \in Nat
      BY <1>0, <2>1
    <3>2. w[k + 1] = WalkStep(t, w[k], k + 1) /\ w[k] \in WalkState
      BY <3>1 DEF Walks
    <3>3. Waits(t, k, w[k])
      BY <1>0, <3>1
    <3>4. Waits(t, k + 1, WalkStep(t, w[k], k + 1))
      BY <2>1, <3>1, <3>2, <3>3, WaitsStep
    <3> QED
      BY <3>1, <3>2, <3>4
  <2>2. CASE ~(k + 1 <= Len(t))
    BY <2>2
  <2> QED
    BY <2>1, <2>2
<1>3. G = Nat
  <2>1. G \in SUBSET Nat
    OBVIOUS
  <2> HIDE DEF G
  <2> QED
    BY <1>1, <1>2, <2>1, Induct
<1> QED
  BY <1>0, <1>3

\* The run that ends with length n, whether it is coded then or goes on.
RunIs(t, n, r) ==
  /\ IsRun(r) /\ r.len = t[n] /\ r.count <= n
  /\ \A j \in n - r.count + 1 .. n : t[j] = r.len
  /\ r.prevlen = IF r.count = n THEN -1 ELSE t[n - r.count]

LEMMA RunFound ==
  ASSUME SymbolsAssumption, LensAssumption, NEW t, IsTree(t), NEW w, Walks(t, w),
         NEW n \in 1 .. Len(t)
  PROVE  RunIs(t, n, RunTo(t, w[n - 1], n)) /\ RunTo(t, w[n - 1], n).count = w[n - 1].count + 1
<1>1. PICK k : k = n - 1
  OBVIOUS
<1>2. PICK s : s = w[k]
  OBVIOUS
<1>3. k \in 0 .. Len(t) /\ k \in Nat /\ n = k + 1 /\ k # Len(t) /\ Len(t) \in Nat
  BY <1>1 DEF IsTree
<1>4. s \in WalkState /\ Waits(t, k, s)
  BY <1>2, <1>3, WaitsAlways DEF Walks
<1>5. nextlen(t, k) = t[n]
  BY <1>3 DEF nextlen
<1>6. PICK r : r = RunTo(t, s, n)
  OBVIOUS
<1>7. r.len = t[n] /\ r.count = s.count + 1 /\ r.min = s.lim.min /\ r.prevlen = s.prevlen
  BY <1>6 DEF RunTo
<1>8. PICK c : c = s.count
  OBVIOUS
<1>9. PICK p : p = s.prevlen
  OBVIOUS
<1>10. PICK m : m = s.lim.max
  OBVIOUS
<1>11. PICK d : d = r.count
  OBVIOUS
<1>12. PICK l : l = Len(t)
  OBVIOUS
<1>13. c \in Nat /\ m \in Int
  BY <1>4, <1>8, <1>10 DEF WalkState
<1>14. /\ c <= k /\ c < m /\ s.lim = Limits(p, t[n])
       /\ p = IF c = k THEN -1 ELSE t[k - c]
  BY <1>4, <1>5, <1>8, <1>9, <1>10 DEF Waits
<1>15. \A j \in k - c + 1 .. k : t[j] = t[n]
  BY <1>4, <1>5, <1>8 DEF Waits
<1>16. \A j \in 1 .. l : t[j] \in Lens
  BY <1>12 DEF IsTree
<1>17. k \in Nat /\ l \in Nat /\ n \in 1 .. l /\ n = k + 1
  BY <1>3, <1>12
<1>18. p \in Lens \cup {-1}
  <2>1. CASE c = k
    BY <1>14, <2>1
  <2>2. CASE c # k
    <3>1. k - c \in 1 .. l
      BY <1>13, <1>14, <1>17, <2>2
    <3> QED
      BY <1>14, <1>16, <2>2, <3>1
  <2> QED
    BY <2>1, <2>2
<1>19. d = c + 1
  BY <1>7, <1>8, <1>11
<1>20. d \in Nat /\ d > 0 /\ d <= m /\ d <= n /\ (d = n <=> c = k) /\ n - d = k - c
  BY <1>13, <1>14, <1>17, <1>19
<1>21. IsRun(r)
  <2>1. r.len \in Lens
    BY <1>7, <1>16, <1>17
  <2>2. Limits(r.prevlen, r.len) = s.lim /\ r.prevlen = p
    BY <1>7, <1>9, <1>14
  <2>3. r.count <= s.lim.max
    BY <1>10, <1>11, <1>20
  <2> QED
    BY <1>7, <1>11, <1>18, <1>20, <2>1, <2>2, <2>3 DEF IsRun
<1>22. \A j \in n - d + 1 .. n : t[j] = r.len
  <2> TAKE j \in n - d + 1 .. n
  <2>1. CASE j = n
    BY <1>7, <2>1
  <2>2. CASE j # n
    <3>1. j \in k - c + 1 .. k
      BY <1>13, <1>17, <1>20, <2>2
    <3> QED
      BY <1>7, <1>15, <3>1
  <2> QED
    BY <2>1, <2>2
<1>23. p = IF d = n THEN -1 ELSE t[n - d]
  BY <1>14, <1>20
<1>24. RunIs(t, n, r)
  <2>1. r.prevlen = p /\ r.count = d /\ r.len = t[n]
    BY <1>7, <1>9, <1>11
  <2> QED
    BY <1>20, <1>21, <1>22, <1>23, <2>1 DEF RunIs
<1> QED
  BY <1>1, <1>2, <1>6, <1>7, <1>24

----------------------------------------------------------------------------
(***************************************************************************)
(* scan_tree() and send_tree() over a whole tree.                          *)
(***************************************************************************)

\* The two take the same steps beside the walk w.
Scans(t, w, f, g) ==
  /\ g[0] = f
  /\ \A n \in 1 .. Len(t) :
       g[n] = IF Continues(t, w[n - 1], n) THEN g[n - 1]
              ELSE Counted(g[n - 1], RunTo(t, w[n - 1], n))

Sends(t, w, z, g) ==
  /\ g[0] = z
  /\ \A n \in 1 .. Len(t) :
       g[n] = IF Continues(t, w[n - 1], n) THEN g[n - 1]
              ELSE g[n - 1] \o SentRun(RunTo(t, w[n - 1], n))

LEMMA ScanIs ==
  ASSUME SymbolsAssumption, LensAssumption, NEW t, IsTree(t), NEW f \in [BlSymbols -> Nat]
  PROVE  \E g : Scans(t, Walk(t), f, g) /\ scan_tree(f, t) = g[Len(t)]
<1> DEFINE N == Len(t)
           w == Walk(t)
           Y == [BlSymbols -> Nat]
           Is(g) == g = [n \in 0 .. Len(t) |->
                           IF n = 0 THEN f
                           ELSE IF Continues(t, Walk(t)[n - 1], n) THEN g[n - 1]
                           ELSE Counted(g[n - 1], RunTo(t, Walk(t)[n - 1], n))]
           F == [x \in (1 .. N) \X Y |->
                   IF Continues(t, w[x[1] - 1], x[1]) THEN x[2]
                   ELSE Counted(x[2], RunTo(t, w[x[1] - 1], x[1]))]
<1>1. N \in Nat /\ Walks(t, w)
  BY WalkIs DEF IsTree
<1>2. ASSUME NEW n \in 1 .. N, NEW y \in Y
      PROVE  Counted(y, RunTo(t, w[n - 1], n)) \in Y
  <2>1. PICK r : r = RunTo(t, w[n - 1], n)
    OBVIOUS
  <2>2. IsRun(r)
    BY <1>1, <2>1, RunFound DEF RunIs
  <2>3. \A c \in BlSymbols : Scanned(r, c) \in Nat
    BY <2>2, RunCounts
  <2>4. \A c \in BlSymbols : y[c] + Scanned(r, c) \in Nat
    BY <2>3
  <2> QED
    BY <2>1, <2>4 DEF Counted
<1>3. F \in [(1 .. N) \X Y -> Y]
  BY <1>2
<1>4. \A n \in 1 .. N, y \in Y :
        F[<<n, y>>] = IF Continues(t, w[n - 1], n) THEN y
                      ELSE Counted(y, RunTo(t, w[n - 1], n))
  OBVIOUS
<1>5. scan_tree(f, t) = (CHOOSE g : Is(g))[Len(t)]
  BY DEF scan_tree
<1> HIDE DEF F
<1>6. PICK g \in [0 .. N -> Y] : IsFold(g, N, F, f)
  <2>1. f \in Y
    OBVIOUS
  <2> HIDE DEF N, Y
  <2> QED
    BY <1>1, <1>3, <2>1, FoldExists
<1>7. \A n \in 1 .. N : g[n] = IF Continues(t, w[n - 1], n) THEN g[n - 1]
                               ELSE Counted(g[n - 1], RunTo(t, w[n - 1], n))
  <2>1. \A n \in 1 .. N : n - 1 \in 0 .. N
    BY <1>1
  <2> HIDE DEF N, Y, w
  <2> QED
    BY <1>4, <1>6, <2>1 DEF IsFold
<1>8. Is(g)
  <2>1. ASSUME NEW n \in 0 .. N
        PROVE  g[n] = IF n = 0 THEN f
                      ELSE IF Continues(t, w[n - 1], n) THEN g[n - 1]
                      ELSE Counted(g[n - 1], RunTo(t, w[n - 1], n))
    <3>1. CASE n = 0
      BY <1>6, <3>1 DEF IsFold
    <3>2. CASE n # 0
      <4>1. n \in 1 .. N
        BY <1>1, <3>2
      <4> HIDE DEF w, N, Y
      <4> QED
        BY <1>7, <3>2, <4>1
    <3> QED
      BY <3>1, <3>2
  <2>2. g = [n \in 0 .. N |-> g[n]]
    OBVIOUS
  <2> QED
    BY <2>1, <2>2, Zenon
<1> DEFINE v == CHOOSE u : Is(u)
<1>9. Is(v)
  BY <1>8, Zenon
<1> HIDE DEF v
<1>10. \A n \in 0 .. N : v[n] = IF n = 0 THEN f
                                ELSE IF Continues(t, w[n - 1], n) THEN v[n - 1]
                                ELSE Counted(v[n - 1], RunTo(t, w[n - 1], n))
  BY <1>9
<1>11. Scans(t, w, f, v)
  <2>1. 0 \in 0 .. N /\ \A n \in 1 .. N : n \in 0 .. N /\ n # 0
    BY <1>1
  <2> HIDE DEF w, Is
  <2> QED
    BY <1>10, <2>1 DEF Scans
<1> QED
  BY <1>5, <1>11 DEF v

LEMMA SendIs ==
  ASSUME SymbolsAssumption, LensAssumption, NEW t, IsTree(t), NEW z \in Seq(Told)
  PROVE  \E g : Sends(t, Walk(t), z, g) /\ send_tree(z, t) = g[Len(t)]
<1> DEFINE N == Len(t)
           w == Walk(t)
           Y == Seq(Told)
           Is(g) == g = [n \in 0 .. Len(t) |->
                           IF n = 0 THEN z
                           ELSE IF Continues(t, Walk(t)[n - 1], n) THEN g[n - 1]
                           ELSE g[n - 1] \o SentRun(RunTo(t, Walk(t)[n - 1], n))]
           F == [x \in (1 .. N) \X Y |->
                   IF Continues(t, w[x[1] - 1], x[1]) THEN x[2]
                   ELSE x[2] \o SentRun(RunTo(t, w[x[1] - 1], x[1]))]
<1>1. N \in Nat /\ Walks(t, w)
  BY WalkIs DEF IsTree
<1>2. ASSUME NEW n \in 1 .. N, NEW y \in Y
      PROVE  y \o SentRun(RunTo(t, w[n - 1], n)) \in Y
  <2>1. PICK r : r = RunTo(t, w[n - 1], n)
    OBVIOUS
  <2>2. IsRun(r)
    BY <1>1, <2>1, RunFound DEF RunIs
  <2>3. SentRun(r) \in Seq(Told)
    BY <2>2, RunSent
  <2> QED
    BY <2>1, <2>3, Concat
<1>3. F \in [(1 .. N) \X Y -> Y]
  BY <1>2
<1>4. \A n \in 1 .. N, y \in Y :
        F[<<n, y>>] = IF Continues(t, w[n - 1], n) THEN y
                      ELSE y \o SentRun(RunTo(t, w[n - 1], n))
  OBVIOUS
<1>5. send_tree(z, t) = (CHOOSE g : Is(g))[Len(t)]
  BY DEF send_tree
<1> HIDE DEF F
<1>6. PICK g \in [0 .. N -> Y] : IsFold(g, N, F, z)
  <2>1. z \in Y
    OBVIOUS
  <2> HIDE DEF N, Y
  <2> QED
    BY <1>1, <1>3, <2>1, FoldExists
<1>7. \A n \in 1 .. N : g[n] = IF Continues(t, w[n - 1], n) THEN g[n - 1]
                               ELSE g[n - 1] \o SentRun(RunTo(t, w[n - 1], n))
  <2>1. \A n \in 1 .. N : n - 1 \in 0 .. N
    BY <1>1
  <2> HIDE DEF N, Y, w
  <2> QED
    BY <1>4, <1>6, <2>1 DEF IsFold
<1>8. Is(g)
  <2>1. ASSUME NEW n \in 0 .. N
        PROVE  g[n] = IF n = 0 THEN z
                      ELSE IF Continues(t, w[n - 1], n) THEN g[n - 1]
                      ELSE g[n - 1] \o SentRun(RunTo(t, w[n - 1], n))
    <3>1. CASE n = 0
      BY <1>6, <3>1 DEF IsFold
    <3>2. CASE n # 0
      <4>1. n \in 1 .. N
        BY <1>1, <3>2
      <4> HIDE DEF w, N, Y
      <4> QED
        BY <1>7, <3>2, <4>1
    <3> QED
      BY <3>1, <3>2
  <2>2. g = [n \in 0 .. N |-> g[n]]
    OBVIOUS
  <2> QED
    BY <2>1, <2>2, Zenon
<1> DEFINE v == CHOOSE u : Is(u)
<1>9. Is(v)
  BY <1>8, Zenon
<1> HIDE DEF v
<1>10. \A n \in 0 .. N : v[n] = IF n = 0 THEN z
                                ELSE IF Continues(t, w[n - 1], n) THEN v[n - 1]
                                ELSE v[n - 1] \o SentRun(RunTo(t, w[n - 1], n))
  BY <1>9
<1>11. Sends(t, w, z, v)
  <2>1. 0 \in 0 .. N /\ \A n \in 1 .. N : n \in 0 .. N /\ n # 0
    BY <1>1
  <2> HIDE DEF w, Is
  <2> QED
    BY <1>10, <2>1 DEF Sends
<1> QED
  BY <1>5, <1>11 DEF v

\* What follows the place b in ls is the tree t.
Holds(ls, b, t) == b \in Nat /\ b + Len(t) <= Len(ls) /\ \A j \in 1 .. Len(t) : ls[b + j] = t[j]

LEMMA RunStands ==
  ASSUME LensAssumption, NEW t, IsTree(t), NEW n \in 1 .. Len(t), NEW r, RunIs(t, n, r),
         NEW ls, NEW b, Holds(ls, b, t), Len(ls) \in Nat, NEW o, o + r.count = b + n, o \in Nat
  PROVE  Stands(r, ls, o)
<1>1. PICK c : c = r.count
  OBVIOUS
<1>2. PICK l : l = Len(t)
  OBVIOUS
<1>3. PICK L : L = Len(ls)
  OBVIOUS
<1>4. /\ c \in Nat /\ c > 0 /\ c <= n /\ o + c = b + n /\ l \in Nat /\ n \in Nat /\ n <= l
      /\ b \in Nat /\ b + l <= L /\ L \in Nat
  BY <1>1, <1>2, <1>3 DEF RunIs, IsRun, Holds, IsTree
<1>5. \A j \in 1 .. l : ls[b + j] = t[j]
  BY <1>2 DEF Holds
<1>6. \A j \in n - c + 1 .. n : t[j] = r.len
  BY <1>1 DEF RunIs
<1>7. \A j \in o + 1 .. o + c : ls[j] = r.len
  <2> TAKE j \in o + 1 .. o + c
  <2>1. j - b \in n - c + 1 .. n /\ j - b \in 1 .. l /\ b + (j - b) = j
    BY <1>4
  <2>2. ls[b + (j - b)] = t[j - b]
    BY <1>5, <2>1
  <2>3. t[j - b] = r.len
    BY <1>6, <2>1
  <2> QED
    BY <2>1, <2>2, <2>3
<1>8. o + c <= L
  BY <1>4
<1>9. r.prevlen # -1 => o > 0 /\ ls[o] = r.prevlen
  <2> SUFFICES ASSUME r.prevlen # -1 PROVE o > 0 /\ ls[o] = r.prevlen
    OBVIOUS
  <2>1. c # n /\ r.prevlen = t[n - c]
    BY <1>1 DEF RunIs
  <2>2. n - c \in 1 .. l /\ b + (n - c) = o /\ o > 0
    BY <1>4, <2>1
  <2>3. ls[b + (n - c)] = t[n - c]
    BY <1>5, <2>2
  <2> QED
    BY <2>1, <2>2, <2>3
<1> QED
  BY <1>1, <1>3, <1>7, <1>8, <1>9 DEF Stands

\* Both passes together: what is sent tells the tree, and is what was counted.
LEMMA TreeSent ==
  ASSUME SymbolsAssumption, LensAssumption, NEW t, IsTree(t), NEW ls, Len(ls) \in Nat,
         NEW b, Holds(ls, b, t), NEW z, Spells(z, ls, 0, b), NEW f, Counts(f, z)
  PROVE  /\ Spells(send_tree(z, t), ls, 0, b + Len(t))
         /\ Counts(scan_tree(f, t), send_tree(z, t))
<1>1. PICK w : w = Walk(t)
  OBVIOUS
<1>2. PICK N : N = Len(t)
  OBVIOUS
<1>3. Walks(t, w) /\ N \in Nat /\ b \in Nat /\ N > 0
  BY <1>1, <1>2, WalkIs DEF IsTree, Holds
<1>4. PICK g : Sends(t, w, z, g) /\ send_tree(z, t) = g[N]
  BY <1>1, <1>2, SendIs DEF Spells
<1>5. PICK h : Scans(t, w, f, h) /\ scan_tree(f, t) = h[N]
  BY <1>1, <1>2, ScanIs DEF Counts
<1> DEFINE P(n) == Spells(g[n], ls, 0, b + (n - w[n].count)) /\ Counts(h[n], g[n])
           G == {n \in Nat : n <= N => P(n)}
<1>6. 0 \in G
  <2>1. w[0].count = 0 /\ b + (0 - 0) = b
    BY <1>3 DEF Walks, WalkStart
  <2> QED
    BY <1>4, <1>5, <2>1 DEF Sends, Scans
<1>7. ASSUME NEW k \in G PROVE k + 1 \in G
  <2>1. CASE k + 1 <= N
    <3>1. PICK n : n = k + 1
      OBVIOUS
    <3>2. n \in 1 .. N /\ n - 1 = k /\ k \in 0 .. N /\ k \in Nat /\ n \in Nat /\ n \in 0 .. N
      BY <1>3, <2>1, <3>1
    <3>3. P(k)
      BY <2>1, <3>2
    <3>4. w[n] = WalkStep(t, w[k], n) /\ w[k] \in WalkState /\ w[n] \in WalkState
      BY <1>2, <1>3, <3>2 DEF Walks
    <3>5. CASE Continues(t, w[k], n)
      <4>1. w[n].count = w[k].count + 1
        BY <3>4, <3>5 DEF WalkStep, WalkState
      <4>2. n - w[n].count = k - w[k].count
        <5>1. w[k].count \in Nat
          BY <3>4 DEF WalkState
        <5> QED
          BY <3>1, <3>2, <4>1, <5>1
      <4>3. g[n] = g[k] /\ h[n] = h[k]
        BY <1>2, <1>4, <1>5, <3>2, <3>5 DEF Sends, Scans
      <4> QED
        BY <3>1, <3>2, <3>3, <4>2, <4>3
    <3>6. CASE ~Continues(t, w[k], n)
      <4>1. PICK r : r = RunTo(t, w[k], n)
        OBVIOUS
      <4>2. RunIs(t, n, r) /\ r.count = w[k].count + 1
        BY <1>2, <1>3, <3>2, <4>1, RunFound
      <4>3. g[n] = g[k] \o SentRun(r) /\ h[n] = Counted(h[k], r)
        BY <1>2, <1>4, <1>5, <3>2, <3>6, <4>1 DEF Sends, Scans
      <4>4. PICK o : o = b + (k - w[k].count)
        OBVIOUS
      <4>5. w[n].count = 0 /\ w[k].count \in Nat
        BY <3>4, <3>6 DEF WalkStep, WalkState
      <4>6. w[k].count <= k
        BY <1>2, <1>3, <3>2, WaitsAlways DEF Waits
      <4>7. o \in Nat /\ o + r.count = b + n
        <5>1. PICK c : c = w[k].count
          OBVIOUS
        <5>2. c \in Nat /\ c <= k /\ o = b + (k - c) /\ r.count = c + 1
          BY <4>2, <4>4, <4>5, <4>6, <5>1
        <5>3. b \in Nat /\ k \in Nat /\ n = k + 1
          BY <1>3, <3>1, <3>2
        <5> QED
          BY <5>2, <5>3
      <4>8. Stands(r, ls, o)
        BY <1>2, <3>2, <4>2, <4>7, RunStands
      <4>9. IsRun(r)
        BY <4>2 DEF RunIs
      <4>10. Spells(SentRun(r), ls, o, b + n)
        BY <4>7, <4>8, <4>9, RunSpells
      <4>11. Spells(g[k], ls, 0, o) /\ Counts(h[k], g[k])
        BY <3>3, <4>4
      <4>12. Spells(g[k] \o SentRun(r), ls, 0, b + n)
        BY <4>10, <4>11, SpellsConcat
      <4>13. Counts(Counted(h[k], r), g[k] \o SentRun(r))
        <5>1. g[k] \in Seq(Told) /\ SentRun(r) \in Seq(Told)
          BY <4>10, <4>11 DEF Spells
        <5> QED
          BY <4>9, <4>11, <5>1, CountsMore
      <4>14. n - w[n].count = n
        BY <3>2, <4>5
      <4>15. P(n)
        BY <4>3, <4>12, <4>13, <4>14
      <4> HIDE DEF P
      <4> QED
        BY <3>1, <3>2, <4>15
    <3> QED
      BY <3>5, <3>6
  <2>2. CASE ~(k + 1 <= N)
    BY <2>2
  <2> QED
    BY <2>1, <2>2
<1>8. G = Nat
  <2>1. G \in SUBSET Nat
    OBVIOUS
  <2> HIDE DEF G
  <2> QED
    BY <1>6, <1>7, <2>1, Induct
<1>9. P(N)
  BY <1>3, <1>8
<1>10. w[N].count = 0
  <2>1. N \in 1 .. N
    BY <1>3
  <2>2. w[N] = WalkStep(t, w[N - 1], N)
    BY <1>2, <1>3, <2>1 DEF Walks
  <2>3. t[N] \in Lens
    BY <1>2, <2>1 DEF IsTree
  <2>4. ~Continues(t, w[N - 1], N)
    BY <1>2, <2>3, Kinds DEF Continues, nextlen
  <2> QED
    BY <2>2, <2>4 DEF WalkStep
<1>11. N - w[N].count = N
  BY <1>3, <1>10
<1> QED
  BY <1>2, <1>4, <1>5, <1>9, <1>11

----------------------------------------------------------------------------
(***************************************************************************)
(* The invariant of CodeLengths.  What is left of the stream tells what is *)
(* left of the two trees, taken as one text.                               *)
(***************************************************************************)

Both == ltree \o dtree
All == send_tree(send_tree(<<>>, ltree), dtree)

LTrees ==
  /\ honest \in BOOLEAN
  /\ honest => /\ IsTree(ltree) /\ IsTree(dtree)
               /\ EndCode < Len(ltree) /\ Len(ltree) <= L_CODES /\ Len(dtree) <= D_CODES
               /\ ltree[EndCode + 1] # 0
  /\ ~honest => sent = <<>>

LFilled ==
  /\ have \in Nat /\ lens \in [0 .. L_CODES + D_CODES - 1 -> Lens \cup {-1}]
  /\ \A n \in 0 .. L_CODES + D_CODES - 1 : lens[n] = -1 <=> have <= n

\* The counts announced, and when they are not too many
LSizes ==
  /\ nlen \in Nat /\ ndist \in Nat /\ EndCode < nlen
  /\ nlen <= L_CODES + 1 /\ ndist <= D_CODES + 1
LFits == nlen <= L_CODES /\ ndist <= D_CODES

LTold ==
  honest =>
    /\ nlen = Len(ltree) /\ ndist = Len(dtree)
    /\ Spells(sent, Both, have, Len(Both))
    /\ \A n \in 0 .. have - 1 : lens[n] = Both[n + 1]

LBlSent ==
  honest =>
    \E m \in 4 .. BL_CODES :
      /\ bl_sent = [i \in 1 .. m |-> BlLen(bl_order[i])]
      /\ \A k \in m + 1 .. BL_CODES : BlLen(bl_order[k]) = 0

LIdle == sent = <<>> /\ nlen = 0 /\ ndist = 0 /\ have = 0

LenInv ==
  /\ LTrees /\ LFilled
  /\ \/ mode = "encode" /\ LIdle /\ freq = Zeros
     \/ mode = "send" /\ LIdle /\ honest /\ Counts(freq, All)
     \/ mode = "TABLE" /\ have = 0 /\ LSizes /\ LTold /\ LBlSent
          /\ (honest => Counts(freq, sent))
     \/ mode = "LENLENS" /\ have = 0 /\ LSizes /\ LFits /\ LTold /\ LBlSent
     \/ mode = "CODELENS" /\ LSizes /\ LFits /\ have <= nlen + ndist /\ LTold
          /\ (honest => \A c \in BlSymbols : bl_lens[c] = BlLen(c))
     \/ mode = "done" /\ LSizes /\ LFits /\ have = nlen + ndist /\ LTold
          /\ lens[EndCode] # 0
     \/ mode = "BAD" /\ ~honest /\ LSizes /\ have <= L_CODES + D_CODES

LConsts == LensAssumption /\ OrderAssumption /\ SymbolsAssumption

LEMMA LConstsAre ==
  ASSUME BlockAssumption
  PROVE  /\ LConsts
         /\ L_CODES \in Nat /\ D_CODES \in Nat /\ EndCode \in Nat /\ EndCode < L_CODES
BY DEF BlockAssumption, LConsts, SymbolsAssumption

LEMMA TreeIs ==
  ASSUME LConsts, EndCode \in Nat, NEW least \in Nat, least > 0, NEW most \in Nat,
         NEW t \in Trees(least, most)
  PROVE  IsTree(t) /\ least <= Len(t) /\ Len(t) <= most
<1>1. PICK n \in least .. most : t \in [1 .. n -> Lens]
  BY DEF Trees
<1>2. n \in Nat /\ n > 0 /\ least <= n /\ n <= most
  BY <1>1
<1>3. t \in Seq(Lens) /\ Len(t) = n
  BY <1>1, <1>2
<1> QED
  BY <1>2, <1>3 DEF IsTree

LEMMA LenInit ==
  ASSUME BlockAssumption, Init
  PROVE  LenInv
<1>1. LConsts /\ L_CODES \in Nat /\ D_CODES \in Nat /\ EndCode \in Nat /\ EndCode < L_CODES
  BY LConstsAre
<1>2. /\ freq = Zeros /\ sent = <<>> /\ mode = "encode"
      /\ nlen = 0 /\ ndist = 0 /\ lens = NoLens /\ have = 0 /\ honest \in BOOLEAN
  BY DEF Init
<1>3. LTrees
  <2>1. CASE honest
    <3>1. ltree \in Trees(EndCode + 1, L_CODES) /\ ltree[EndCode + 1] # 0 /\ dtree \in Trees(1, D_CODES)
      BY <2>1 DEF Init, LiteralTrees
    <3>2. EndCode + 1 \in Nat /\ EndCode + 1 > 0
      BY <1>1
    <3>3. IsTree(ltree) /\ EndCode + 1 <= Len(ltree) /\ Len(ltree) <= L_CODES
      BY <1>1, <3>1, <3>2, TreeIs
    <3>4. IsTree(dtree) /\ Len(dtree) <= D_CODES
      BY <1>1, <3>1, TreeIs
    <3>5. EndCode < Len(ltree)
      BY <1>1, <3>3 DEF IsTree
    <3> QED
      BY <1>2, <2>1, <3>1, <3>3, <3>4, <3>5 DEF LTrees
  <2>2. CASE ~honest
    BY <1>2, <2>2 DEF LTrees
  <2> QED
    BY <2>1, <2>2
<1>4. LFilled
  BY <1>1, <1>2 DEF LFilled, NoLens
<1> QED
  BY <1>2, <1>3, <1>4 DEF LenInv, LIdle

\* The text of both trees
LEMMA BothIs ==
  ASSUME LTrees, honest
  PROVE  /\ Both \in Seq(Lens) /\ Len(Both) = Len(ltree) + Len(dtree) /\ Len(Both) \in Nat
         /\ Len(ltree) \in Nat /\ Len(dtree) \in Nat
         /\ Holds(Both, 0, ltree) /\ Holds(Both, Len(ltree), dtree)
<1>1. IsTree(ltree) /\ IsTree(dtree)
  BY DEF LTrees
<1>2. ltree \in Seq(Lens) /\ dtree \in Seq(Lens)
  BY <1>1 DEF IsTree
<1>3. Both \in Seq(Lens) /\ IsConcat(Both, ltree, dtree)
  BY <1>2, Concat DEF Both
<1>4. PICK m : m = Len(ltree)
  OBVIOUS
<1>5. PICK n : n = Len(dtree)
  OBVIOUS
<1>6. /\ m \in Nat /\ n \in Nat /\ Len(Both) = m + n
      /\ \A i \in 1 .. m : Both[i] = ltree[i]
      /\ \A i \in 1 .. n : Both[m + i] = dtree[i]
  BY <1>3, <1>4, <1>5 DEF IsConcat
<1>7. Holds(Both, 0, ltree)
  <2>1. \A i \in 1 .. m : 0 + i = i
    BY <1>6
  <2> QED
    BY <1>4, <1>6, <2>1 DEF Holds
<1>8. Holds(Both, m, dtree)
  BY <1>5, <1>6 DEF Holds
<1> QED
  BY <1>3, <1>4, <1>5, <1>6, <1>7, <1>8

\* The two passes over both trees
LEMMA AllIs ==
  ASSUME LConsts, LTrees, honest
  PROVE  /\ Spells(All, Both, 0, Len(Both))
         /\ Counts(scan_tree(scan_tree(Zeros, ltree), dtree), All)
<1>1. SymbolsAssumption /\ LensAssumption /\ IsTree(ltree) /\ IsTree(dtree)
  BY DEF LConsts, LTrees
<1>2. Counts(Zeros, <<>>)
  <2>1. \A c \in BlSymbols : Cardinality(Hits(<<>>, OfCode(c))) = 0
    BY HitsNone
  <2> QED
    BY <2>1 DEF Counts, Zeros
<1>3. Spells(<<>>, Both, 0, 0)
  BY SpellsNone
<1>4. PICK y : y = send_tree(<<>>, ltree)
  OBVIOUS
<1>5. PICK f : f = scan_tree(Zeros, ltree)
  OBVIOUS
<1>6. Len(Both) \in Nat /\ Holds(Both, 0, ltree) /\ Holds(Both, Len(ltree), dtree)
      /\ Len(ltree) \in Nat /\ 0 + Len(ltree) = Len(ltree) /\ Len(Both) = Len(ltree) + Len(dtree)
  BY BothIs
<1>7. Spells(y, Both, 0, Len(ltree)) /\ Counts(f, y)
  BY <1>1, <1>2, <1>3, <1>4, <1>5, <1>6, TreeSent
<1>8. Spells(send_tree(y, dtree), Both, 0, Len(ltree) + Len(dtree))
      /\ Counts(scan_tree(f, dtree), send_tree(y, dtree))
  BY <1>1, <1>6, <1>7, TreeSent
<1> QED
  BY <1>4, <1>5, <1>6, <1>8 DEF All

LEMMA LastIs ==
  ASSUME LConsts, NEW f, \A c \in BlSymbols : f[c] \in Nat
  PROVE  /\ max_blindex(f) \in 4 .. BL_CODES
         /\ \A k \in max_blindex(f) + 1 .. BL_CODES : f[bl_order[k]] = 0
<1> DEFINE n == BL_CODES
           Q(i) == \A k \in i + 1 .. n : f[bl_order[k]] = 0
           D == {i \in Nat : i >= 4 /\ i <= n /\ Q(i)}
<1>1. n \in Nat /\ n > 4
  BY DEF LConsts, OrderAssumption, BL_CODES
<1>2. n \in D
  BY <1>1
<1>3. PICK i \in D : \A j \in D : i <= j
  <2>1. D \in SUBSET Nat /\ D # {}
    BY <1>2
  <2> HIDE DEF D
  <2> QED
    BY <2>1, Least
<1>4. i \in 4 .. n /\ Q(i) /\ i \in Nat
  BY <1>1
<1>5. i = 4 \/ f[bl_order[i]] # 0
  <2> SUFFICES ASSUME i # 4, f[bl_order[i]] = 0 PROVE FALSE
    OBVIOUS
  <2>1. i - 1 \in Nat /\ i - 1 >= 4 /\ i - 1 <= n
    BY <1>1, <1>4
  <2>2. ASSUME NEW k \in (i - 1) + 1 .. n PROVE f[bl_order[k]] = 0
    <3>1. CASE k = i
      BY <3>1
    <3>2. CASE k # i
      <4>1. k \in i + 1 .. n
        BY <1>1, <1>4, <3>2
      <4> QED
        BY <1>4, <4>1
    <3> QED
      BY <3>1, <3>2
  <2>3. i - 1 \in D
    BY <2>1, <2>2
  <2>4. i <= i - 1
    <3> HIDE DEF D
    <3> QED
      BY <1>3, <2>3
  <2> QED
    BY <1>4, <2>4
<1>6. \E x \in 4 .. BL_CODES :
        /\ x = 4 \/ f[bl_order[x]] # 0
        /\ \A k \in x + 1 .. BL_CODES : f[bl_order[k]] = 0
  BY <1>4, <1>5
<1> QED
  BY <1>6, Zenon DEF max_blindex

----------------------------------------------------------------------------
(***************************************************************************)
(* The steps before the lengths are read.                                  *)
(***************************************************************************)

LEMMA LenBuild ==
  ASSUME LConsts, LenInv, build_bl_tree
  PROVE  LenInv'
<1>1. /\ mode = "encode" /\ honest /\ freq' = scan_tree(scan_tree(Zeros, ltree), dtree)
      /\ mode' = "send" /\ ltree' = ltree /\ dtree' = dtree /\ sent' = sent /\ honest' = honest
      /\ nlen' = nlen /\ ndist' = ndist /\ lens' = lens /\ have' = have
  BY DEF build_bl_tree, LenInv, dec
<1>2. LTrees /\ LFilled /\ LIdle
  BY <1>1 DEF LenInv
<1>3. Counts(freq', All)
  BY <1>1, <1>2, AllIs
<1>4. All' = All
  BY <1>1 DEF All
<1>5. Counts(freq, All)'
  BY <1>3, <1>4 DEF Counts, Hits, OfCode, Told, Fits
<1>6. LTrees' /\ LFilled' /\ LIdle'
  BY <1>1, <1>2 DEF LTrees, LFilled, LIdle
<1> QED
  BY <1>1, <1>5, <1>6 DEF LenInv

LEMMA LenSend ==
  ASSUME LConsts, LenInv, send_all_trees
  PROVE  LenInv'
<1>1. /\ mode = "send" /\ nlen' = Len(ltree) /\ ndist' = Len(dtree) /\ sent' = All
      /\ mode' = "TABLE" /\ ltree' = ltree /\ dtree' = dtree /\ freq' = freq /\ honest' = honest
      /\ lens' = lens /\ have' = have
      /\ bl_sent' = [i \in 1 .. max_blindex([c \in BlSymbols |-> BlLen(c)]) |-> BlLen(bl_order[i])]
  BY DEF send_all_trees, All
<1>2. LTrees /\ LFilled /\ LIdle /\ honest /\ Counts(freq, All)
  BY <1>1 DEF LenInv
<1>3. LTrees' /\ LFilled'
  BY <1>1, <1>2 DEF LTrees, LFilled
<1>4. have = 0 /\ have' = 0
  BY <1>1, <1>2 DEF LIdle
<1>5. LSizes'
  <2>1. Len(ltree) \in Nat /\ Len(dtree) \in Nat /\ EndCode < Len(ltree) /\ Len(ltree) <= L_CODES
        /\ Len(dtree) <= D_CODES /\ L_CODES \in Nat /\ D_CODES \in Nat
    BY <1>2, BothIs DEF LTrees, LConsts, SymbolsAssumption
  <2> QED
    BY <1>1, <2>1 DEF LSizes
<1>6. LTold'
  <2>1. Spells(All, Both, 0, Len(Both))
    BY <1>2, AllIs
  <2>2. Both' = Both
    BY <1>1 DEF Both
  <2>3. Spells(sent, Both, have, Len(Both))'
    <3>1. Spells(sent', Both', have', Len(Both'))
      BY <1>1, <1>4, <2>1, <2>2
    <3> QED
      BY <3>1 DEF Spells, Places, Tells, Told, Fits, Count
  <2>4. \A n \in 0 .. have' - 1 : FALSE
    BY <1>4
  <2> QED
    BY <1>1, <2>3, <2>4 DEF LTold
<1>7. LBlSent'
  <2> DEFINE f == [c \in BlSymbols |-> BlLen(c)]
  <2>1. \A c \in BlSymbols : f[c] \in Nat /\ f[c] = BlLen(c)
    BY DEF BlLen
  <2>2. PICK m : m = max_blindex(f)
    OBVIOUS
  <2>3. m \in 4 .. BL_CODES /\ \A k \in m + 1 .. BL_CODES : f[bl_order[k]] = 0
    BY <2>1, <2>2, LastIs
  <2>4. bl_sent' = [i \in 1 .. m |-> BlLen(bl_order[i])]
    BY <1>1, <2>2
  <2> HIDE DEF f
  <2>5. m \in Nat /\ m >= 4 /\ BL_CODES \in Nat /\ \A k \in 1 .. BL_CODES : bl_order[k] \in BlSymbols
    BY <2>3 DEF LConsts, OrderAssumption, BL_CODES
  <2>6. \A k \in m + 1 .. BL_CODES : BlLen(bl_order[k]) = 0
    <3>1. \A k \in m + 1 .. BL_CODES : k \in 1 .. BL_CODES
      BY <2>5
    <3> QED
      BY <2>1, <2>3, <2>5, <3>1
  <2>7. \A c : BlLen(c)' = BlLen(c)
    BY <1>1 DEF BlLen
  <2>8. /\ bl_sent' = [i \in 1 .. m |-> BlLen(bl_order[i])']
        /\ \A k \in m + 1 .. BL_CODES : BlLen(bl_order[k])' = 0
    BY <1>1, <2>4, <2>6 DEF BlLen
  <2> QED
    BY <2>3, <2>8 DEF LBlSent, BlLen, BL_CODES
<1>8. Counts(freq, sent)'
  BY <1>1, <1>2 DEF Counts, Hits, OfCode, Told, Fits
<1> QED
  BY <1>1, <1>3, <1>4, <1>5, <1>6, <1>7, <1>8 DEF LenInv

LEMMA LenArbitrary ==
  ASSUME LConsts, LenInv, Arbitrary
  PROVE  LenInv'
<1>1. /\ mode = "encode" /\ ~honest /\ nlen' \in EndCode + 1 .. L_CODES + 1 /\ ndist' \in 1 .. D_CODES + 1
      /\ mode' = "TABLE" /\ ltree' = ltree /\ dtree' = dtree /\ sent' = sent /\ honest' = honest
      /\ lens' = lens /\ have' = have
  BY DEF Arbitrary
<1>2. LTrees /\ LFilled /\ LIdle
  BY <1>1 DEF LenInv
<1>3. LTrees' /\ LFilled' /\ have' = 0
  BY <1>1, <1>2 DEF LTrees, LFilled, LIdle
<1>4. LSizes'
  <2>1. EndCode \in Nat /\ L_CODES \in Nat /\ D_CODES \in Nat
    BY DEF LConsts, SymbolsAssumption
  <2> QED
    BY <1>1, <2>1 DEF LSizes
<1>5. LTold' /\ LBlSent'
  BY <1>1 DEF LTold, LBlSent
<1> QED
  BY <1>1, <1>3, <1>4, <1>5 DEF LenInv

LEMMA LenTable ==
  ASSUME LConsts, LenInv, Table
  PROVE  LenInv'
<1>1. /\ mode = "TABLE" /\ have' = 0 /\ mode' = IF TooMany THEN "BAD" ELSE "LENLENS"
      /\ ltree' = ltree /\ dtree' = dtree /\ freq' = freq /\ sent' = sent /\ bl_sent' = bl_sent
      /\ honest' = honest /\ nlen' = nlen /\ ndist' = ndist /\ lens' = lens
  BY DEF Table, enc
<1>2. LTrees /\ LFilled /\ have = 0 /\ LSizes /\ LTold /\ LBlSent
  BY <1>1 DEF LenInv
<1>3. LTrees' /\ LFilled' /\ LSizes'
  BY <1>1, <1>2 DEF LTrees, LFilled, LSizes
<1>4. LTold'
  BY <1>1, <1>2 DEF LTold, Both
<1>5. LBlSent'
  BY <1>1, <1>2 DEF LBlSent, BlLen, BL_CODES
<1>6. LFits <=> ~TooMany
  BY <1>2 DEF LFits, TooMany, LSizes, LConsts, SymbolsAssumption
<1>7. honest => LFits
  BY <1>2 DEF LFits, LTold, LTrees
<1>8. CASE TooMany
  <2>1. have' <= L_CODES + D_CODES
    BY <1>1 DEF LConsts, SymbolsAssumption
  <2> QED
    BY <1>1, <1>3, <1>6, <1>7, <1>8, <2>1 DEF LenInv
<1>9. CASE ~TooMany
  <2>1. LFits'
    BY <1>1, <1>6, <1>9 DEF LFits
  <2> QED
    BY <1>1, <1>3, <1>4, <1>5, <1>9, <2>1 DEF LenInv
<1> QED
  BY <1>8, <1>9

LEMMA LenLenLens ==
  ASSUME LConsts, LenInv, LenLens
  PROVE  LenInv'
<1>1. /\ mode = "LENLENS" /\ have' = 0 /\ mode' = "CODELENS"
      /\ ltree' = ltree /\ dtree' = dtree /\ freq' = freq /\ sent' = sent
      /\ honest' = honest /\ nlen' = nlen /\ ndist' = ndist /\ lens' = lens
      /\ bl_lens' = [c \in BlSymbols |->
                       LET i == CHOOSE k \in 1 .. BL_CODES : bl_order[k] = c
                       IN  IF i <= Len(bl_sent) THEN bl_sent[i] ELSE 0]
  BY DEF LenLens, enc
<1>2. LTrees /\ LFilled /\ have = 0 /\ LSizes /\ LFits /\ LTold /\ LBlSent
  BY <1>1 DEF LenInv
<1>3. LTrees' /\ LFilled' /\ LSizes' /\ LFits'
  BY <1>1, <1>2 DEF LTrees, LFilled, LSizes, LFits
<1>4. LTold'
  BY <1>1, <1>2 DEF LTold, Both
<1>5. have' <= nlen' + ndist'
  BY <1>1, <1>2 DEF LSizes
<1>6. ASSUME honest, NEW c \in BlSymbols PROVE bl_lens'[c] = BlLen(c)
  <2>1. PICK m \in 4 .. BL_CODES :
          /\ bl_sent = [i \in 1 .. m |-> BlLen(bl_order[i])]
          /\ \A k \in m + 1 .. BL_CODES : BlLen(bl_order[k]) = 0
    BY <1>2, <1>6 DEF LBlSent
  <2>2. bl_order \in Seq(BlSymbols) /\ BL_CODES \in Nat /\ DOMAIN bl_order = 1 .. BL_CODES
        /\ \E k \in 1 .. BL_CODES : bl_order[k] = c
    BY DEF LConsts, OrderAssumption, BL_CODES, ToSet
  <2>3. PICK i : i = CHOOSE k \in 1 .. BL_CODES : bl_order[k] = c
    OBVIOUS
  <2>4. i \in 1 .. BL_CODES /\ bl_order[i] = c
    BY <2>2, <2>3
  <2>5. m \in Nat /\ m <= BL_CODES /\ Len(bl_sent) = m
    BY <2>1, <2>2
  <2>6. bl_lens'[c] = IF i <= m THEN bl_sent[i] ELSE 0
    BY <1>1, <2>3, <2>5
  <2>7. CASE i <= m
    <3>1. i \in 1 .. m
      BY <2>4, <2>5, <2>7
    <3> QED
      BY <2>1, <2>4, <2>6, <2>7, <3>1
  <2>8. CASE ~(i <= m)
    <3>1. i \in m + 1 .. BL_CODES
      BY <2>2, <2>4, <2>5, <2>8
    <3> QED
      BY <2>1, <2>4, <2>6, <2>8, <3>1
  <2> QED
    BY <2>7, <2>8
<1>7. honest' => \A c \in BlSymbols : bl_lens'[c] = BlLen(c)'
  BY <1>1, <1>6 DEF BlLen
<1>8. (honest => \A c \in BlSymbols : bl_lens[c] = BlLen(c))'
  BY <1>7 DEF BlSymbols
<1> QED
  BY <1>1, <1>3, <1>4, <1>5, <1>8 DEF LenInv

----------------------------------------------------------------------------
(***************************************************************************)
(* The steps that read the lengths.                                        *)
(***************************************************************************)

LEMMA CountTold ==
  ASSUME LConsts, NEW x \in Told
  PROVE  Count(x) \in Nat /\ Count(x) > 0 /\ (x.code \in Lens => Count(x) = 1)
<1>1. SymbolsAssumption /\ LensAssumption
  BY DEF LConsts
<1>2. x.extra \in Nat /\ x.code \in BlSymbols /\ ZMax \in Nat
  <2>1. PICK r, z, l : Caps(r, z, l)
    BY <1>1, CapsAre
  <2> QED
    BY <2>1 DEF Told, Caps
<1>3. CASE x.code \in Lens
  <2>1. x.code \notin {REP, REPZ} /\ x.code # REPZ_LONG
    BY <1>1, <1>3, Kinds
  <2> QED
    BY <1>3, <2>1 DEF Count
<1>4. CASE x.code = REP \/ x.code = REPZ
  <2>1. x.code \notin Lens
    BY <1>1, <1>4, Kinds
  <2>2. Count(x) = 3 + x.extra
    <3>1. x.code # REPZ_LONG
      BY <1>1, <1>4, Kinds
    <3> QED
      BY <1>4, <2>1, <3>1 DEF Count
  <2> QED
    BY <1>2, <2>1, <2>2
<1>5. CASE x.code = REPZ_LONG
  <2>1. x.code \notin Lens /\ x.code # REP /\ x.code # REPZ
    BY <1>1, <1>5, Kinds
  <2>2. Count(x) = ZMax + 1 + x.extra
    BY <1>5, <2>1 DEF Count
  <2> QED
    BY <1>2, <2>1, <2>2
<1> QED
  BY <1>1, <1>2, <1>3, <1>4, <1>5, Kinds

LEMMA RepeatedIs ==
  ASSUME LConsts, NEW x \in Told
  PROVE  Repeated(x) = IF x.code \in Lens THEN x.code ELSE IF x.code = REP THEN lens[have - 1] ELSE 0
<1>1. SymbolsAssumption /\ LensAssumption /\ x.code \in BlSymbols
  BY DEF LConsts, Told
<1>2. CASE x.code \in Lens
  <2>1. x.code # REP /\ x.code # REPZ /\ x.code # REPZ_LONG
    BY <1>1, <1>2, Kinds
  <2> QED
    BY <1>2, <2>1 DEF Repeated
<1>3. CASE x.code = REP
  <2>1. x.code \notin Lens /\ x.code # REPZ /\ x.code # REPZ_LONG
    BY <1>1, <1>3, Kinds
  <2> QED
    BY <1>3, <2>1 DEF Repeated
<1>4. CASE x.code = REPZ \/ x.code = REPZ_LONG
  <2>1. x.code \notin Lens /\ x.code # REP
    BY <1>1, <1>4, Kinds
  <2> QED
    BY <1>4, <2>1 DEF Repeated
<1> QED
  BY <1>1, <1>2, <1>3, <1>4, Kinds

\* Any stream fills the lengths in order and no more than announced.
LEMMA Fills ==
  ASSUME LConsts, LFilled, LSizes, LFits, have < nlen + ndist, NEW x \in Told, ~InvalidRepeat(x),
         have' = have + Count(x),
         lens' = [n \in DOMAIN lens |-> IF n \in have .. have + Count(x) - 1 THEN Repeated(x)
                                        ELSE lens[n]]
  PROVE  LFilled' /\ have' <= nlen + ndist
<1>1. PICK k : k = Count(x)
  OBVIOUS
<1>2. PICK last : last = L_CODES + D_CODES - 1
  OBVIOUS
<1>3. k \in Nat /\ k > 0 /\ (x.code \in Lens => k = 1)
  BY <1>1, CountTold
<1>4. /\ have \in Nat /\ lens \in [0 .. last -> Lens \cup {-1}]
      /\ \A n \in 0 .. last : lens[n] = -1 <=> have <= n
  BY <1>2 DEF LFilled
<1>5. nlen \in Nat /\ ndist \in Nat /\ nlen + ndist <= last + 1 /\ last \in Int
  BY <1>2 DEF LSizes, LFits, LConsts, SymbolsAssumption
<1>6. have' = have + k /\ have' \in Nat /\ have' <= nlen + ndist
  <2>1. x.code \notin Lens => have + k <= nlen + ndist
    BY <1>1, <1>3, <1>4, <1>5 DEF InvalidRepeat
  <2> QED
    BY <1>1, <1>3, <1>4, <1>5, <2>1
<1>7. Repeated(x) \in Lens /\ Repeated(x) # -1
  <2>1. SymbolsAssumption /\ LensAssumption
    BY DEF LConsts
  <2>2. Repeated(x) \in Lens
    <3>1. CASE x.code = REP
      <4>1. have # 0 /\ x.code \notin Lens
        BY <2>1, <3>1, Kinds DEF InvalidRepeat
      <4>2. have - 1 \in 0 .. last /\ ~(have <= have - 1)
        BY <1>4, <1>5, <4>1
      <4>3. lens[have - 1] \in Lens
        BY <1>4, <4>2
      <4> QED
        BY <3>1, <4>1, <4>3, RepeatedIs
    <3>2. CASE x.code # REP
      BY <2>1, <3>2, RepeatedIs, Kinds
    <3> QED
      BY <3>1, <3>2
  <2> QED
    BY <2>1, <2>2, Kinds
<1>8. lens' = [n \in 0 .. last |-> IF n \in have .. have + k - 1 THEN Repeated(x) ELSE lens[n]]
  BY <1>1, <1>4
<1>9. PICK v : v = Repeated(x)
  OBVIOUS
<1>10. lens' \in [0 .. last -> Lens \cup {-1}]
  BY <1>4, <1>7, <1>8
<1>11. ASSUME NEW n \in 0 .. last PROVE lens'[n] = -1 <=> have' <= n
  <2>1. CASE n \in have .. have + k - 1
    <3>1. ~(have' <= n)
      BY <1>3, <1>4, <1>6, <2>1
    <3> QED
      BY <1>7, <1>8, <2>1, <3>1
  <2>2. CASE n \notin have .. have + k - 1
    <3>1. have' <= n <=> have <= n
      BY <1>3, <1>4, <1>6, <2>2
    <3> QED
      BY <1>4, <1>8, <2>2, <3>1
  <2> QED
    BY <2>1, <2>2
<1> QED
  BY <1>2, <1>6, <1>10, <1>11 DEF LFilled

\* The encoder's stream is read as it was meant.
LEMMA Reads ==
  ASSUME LConsts, LTrees, honest, LFilled, LSizes, LFits, LTold, sent # <<>>, NEW x, x = Head(sent)
  PROVE  /\ x \in Told /\ ~InvalidRepeat(x) /\ Spells(Tail(sent), Both, have + Count(x), Len(Both))
         /\ \A n \in have .. have + Count(x) - 1 : Repeated(x) = Both[n + 1]
<1>1. Spells(sent, Both, have, Len(Both)) /\ nlen = Len(ltree) /\ ndist = Len(dtree)
      /\ \A n \in 0 .. have - 1 : lens[n] = Both[n + 1]
  BY DEF LTold
<1>2. Tells(x, Both, have) /\ Spells(Tail(sent), Both, have + Count(x), Len(Both))
  BY <1>1, SpellsHead
<1>3. PICK k : k = Count(x)
  OBVIOUS
<1>4. /\ x \in Told /\ have \in Nat /\ k \in Nat /\ k > 0 /\ have + k <= Len(Both)
      /\ (x.code = REP => have > 0)
      /\ \A j \in have + 1 .. have + k :
           Both[j] = IF x.code \in Lens THEN x.code ELSE IF x.code = REP THEN Both[have] ELSE 0
  BY <1>2, <1>3 DEF Tells
<1>5. Len(Both) = nlen + ndist
  BY <1>1, BothIs
<1>6. ~InvalidRepeat(x)
  <2>1. nlen + ndist \in Nat
    BY DEF LSizes
  <2>2. ~(have + k > nlen + ndist)
    BY <1>4, <1>5, <2>1
  <2>3. ~(x.code = REP /\ have = 0)
    BY <1>4
  <2> QED
    BY <1>3, <2>2, <2>3 DEF InvalidRepeat
<1>7. ASSUME NEW n \in have .. have + k - 1 PROVE Repeated(x) = Both[n + 1]
  <2>1. n + 1 \in have + 1 .. have + k
    BY <1>4
  <2>2. Both[n + 1] = IF x.code \in Lens THEN x.code ELSE IF x.code = REP THEN Both[have] ELSE 0
    BY <1>4, <2>1
  <2>3. x.code = REP => lens[have - 1] = Both[have]
    <3> SUFFICES ASSUME x.code = REP PROVE lens[have - 1] = Both[have]
      OBVIOUS
    <3>1. have - 1 \in 0 .. have - 1 /\ (have - 1) + 1 = have
      BY <1>4
    <3> QED
      BY <1>1, <3>1
  <2> QED
    BY <1>4, <2>2, <2>3, RepeatedIs
<1> QED
  BY <1>2, <1>3, <1>4, <1>6, <1>7

LEMMA LenCodeLen ==
  ASSUME LConsts, LenInv, NEW s \in Readable, CodeLen(s)
  PROVE  LenInv'
<1>1. PICK x : x = s
  OBVIOUS
<1>2. /\ mode = "CODELENS" /\ have < nlen + ndist
      /\ InvalidRepeat(x) => mode' = "BAD" /\ lens' = lens /\ have' = have
      /\ ~InvalidRepeat(x) =>
           /\ lens' = [n \in DOMAIN lens |->
                         IF n \in have .. have + Count(x) - 1 THEN Repeated(x) ELSE lens[n]]
           /\ have' = have + Count(x) /\ mode' = mode
      /\ sent' = IF honest THEN Tail(sent) ELSE sent
      /\ ltree' = ltree /\ dtree' = dtree /\ freq' = freq /\ bl_sent' = bl_sent /\ honest' = honest
      /\ nlen' = nlen /\ ndist' = ndist /\ bl_lens' = bl_lens
  BY <1>1 DEF CodeLen
<1>3. LTrees /\ LFilled /\ LSizes /\ LFits /\ have <= nlen + ndist /\ LTold
      /\ (honest => \A c \in BlSymbols : bl_lens[c] = BlLen(c))
  BY <1>2 DEF LenInv
<1>4. LSizes' /\ LFits'
  BY <1>2, <1>3 DEF LSizes, LFits
<1>5. LTrees'
  BY <1>2, <1>3 DEF LTrees
<1>6. (honest => \A c \in BlSymbols : bl_lens[c] = BlLen(c))'
  <2>1. \A c : BlLen(c)' = BlLen(c)
    BY <1>2 DEF BlLen
  <2> QED
    BY <1>2, <1>3 DEF BlLen, BlSymbols
<1>7. CASE honest
  <2>1. sent # <<>> /\ x = Head(sent)
    BY <1>1, <1>7 DEF Readable
  <2>2. /\ x \in Told /\ ~InvalidRepeat(x)
        /\ Spells(Tail(sent), Both, have + Count(x), Len(Both))
        /\ \A n \in have .. have + Count(x) - 1 : Repeated(x) = Both[n + 1]
    BY <1>3, <1>7, <2>1, Reads
  <2>3. LFilled' /\ have' <= nlen + ndist
    BY <1>2, <1>3, <2>2, Fills
  <2>4. PICK k : k = Count(x)
    OBVIOUS
  <2>5. k \in Nat /\ k > 0 /\ have \in Nat /\ have' = have + k
    BY <1>2, <1>3, <2>2, <2>4, CountTold DEF LFilled
  <2>6. ASSUME NEW n \in 0 .. have' - 1 PROVE lens'[n] = Both[n + 1]
    <3>1. n \in DOMAIN lens
      <4>1. PICK last : last = L_CODES + D_CODES - 1
        OBVIOUS
      <4>2. nlen + ndist <= last + 1 /\ nlen + ndist \in Nat /\ last \in Int
        BY <1>3, <4>1 DEF LSizes, LFits, LConsts, SymbolsAssumption
      <4>3. DOMAIN lens = 0 .. last
        BY <1>3, <4>1 DEF LFilled
      <4> QED
        BY <2>3, <2>5, <4>2, <4>3
    <3>2. CASE n \in have .. have + k - 1
      BY <1>2, <2>2, <2>4, <3>1, <3>2
    <3>3. CASE n \notin have .. have + k - 1
      <4>1. n \in 0 .. have - 1
        BY <2>5, <3>3
      <4>2. lens[n] = Both[n + 1]
        BY <1>3, <1>7, <4>1 DEF LTold
      <4> QED
        BY <1>2, <2>2, <2>4, <3>1, <3>3, <4>2
    <3> QED
      BY <3>2, <3>3
  <2>7. Both' = Both /\ sent' = Tail(sent)
    BY <1>2, <1>7 DEF Both
  <2>8. Spells(sent, Both, have, Len(Both))'
    <3>1. have' = have + Count(x)
      BY <1>2, <2>2
    <3>2. Spells(sent', Both', have', Len(Both'))
      BY <2>2, <2>7, <3>1
    <3> QED
      BY <3>2 DEF Spells, Places, Tells, Told, Fits, Count
  <2>9. LTold'
    <3>1. nlen' = Len(ltree') /\ ndist' = Len(dtree')
      BY <1>2, <1>3, <1>7 DEF LTold
    <3> QED
      BY <2>6, <2>7, <2>8, <3>1 DEF LTold
  <2>10. mode' = "CODELENS" /\ have' <= nlen' + ndist'
    BY <1>2, <2>2, <2>3
  <2> QED
    BY <1>4, <1>5, <1>6, <2>3, <2>9, <2>10 DEF LenInv
<1>8. CASE ~honest
  <2>1. x \in Told
    <3>1. SymbolsAssumption /\ LensAssumption
      BY DEF LConsts
    <3>2. x \in {Code(c) : c \in Lens}
                  \cup {Repeat(REP, e) : e \in 0 .. 2 ^ RepBits - 1}
                  \cup {Repeat(REPZ, e) : e \in 0 .. 2 ^ ZBits - 1}
                  \cup {Repeat(REPZ_LONG, e) : e \in 0 .. 2 ^ LongBits - 1}
      BY <1>1, <1>8 DEF Readable
    <3>3. PICK r, z, l : Caps(r, z, l)
      BY <3>1, CapsAre
    <3>4. \A m \in Nat : \A e \in 0 .. m - 1 : e \in Nat /\ e < m
      OBVIOUS
    <3>5. r \in Nat /\ z \in Nat /\ l \in Nat /\ r = 2 ^ RepBits /\ z = 2 ^ ZBits /\ l = 2 ^ LongBits
      BY <3>3 DEF Caps
    <3>6. /\ \A e \in 0 .. r - 1 : Repeat(REP, e) \in Told
          /\ \A e \in 0 .. z - 1 : Repeat(REPZ, e) \in Told
          /\ \A e \in 0 .. l - 1 : Repeat(REPZ_LONG, e) \in Told
          /\ \A c \in Lens : Code(c) \in Told
      BY <3>1, <3>4, <3>5, ToldIs
    <3> QED
      BY <3>2, <3>5, <3>6
  <2>2. LTold'
    BY <1>2, <1>8 DEF LTold
  <2>3. CASE InvalidRepeat(x)
    <3>1. LFilled'
      BY <1>2, <1>3, <2>3 DEF LFilled
    <3>2. have' <= L_CODES + D_CODES
      BY <1>2, <1>3, <2>3 DEF LFilled, LSizes, LFits, LConsts, SymbolsAssumption
    <3> QED
      BY <1>2, <1>4, <1>5, <1>8, <2>3, <3>1, <3>2 DEF LenInv
  <2>4. CASE ~InvalidRepeat(x)
    <3>1. LFilled' /\ have' <= nlen + ndist
      BY <1>2, <1>3, <2>1, <2>4, Fills
    <3>2. mode' = "CODELENS" /\ have' <= nlen' + ndist'
      BY <1>2, <2>4, <3>1
    <3> QED
      BY <1>4, <1>5, <1>6, <2>2, <3>1, <3>2 DEF LenInv
  <2> QED
    BY <2>3, <2>4
<1> QED
  BY <1>7, <1>8

\* All read
LEMMA LenCodeLens ==
  ASSUME LConsts, LenInv, CodeLens
  PROVE  LenInv'
<1>1. /\ mode = "CODELENS" /\ have >= nlen + ndist
      /\ mode' = IF lens[EndCode] = 0 THEN "BAD" ELSE "done"
      /\ ltree' = ltree /\ dtree' = dtree /\ freq' = freq /\ sent' = sent /\ bl_sent' = bl_sent
      /\ honest' = honest /\ nlen' = nlen /\ ndist' = ndist /\ bl_lens' = bl_lens
      /\ lens' = lens /\ have' = have
  BY DEF CodeLens, enc, dec
<1>2. LTrees /\ LFilled /\ LSizes /\ LFits /\ have <= nlen + ndist /\ LTold
  BY <1>1 DEF LenInv
<1>3. LTrees' /\ LFilled' /\ LSizes' /\ LFits'
  BY <1>1, <1>2 DEF LTrees, LFilled, LSizes, LFits
<1>4. LTold'
  BY <1>1, <1>2 DEF LTold, Both
<1>5. have = nlen + ndist /\ have <= L_CODES + D_CODES /\ have \in Nat
  BY <1>1, <1>2 DEF LFilled, LSizes, LFits, LConsts, SymbolsAssumption
<1>6. honest => lens[EndCode] # 0
  <2> SUFFICES ASSUME honest PROVE lens[EndCode] # 0
    OBVIOUS
  <2>1. EndCode \in 0 .. have - 1 /\ EndCode \in Nat
    BY <1>2, <1>5 DEF LSizes, LConsts, SymbolsAssumption
  <2>2. lens[EndCode] = Both[EndCode + 1]
    BY <1>2, <2>1 DEF LTold
  <2>3. EndCode + 1 \in 1 .. Len(ltree) /\ 0 + (EndCode + 1) = EndCode + 1
    BY <1>2, <2>1, BothIs DEF LTrees
  <2>4. Both[EndCode + 1] = ltree[EndCode + 1]
    <3>1. Holds(Both, 0, ltree)
      BY <1>2, BothIs
    <3> QED
      BY <2>3, <3>1 DEF Holds
  <2> QED
    BY <1>2, <2>2, <2>4 DEF LTrees
<1>7. CASE lens[EndCode] = 0
  BY <1>1, <1>3, <1>5, <1>6, <1>7 DEF LenInv
<1>8. CASE lens[EndCode] # 0
  BY <1>1, <1>3, <1>4, <1>5, <1>8 DEF LenInv
<1> QED
  BY <1>7, <1>8

LEMMA LenNext ==
  ASSUME BlockAssumption, LenInv, Next
  PROVE  LenInv'
<1>1. LConsts
  BY LConstsAre
<1>2. CASE Done
  BY <1>2 DEF Done, vars, enc, dec, LenInv, LTrees, LFilled, LSizes, LFits, LTold, LBlSent, LIdle,
              Both, All, BlLen, Counts
<1> QED
  BY <1>1, <1>2, LenBuild, LenSend, LenArbitrary, LenTable, LenLenLens, LenCodeLen, LenCodeLens DEF Next

----------------------------------------------------------------------------
(***************************************************************************)
(* What it says of the properties, and the theorem about CodeLengths.      *)
(***************************************************************************)

LEMMA LenImplies ==
  ASSUME BlockAssumption, LenInv
  PROVE  /\ TypeOK /\ RoundTrip /\ NeverRejected /\ BlLensArrive
         /\ CountsMatch /\ ExtraFits /\ ExactlyFilled
<1>1. LConsts /\ L_CODES \in Nat /\ D_CODES \in Nat /\ EndCode \in Nat /\ EndCode < L_CODES
      /\ SymbolsAssumption /\ LensAssumption
  BY LConstsAre DEF LConsts
<1>2. LTrees /\ LFilled
  BY DEF LenInv
<1>3. PICK last : last = L_CODES + D_CODES - 1
  OBVIOUS
<1>4. /\ have \in Nat /\ lens \in [0 .. last -> Lens \cup {-1}] /\ last \in Int
      /\ \A n \in 0 .. last : lens[n] = -1 <=> have <= n
  BY <1>1, <1>2, <1>3 DEF LFilled
<1>5. /\ have \in 0 .. L_CODES + D_CODES
      /\ nlen \in 0 .. L_CODES + 1 /\ ndist \in 0 .. D_CODES + 1
  <2>1. CASE LIdle
    BY <1>1, <2>1 DEF LIdle
  <2>2. CASE LSizes /\ have <= L_CODES + D_CODES
    BY <1>1, <1>4, <2>2 DEF LSizes
  <2>3. LSizes /\ LFits /\ have <= nlen + ndist => have <= L_CODES + D_CODES
    BY <1>1, <1>4 DEF LSizes, LFits
  <2>4. have = 0 => have <= L_CODES + D_CODES
    BY <1>1
  <2>5. LSizes /\ LFits /\ have = nlen + ndist => have <= nlen + ndist
    BY <1>4 DEF LSizes
  <2> QED
    BY <2>1, <2>2, <2>3, <2>4, <2>5 DEF LenInv
<1>6. TypeOK
  <2>1. \A n \in DOMAIN lens : lens[n] \in Lens \cup {-1}
    BY <1>4
  <2>2. mode \in {"encode", "send", "TABLE", "LENLENS", "CODELENS", "done", "BAD"}
    BY DEF LenInv
  <2> QED
    BY <1>5, <2>1, <2>2 DEF TypeOK
<1>7. NeverRejected
  BY DEF LenInv, NeverRejected
<1>8. RoundTrip
  <2> SUFFICES ASSUME mode = "done", honest
               PROVE  /\ sent = <<>>
                      /\ \A n \in 0 .. nlen - 1 : lens[n] = ltree[n + 1]
                      /\ \A n \in 0 .. ndist - 1 : lens[nlen + n] = dtree[n + 1]
    BY DEF RoundTrip
  <2>1. /\ nlen = Len(ltree) /\ ndist = Len(dtree) /\ have = nlen + ndist
        /\ Spells(sent, Both, have, Len(Both))
        /\ \A n \in 0 .. have - 1 : lens[n] = Both[n + 1]
    BY DEF LenInv, LTold
  <2>2. Len(Both) = nlen + ndist /\ Holds(Both, 0, ltree) /\ Holds(Both, nlen, dtree)
        /\ nlen \in Nat /\ ndist \in Nat
    BY <1>2, <2>1, BothIs
  <2>3. sent = <<>>
    <3> SUFFICES ASSUME sent # <<>> PROVE FALSE
      OBVIOUS
    <3>1. Tells(Head(sent), Both, have)
      BY <2>1, SpellsHead
    <3>2. PICK k : k = Count(Head(sent))
      OBVIOUS
    <3>3. k \in Nat /\ k > 0 /\ have + k <= Len(Both)
      BY <3>1, <3>2 DEF Tells
    <3> QED
      BY <2>1, <2>2, <3>3
  <2>4. ASSUME NEW n \in 0 .. nlen - 1 PROVE lens[n] = ltree[n + 1]
    <3>1. n \in 0 .. have - 1 /\ n + 1 \in 1 .. Len(ltree) /\ 0 + (n + 1) = n + 1
      BY <2>1, <2>2
    <3>2. Both[0 + (n + 1)] = ltree[n + 1]
      BY <2>2, <3>1 DEF Holds
    <3> QED
      BY <2>1, <3>1, <3>2
  <2>5. ASSUME NEW n \in 0 .. ndist - 1 PROVE lens[nlen + n] = dtree[n + 1]
    <3>1. nlen + n \in 0 .. have - 1 /\ n + 1 \in 1 .. Len(dtree) /\ nlen + (n + 1) = (nlen + n) + 1
      BY <2>1, <2>2
    <3>2. Both[nlen + (n + 1)] = dtree[n + 1]
      BY <2>2, <3>1 DEF Holds
    <3> QED
      BY <2>1, <3>1, <3>2
  <2> QED
    BY <2>3, <2>4, <2>5
<1>9. BlLensArrive
  BY DEF LenInv, BlLensArrive
<1>10. sent \in Seq(Told)
  <2>1. <<>> \in Seq(Told)
    OBVIOUS
  <2>2. LTold /\ honest => sent \in Seq(Told)
    BY DEF LTold, Spells
  <2>3. ~honest => sent = <<>>
    BY <1>2 DEF LTrees
  <2>4. mode \in {"encode", "send"} => sent = <<>>
    BY DEF LenInv, LIdle
  <2>5. mode \notin {"encode", "send"} => LTold \/ ~honest
    BY DEF LenInv
  <2> QED
    BY <2>1, <2>2, <2>3, <2>4, <2>5
<1>11. \A i \in DOMAIN sent : sent[i] \in Told
  BY <1>10
<1>12. CountsMatch
  <2> SUFFICES ASSUME mode = "TABLE", honest, NEW c \in BlSymbols
               PROVE  freq[c] = Cardinality({i \in DOMAIN sent : sent[i].code = c})
    BY DEF CountsMatch
  <2>1. Counts(freq, sent)
    BY DEF LenInv
  <2>2. {i \in DOMAIN sent : sent[i].code = c} = Hits(sent, OfCode(c))
    BY <1>11 DEF Hits, OfCode
  <2> QED
    BY <2>1, <2>2 DEF Counts
<1>13. ExtraFits
  <2> SUFFICES ASSUME NEW i \in DOMAIN sent
               PROVE  sent[i].extra \in 0 .. (CASE sent[i].code \in Lens -> 0
                                                [] sent[i].code = REP -> 2 ^ RepBits - 1
                                                [] sent[i].code = REPZ -> 2 ^ ZBits - 1
                                                [] sent[i].code = REPZ_LONG -> 2 ^ LongBits - 1)
    BY DEF ExtraFits
  <2>1. PICK x : x = sent[i]
    OBVIOUS
  <2>2. x \in Told
    BY <1>11, <2>1
  <2>3. PICK r, z, l : Caps(r, z, l)
    BY <1>1, CapsAre
  <2>4. r \in Nat /\ z \in Nat /\ l \in Nat /\ r = 2 ^ RepBits /\ z = 2 ^ ZBits /\ l = 2 ^ LongBits
    BY <2>3 DEF Caps
  <2>5. x.extra \in Nat /\ x.code \in BlSymbols /\ Fits(x)
    BY <2>2 DEF Told
  <2>6. /\ REP \notin Lens /\ REPZ \notin Lens /\ REPZ_LONG \notin Lens
        /\ REP # REPZ /\ REP # REPZ_LONG /\ REPZ # REPZ_LONG
    BY <1>1, Kinds
  <2>7. PICK e : e = x.extra
    OBVIOUS
  <2>8. PICK hi : hi = CASE x.code \in Lens -> 0
                         [] x.code = REP -> r - 1
                         [] x.code = REPZ -> z - 1
                         [] x.code = REPZ_LONG -> l - 1
    OBVIOUS
  <2>9. \/ e = 0 /\ hi = 0
        \/ e < r /\ hi = r - 1
        \/ e < z /\ hi = z - 1
        \/ e < l /\ hi = l - 1
    <3>1. CASE x.code \in Lens
      BY <2>4, <2>5, <2>6, <2>7, <2>8, <3>1 DEF Fits
    <3>2. CASE x.code = REP
      BY <2>4, <2>5, <2>6, <2>7, <2>8, <3>2 DEF Fits
    <3>3. CASE x.code = REPZ
      BY <2>4, <2>5, <2>6, <2>7, <2>8, <3>3 DEF Fits
    <3>4. CASE x.code = REPZ_LONG
      BY <2>4, <2>5, <2>6, <2>7, <2>8, <3>4 DEF Fits
    <3> QED
      BY <2>5, <3>1, <3>2, <3>3, <3>4 DEF Fits
  <2>10. e \in 0 .. hi
    <3>1. e \in Nat
      BY <2>5, <2>7
    <3> QED
      BY <2>4, <2>9, <3>1
  <2> QED
    BY <2>1, <2>4, <2>7, <2>8, <2>10
<1>14. ExactlyFilled
  <2>1. \A n \in DOMAIN lens : lens[n] # -1 <=> n < have
    <3> TAKE n \in DOMAIN lens
    <3>1. n \in 0 .. last /\ n \in Int
      BY <1>4
    <3>2. n < have <=> ~(have <= n)
      BY <1>4, <3>1
    <3> QED
      BY <1>4, <3>1, <3>2
  <2>2. mode = "CODELENS" => have <= nlen + ndist
    BY DEF LenInv
  <2>3. mode = "done" => have = nlen + ndist /\ lens[EndCode] # 0
    BY DEF LenInv
  <2> QED
    BY <2>1, <2>2, <2>3 DEF ExactlyFilled
<1> QED
  BY <1>6, <1>7, <1>8, <1>9, <1>12, <1>13, <1>14

\* For trees of any lengths and any repeat codes: the head of a dynamic block
\* gives the decoder the encoder's code lengths, what scan_tree counts is what
\* send_tree sends, and no stream fills more lengths than it announced.
THEOREM LengthsAreExact == BSpec => []LengthsArrive
<1> DEFINE Inv == part = "lengths" => LenInv
<1>0. BlockAssumption
  BY BlockAssumption
<1>1. BInit => Inv
  <2> SUFFICES ASSUME BInit, part = "lengths" PROVE LenInv
    OBVIOUS
  <2>1. Init
    BY DEF BInit
  <2> QED
    BY <1>0, <2>1, LenInit
<1>2. Inv /\ [BNext]_BVars => Inv'
  <2> SUFFICES ASSUME Inv, [BNext]_BVars, part' = "lengths" PROVE LenInv'
    OBVIOUS
  <2>1. part = "lengths" /\ LenInv
    BY DEF BNext, BVars
  <2>2. CASE UNCHANGED BVars
    BY <2>1, <2>2 DEF BVars, COwn, LenInv, LTrees, LFilled, LSizes, LFits, LTold, LBlSent, LIdle,
                      Both, All, BlLen, Counts
  <2>3. CASE BNext
    <3>1. Next
      BY <2>1, <2>3 DEF BNext
    <3> QED
      BY <1>0, <2>1, <3>1, LenNext
  <2> QED
    BY <2>2, <2>3
<1>3. Inv => LengthsArrive
  BY <1>0, LenImplies DEF LengthsArrive
<1> QED
  BY <1>1, <1>2, <1>3, PTL DEF BSpec, BVars
=============================================================================
