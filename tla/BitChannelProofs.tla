-------------------------- MODULE BitChannelProofs --------------------------
(***************************************************************************)
(* Proofs about BitChannel: what the decoder reads is what was sent, for   *)
(* every size of a byte and of the items, however reading and writing      *)
(* alternate.                                                              *)
(*                                                                         *)
(* All streams are runs of bits.  Each operation of the encoder puts some  *)
(* number behind the run, and the decoder's position in it is At.          *)
(***************************************************************************)
EXTENDS BitChannel, TLAPS, WellFoundedInduction

----------------------------------------------------------------------------
(***************************************************************************)
(* Functions defined by recursion over 0 .. n.                             *)
(***************************************************************************)

\* A nonempty set of naturals has a least element.
LEMMA Least ==
  ASSUME NEW S \in SUBSET Nat, S # {}
  PROVE  \E x \in S : \A y \in S : x <= y
  <1>1. PICK x \in S : \A y \in S : ~(<<y, x>> \in OpToRel(<, Nat))
    BY NatLessThanWellFounded, WFMin
  <1>2. \A y \in S : ~(y < x)
    BY <1>1 DEF OpToRel
  <1> QED
    BY <1>2

\* Induction, over a set
LEMMA Induct ==
  ASSUME NEW S \in SUBSET Nat, 0 \in S, \A k \in S : k + 1 \in S
  PROVE  S = Nat
  <1> SUFFICES ASSUME Nat \ S # {} PROVE FALSE
    OBVIOUS
  <1>1. PICK x \in Nat \ S : \A y \in Nat \ S : x <= y
    BY Least
  <1>2. x - 1 \in Nat /\ x - 1 \notin Nat \ S
    BY <1>1
  <1> QED
    BY <1>2, x = (x - 1) + 1

IsFold(f, m, F, a) == f[0] = a /\ \A k \in 1 .. m : f[k] = F[<<k, f[k - 1]>>]

\* A function by recursion over 0 .. m exists.
LEMMA FoldExists ==
  ASSUME NEW Y, NEW a \in Y, NEW m \in Nat, NEW F \in [(1 .. m) \X Y -> Y]
  PROVE  \E f \in [0 .. m -> Y] : IsFold(f, m, F, a)
  <1> DEFINE S == {k \in Nat : k <= m => \E f \in [0 .. k -> Y] : IsFold(f, k, F, a)}
  <1>1. 0 \in S
    <2>1. [k \in 0 .. 0 |-> a] \in [0 .. 0 -> Y] /\ IsFold([k \in 0 .. 0 |-> a], 0, F, a)
      BY DEF IsFold
    <2> QED
      BY <2>1
  <1>2. ASSUME NEW k \in S PROVE k + 1 \in S
    <2>1. SUFFICES ASSUME k + 1 <= m PROVE \E f \in [0 .. k + 1 -> Y] : IsFold(f, k + 1, F, a)
      OBVIOUS
    <2>2. k \in Nat /\ k <= m
      BY <2>1
    <2>3. PICK f \in [0 .. k -> Y] : IsFold(f, k, F, a)
      BY <2>2
    <2> DEFINE g == [i \in 0 .. k + 1 |-> IF i = k + 1 THEN F[<<k + 1, f[k]>>] ELSE f[i]]
    <2>4. F[<<k + 1, f[k]>>] \in Y
      BY <2>1, <2>2
    <2>5. g \in [0 .. k + 1 -> Y]
      BY <2>2, <2>4
    <2>6. g[0] = a
      BY <2>2, <2>3 DEF IsFold
    <2>7. ASSUME NEW i \in 1 .. k + 1 PROVE g[i] = F[<<i, g[i - 1]>>]
      <3>1. CASE i = k + 1
        <4>1. g[i - 1] = f[k] /\ g[i] = F[<<k + 1, f[k]>>]
          BY <2>2, <3>1
        <4> QED
          BY <3>1, <4>1
      <3>2. CASE i # k + 1
        <4>1. g[i] = f[i] /\ g[i - 1] = f[i - 1] /\ i \in 1 .. k
          BY <2>2, <3>2
        <4> HIDE DEF g
        <4> QED
          BY <2>3, <4>1 DEF IsFold
      <3> QED
        BY <3>1, <3>2
    <2> HIDE DEF g
    <2> QED
      BY <2>5, <2>6, <2>7 DEF IsFold
  <1>3. S = Nat
    <2>1. S \in SUBSET Nat
      OBVIOUS
    <2> HIDE DEF S
    <2> QED
      BY <1>1, <1>2, <2>1, Induct
  <1> QED
    BY <1>3

On(s, m) == s = [i \in 0 .. m |-> s[i]]

\* Whatever takes the steps of F as long as it stays in Y is the fold of F.
Folding(Y, a, m, F, s) ==
  /\ a \in Y /\ m \in Nat /\ F \in [(1 .. m) \X Y -> Y]
  /\ On(s, m) /\ s[0] = a
  /\ \A i \in 1 .. m : s[i - 1] \in Y => s[i] = F[<<i, s[i - 1]>>]

LEMMA Folded ==
  ASSUME NEW Y, NEW a, NEW m, NEW F, NEW s, Folding(Y, a, m, F, s)
  PROVE  s \in [0 .. m -> Y] /\ IsFold(s, m, F, a)
  <1> USE DEF Folding
  <1> DEFINE S == {i \in Nat : i <= m => s[i] \in Y}
  <1>1. 0 \in S
    OBVIOUS
  <1>2. ASSUME NEW i \in S PROVE i + 1 \in S
    <2>1. CASE i + 1 <= m
      <3>1. i + 1 \in 1 .. m /\ (i + 1) - 1 = i /\ s[i] \in Y
        BY <2>1
      <3>2. s[i + 1] = F[<<i + 1, s[i]>>]
        BY <3>1
      <3> QED
        BY <3>1, <3>2
    <2>2. CASE ~(i + 1 <= m)
      BY <2>2
    <2> QED
      BY <2>1, <2>2
  <1>3. S = Nat
    <2>1. S \in SUBSET Nat
      OBVIOUS
    <2> HIDE DEF S
    <2> QED
      BY <1>1, <1>2, <2>1, Induct
  <1>4. ASSUME NEW i \in 0 .. m PROVE s[i] \in Y
    <2>1. i \in S
      BY <1>3
    <2> QED
      BY <2>1
  <1>5. \A i \in 1 .. m : i - 1 \in 0 .. m
    OBVIOUS
  <1> QED
    BY <1>4, <1>5 DEF IsFold, On

\* Two that take the same steps are the same as far as the shorter goes.
LEMMA FoldsAgree ==
  ASSUME NEW k \in Nat, NEW m \in 0 .. k, NEW F, NEW G, NEW a, NEW Y,
         NEW f \in [0 .. k -> Y], NEW g \in [0 .. m -> Y],
         IsFold(f, k, F, a), IsFold(g, m, G, a),
         \A i \in 1 .. m, x \in Y : F[<<i, x>>] = G[<<i, x>>]
  PROVE  \A i \in 0 .. m : f[i] = g[i]
  <1> DEFINE S == {i \in Nat : i <= m => f[i] = g[i]}
  <1>1. 0 \in S
    BY DEF IsFold
  <1>2. ASSUME NEW i \in S PROVE i + 1 \in S
    <2>1. CASE i + 1 <= m
      <3>1. i + 1 \in 1 .. k /\ i + 1 \in 1 .. m /\ (i + 1) - 1 = i /\ f[i] = g[i] /\ g[i] \in Y
        BY <2>1
      <3>2. f[i + 1] = F[<<i + 1, f[i]>>] /\ g[i + 1] = G[<<i + 1, g[i]>>]
        BY <3>1 DEF IsFold
      <3> QED
        BY <3>1, <3>2
    <2>2. CASE ~(i + 1 <= m)
      BY <2>2
    <2> QED
      BY <2>1, <2>2
  <1>3. S = Nat
    <2>1. S \in SUBSET Nat
      OBVIOUS
    <2> HIDE DEF S
    <2> QED
      BY <1>1, <1>2, <2>1, Induct
  <1> QED
    BY <1>3

----------------------------------------------------------------------------
(***************************************************************************)
(* Numbers as sets of bits.                                                *)
(***************************************************************************)

\* Multiples
LEMMA Multiples ==
  ASSUME NEW d \in Nat, NEW i \in Nat, NEW j \in Nat
  PROVE  /\ i * d \in Nat
         /\ (i + 1) * d = i * d + d
         /\ (i + j) * d = i * d + j * d
         /\ i < j => i * d + d <= j * d
         /\ i <= j => i * d <= j * d
<1>1. i * d \in Nat /\ j * d \in Nat
  BY SMT
<1>2. (i + 1) * d = i * d + d /\ (i + j) * d = i * d + j * d
  BY SMT
<1>3. ASSUME i <= j PROVE i * d <= j * d
  <2>1. PICK k \in Nat : j = i + k
    BY <1>3, j - i \in Nat, j = i + (j - i)
  <2>2. j * d = i * d + k * d /\ k * d \in Nat
    BY <2>1, SMT
  <2> QED
    BY <1>1, <2>2
<1>4. ASSUME i < j PROVE i * d + d <= j * d
  <2>1. PICK k \in Nat : j = (i + 1) + k
    BY <1>4, j - (i + 1) \in Nat, j = (i + 1) + (j - (i + 1))
  <2>2. j * d = (i + 1) * d + k * d /\ k * d \in Nat
    BY <2>1, SMT
  <2> QED
    BY <1>1, <1>2, <2>2
<1> QED
  BY <1>1, <1>2, <1>3, <1>4

\* Every natural number is a multiple and a remainder, in one way only.
LEMMA Split ==
  ASSUME NEW d \in Nat \ {0}, NEW x \in Nat
  PROVE  \E i \in Nat, j \in 0 .. d - 1 : x = i * d + j
<1> DEFINE q == x \div d
           m == x % d
<1>1. x - m = d * q
  BY SMT
<1>2. m \in 0 .. d - 1 /\ q \in Int
  OBVIOUS
<1> HIDE DEF q, m
<1>3. d * q \in Int /\ x = d * q + m /\ d * q = q * d
  BY <1>1, <1>2, SMT
<1>4. CASE q < 0
  <2>1. d * q <= d * (0 - 1)
    BY <1>2, <1>4, SMT
  <2>2. d * (0 - 1) = 0 - d
    BY SMT
  <2> QED
    BY <1>2, <1>3, <2>1, <2>2
<1>5. CASE q \in Nat
  BY <1>2, <1>3, <1>5
<1> QED
  BY <1>2, <1>4, <1>5

LEMMA SplitOnce ==
  ASSUME NEW d \in Nat \ {0}, NEW i \in Nat, NEW j \in 0 .. d - 1,
         NEW k \in Nat, NEW m \in 0 .. d - 1, i * d + j = k * d + m
  PROVE  i = k /\ j = m
<1>1. i * d \in Nat /\ k * d \in Nat
  BY Multiples
<1>2. ~(i < k)
  <2> SUFFICES ASSUME i < k PROVE FALSE
    OBVIOUS
  <2>1. i * d + d <= k * d
    BY Multiples
  <2> QED
    BY <1>1, <2>1
<1>3. ~(k < i)
  <2> SUFFICES ASSUME k < i PROVE FALSE
    OBVIOUS
  <2>1. k * d + d <= i * d
    BY Multiples
  <2> QED
    BY <1>1, <2>1
<1>4. i = k
  BY <1>2, <1>3
<1> QED
  BY <1>1, <1>4

\* Shifts.
LEMMA InShl ==
  ASSUME NEW v \in SUBSET Nat, NEW n \in Nat
  PROVE  /\ Shl(v, n) \in SUBSET Nat
         /\ \A x \in Nat : x \in Shl(v, n) <=> x >= n /\ x - n \in v
BY DEF Shl

LEMMA InShr ==
  ASSUME NEW v \in SUBSET Nat, NEW n \in Nat
  PROVE  /\ Shr(v, n) \in SUBSET Nat
         /\ \A x \in Nat : x \in Shr(v, n) <=> x + n \in v
<1>1. ASSUME NEW x \in Nat, x \in Shr(v, n) PROVE x + n \in v
  BY <1>1 DEF Shr
<1>2. ASSUME NEW x \in Nat, x + n \in v PROVE x \in Shr(v, n)
  <2>1. x + n \in {j \in v : j >= n} /\ x = (x + n) - n
    BY <1>2
  <2> QED
    BY <2>1 DEF Shr
<1> QED
  BY <1>1, <1>2 DEF Shr

\* Two sets of naturals with the same elements
LEMMA SameNumbers ==
  ASSUME NEW v \in SUBSET Nat, NEW w \in SUBSET Nat, \A x \in Nat : x \in v <=> x \in w
  PROVE  v = w
OBVIOUS

----------------------------------------------------------------------------
(***************************************************************************)
(* Runs of bits.                                                           *)
(***************************************************************************)

Run == {s \in [len : Nat, ones : SUBSET Nat] : s.ones \subseteq 0 .. s.len - 1}

LEMMA RunIs ==
  ASSUME NEW n \in Nat, NEW v \in SUBSET (0 .. n - 1)
  PROVE  [len |-> n, ones |-> v] \in Run
<1> DEFINE r == [len |-> n, ones |-> v]
<1>1. r \in [len : Nat, ones : SUBSET Nat] /\ r.len = n /\ r.ones = v
  OBVIOUS
<1> HIDE DEF r
<1>2. r \in Run
  BY <1>1 DEF Run
<1> QED
  BY <1>2 DEF r

LEMMA InRun ==
  ASSUME NEW s \in Run
  PROVE  /\ s.len \in Nat /\ s.ones \in SUBSET Nat /\ s.ones \subseteq 0 .. s.len - 1
         /\ s = [len |-> s.len, ones |-> s.ones]
<1>1. s \in [len : Nat, ones : SUBSET Nat] /\ s.ones \subseteq 0 .. s.len - 1
  BY Zenon DEF Run
<1>2. s = [len |-> s.len, ones |-> s.ones]
  BY <1>1
<1>3. s.len \in Nat /\ s.ones \in SUBSET Nat
  BY <1>1
<1> QED
  BY <1>1, <1>2, <1>3

\* A number behind a run
LEMMA ThenIs ==
  ASSUME NEW s \in Run, NEW n \in Nat, NEW v \in SUBSET (0 .. n - 1)
  PROVE  /\ Then(s, v, n) \in Run
         /\ Then(s, v, n).len = s.len + n
         /\ \A x \in Nat : x \in Then(s, v, n).ones
                             <=> x \in s.ones \/ (x >= s.len /\ x - s.len \in v)
         /\ Low(Then(s, v, n).ones, s.len) = s.ones
<1> DEFINE t == Then(s, v, n)
           L == s.len
           O == s.ones
           V == Shl(v, L)
<1>1. L \in Nat /\ O \in SUBSET Nat /\ O \subseteq 0 .. L - 1
  BY InRun
<1>2. t = [len |-> L + n, ones |-> O \cup V]
  BY DEF Then
<1>3. t.len = L + n /\ t.ones = O \cup V
  BY <1>2
<1> HIDE DEF t, L, O, V
<1>4. V \in SUBSET Nat /\ \A x \in Nat : x \in V <=> x >= L /\ x - L \in v
  <2>1. v \in SUBSET Nat
    OBVIOUS
  <2> QED
    BY <1>1, <2>1, InShl DEF V
<1>5. O \cup V \in SUBSET (0 .. (L + n) - 1)
  <2>1. ASSUME NEW x \in V PROVE x \in 0 .. (L + n) - 1
    <3>1. x \in Nat /\ x >= L /\ x - L \in 0 .. n - 1
      BY <1>4
    <3> QED
      BY <1>1, <3>1
  <2>2. ASSUME NEW x \in O PROVE x \in 0 .. (L + n) - 1
    <3>1. x \in 0 .. L - 1
      BY <1>1
    <3> QED
      BY <1>1, <3>1
  <2> QED
    BY <2>1, <2>2
<1>6. t \in Run
  BY <1>1, <1>2, <1>5, RunIs
<1>7. \A x \in Nat : x \in t.ones <=> x \in O \/ (x >= L /\ x - L \in v)
  BY <1>3, <1>4
<1>8. Low(t.ones, L) = O
  <2>1. ASSUME NEW x \in V PROVE x \notin 0 .. L - 1
    BY <1>1, <1>4
  <2> QED
    BY <1>1, <1>3, <2>1 DEF Low
<1> QED
  BY <1>3, <1>6, <1>7, <1>8 DEF t, L, O

\* Two numbers behind a run are one.
LEMMA ThenThen ==
  ASSUME NEW s \in Run, NEW n \in Nat, NEW v \in SUBSET (0 .. n - 1),
         NEW m \in Nat, NEW w \in SUBSET (0 .. m - 1)
  PROVE  /\ v \cup Shl(w, n) \in SUBSET (0 .. (n + m) - 1)
         /\ Then(Then(s, v, n), w, m) = Then(s, v \cup Shl(w, n), n + m)
<1> DEFINE L == s.len
<1>1. L \in Nat
  BY InRun
<1>2. w \in SUBSET Nat /\ v \in SUBSET Nat
  OBVIOUS
<1>3. Shl(w, n) \in SUBSET Nat /\ \A x \in Nat : x \in Shl(w, n) <=> x >= n /\ x - n \in w
  BY <1>2, InShl
<1> DEFINE u == v \cup Shl(w, n)
<1>4. u \in SUBSET (0 .. (n + m) - 1) /\ u \in SUBSET Nat
  <2>1. ASSUME NEW x \in Shl(w, n) PROVE x \in 0 .. (n + m) - 1
    <3>1. x \in Nat /\ x >= n /\ x - n \in 0 .. m - 1
      BY <1>3
    <3> QED
      BY <3>1
  <2>2. ASSUME NEW x \in v PROVE x \in 0 .. (n + m) - 1
    <3>1. x \in 0 .. n - 1
      OBVIOUS
    <3> QED
      BY <3>1
  <2>3. \A x \in u : x \in 0 .. (n + m) - 1
    BY <2>1, <2>2
  <2> HIDE DEF u
  <2> QED
    BY <2>3
<1>5. Shl(u, L) = Shl(v, L) \cup Shl(w, L + n)
  <2>1. /\ Shl(u, L) \in SUBSET Nat /\ \A x \in Nat : x \in Shl(u, L) <=> x >= L /\ x - L \in u
    BY <1>1, <1>4, InShl
  <2>2. /\ Shl(v, L) \in SUBSET Nat /\ \A x \in Nat : x \in Shl(v, L) <=> x >= L /\ x - L \in v
    BY <1>1, <1>2, InShl
  <2>3. /\ Shl(w, L + n) \in SUBSET Nat
        /\ \A x \in Nat : x \in Shl(w, L + n) <=> x >= L + n /\ x - (L + n) \in w
    BY <1>1, <1>2, InShl, L + n \in Nat
  <2>4. ASSUME NEW x \in Nat
        PROVE  x \in Shl(u, L) <=> x \in Shl(v, L) \cup Shl(w, L + n)
    <3>1. CASE x >= L
      <4>1. x - L \in Nat /\ (x - L) - n = x - (L + n) /\ (x - L >= n <=> x >= L + n)
        BY <1>1, <3>1
      <4>2. x - L \in Shl(w, n) <=> x - L >= n /\ (x - L) - n \in w
        BY <1>3, <4>1
      <4> QED
        BY <2>1, <2>2, <2>3, <3>1, <4>1, <4>2
    <3>2. CASE ~(x >= L)
      <4>1. ~(x >= L + n)
        BY <1>1, <3>2
      <4> QED
        BY <2>1, <2>2, <2>3, <3>2, <4>1
    <3> QED
      BY <3>1, <3>2
  <2> HIDE DEF u, L
  <2> QED
    BY <2>1, <2>2, <2>3, <2>4
<1>6. (L + n) + m = L + (n + m)
  BY <1>1
<1>7. Then(Then(s, v, n), w, m) =
        [len |-> (L + n) + m, ones |-> (s.ones \cup Shl(v, L)) \cup Shl(w, L + n)]
  BY DEF Then
<1>8. Then(s, u, n + m) = [len |-> L + (n + m), ones |-> s.ones \cup Shl(u, L)]
  BY DEF Then
<1> HIDE DEF u, L
<1>9. Then(Then(s, v, n), w, m) = Then(s, u, n + m)
  BY <1>5, <1>6, <1>7, <1>8
<1> QED
  BY <1>4, <1>9 DEF u

\* Nothing behind a run
LEMMA ThenNothing ==
  ASSUME NEW s \in Run
  PROVE  Then(s, {}, 0) = s
<1>1. s.len \in Nat /\ s = [len |-> s.len, ones |-> s.ones]
  BY InRun
<1>2. Shl({}, s.len) = {} /\ s.len + 0 = s.len
  BY <1>1 DEF Shl
<1> QED
  BY <1>1, <1>2 DEF Then

\* What is read at the end of s of a stream that goes on with v.
LEMMA Reads ==
  ASSUME NEW s \in Run, NEW n \in Nat, NEW v \in SUBSET (0 .. n - 1), NEW w \in SUBSET Nat,
         NEW k \in Nat, k >= s.len + n, Low(w, s.len + n) = Then(s, v, n).ones
  PROVE  Low(Shr(Low(w, k), s.len), n) = v
<1> DEFINE L == s.len
<1>1. L \in Nat /\ s.ones \subseteq 0 .. L - 1
  BY InRun
<1>2. \A x \in Nat : x \in Then(s, v, n).ones <=> x \in s.ones \/ (x >= L /\ x - L \in v)
  BY ThenIs
<1>3. Low(w, k) \in SUBSET Nat
  BY DEF Low
<1>4. Shr(Low(w, k), L) \in SUBSET Nat
      /\ \A x \in Nat : x \in Shr(Low(w, k), L) <=> x + L \in Low(w, k)
  BY <1>1, <1>3, InShr
<1>5. ASSUME NEW x \in 0 .. n - 1 PROVE x \in Shr(Low(w, k), L) <=> x \in v
  <2>1. x \in Nat /\ x + L \in 0 .. (L + n) - 1 /\ x + L \in 0 .. k - 1
        /\ x + L >= L /\ (x + L) - L = x /\ x + L \notin 0 .. L - 1 /\ x + L \in Nat
    BY <1>1
  <2>2. x + L \in Low(w, k) <=> x + L \in Low(w, L + n)
    BY <2>1 DEF Low
  <2>3. x + L \in Then(s, v, n).ones <=> x \in v
    BY <1>1, <1>2, <2>1
  <2> QED
    BY <1>4, <2>1, <2>2, <2>3
<1> HIDE DEF L
<1>6. Low(Shr(Low(w, k), L), n) = v
  BY <1>5 DEF Low
<1> QED
  BY <1>6 DEF L

\* Zeros up to a whole byte
LEMMA PaddedIs ==
  ASSUME NEW d \in Nat \ {0}, NEW k \in Nat, NEW x \in Nat, x <= k * d, k * d < x + d
  PROVE  x + ((d - (x % d)) % d) = k * d
<1> DEFINE p == k * d - x
<1>1. k * d \in Nat
  BY Multiples
<1>2. p \in 0 .. d - 1 /\ x = k * d - p
  BY <1>1
<1>3. CASE p = 0
  <2>1. x = k * d
    BY <1>1, <1>3
  <2>2. x % d = 0
    BY <2>1, SMT
  <2>3. (d - 0) % d = 0
    BY SMT
  <2> QED
    BY <1>1, <2>1, <2>2, <2>3
<1>4. CASE p # 0
  <2>1. k # 0
    <3> SUFFICES ASSUME k = 0 PROVE FALSE
      OBVIOUS
    <3>1. k * d = 0
      BY SMT
    <3> QED
      BY <1>2, <1>4, <3>1
  <2>2. PICK j \in Nat : k = j + 1
    BY <2>1, k - 1 \in Nat, k = (k - 1) + 1
  <2>3. k * d = j * d + d /\ j * d \in Nat
    BY <2>2, Multiples
  <2>4. d - p \in 0 .. d - 1 /\ x = j * d + (d - p)
    BY <1>2, <1>4, <2>3
  <2> HIDE DEF p
  <2>5. x % d = d - p
    <3>1. ASSUME NEW e \in 0 .. d - 1, x = j * d + e PROVE x % d = e
      BY <3>1, SMT
    <3> QED
      BY <2>4, <3>1
  <2>6. d - (x % d) = p /\ p \in 0 .. d - 1
    BY <1>2, <2>5
  <2>7. p % d = p
    BY <2>6
  <2>8. x + p = k * d
    BY <1>1, <1>2
  <2> QED
    BY <2>6, <2>7, <2>8
<1> QED
  BY <1>3, <1>4

----------------------------------------------------------------------------
(***************************************************************************)
(* Bytes as runs.                                                          *)
(***************************************************************************)

Byte == SUBSET (0 .. BYTE - 1)

OfOut(out) == [len |-> Len(out) * BYTE, ones |-> OfBytes(out)]

\* Bit j of byte i
LEMMA InBytes ==
  ASSUME SizeAssumption, NEW bytes \in Seq(Byte)
  PROVE  /\ OfBytes(bytes) \in SUBSET Nat
         /\ OfBytes(bytes) \subseteq 0 .. Len(bytes) * BYTE - 1
         /\ \A i \in Nat, j \in 0 .. BYTE - 1 :
              i * BYTE + j \in OfBytes(bytes) <=> i < Len(bytes) /\ j \in bytes[i + 1]
<1>1. BYTE \in Nat \ {0} /\ Len(bytes) \in Nat /\ DOMAIN bytes = 1 .. Len(bytes)
      /\ \A i \in 1 .. Len(bytes) : bytes[i] \in Byte
  BY DEF SizeAssumption
<1>2. Byte \subseteq SUBSET Nat
  BY <1>1 DEF Byte
<1>3. ASSUME NEW i \in Nat, i < Len(bytes)
      PROVE  /\ i + 1 \in DOMAIN bytes /\ (i + 1) - 1 = i /\ bytes[i + 1] \subseteq 0 .. BYTE - 1
             /\ i * BYTE \in Nat
             /\ Shl(bytes[i + 1], i * BYTE) \in SUBSET Nat
             /\ \A x \in Nat : x \in Shl(bytes[i + 1], i * BYTE)
                                 <=> x >= i * BYTE /\ x - i * BYTE \in bytes[i + 1]
  <2>1. i + 1 \in 1 .. Len(bytes) /\ (i + 1) - 1 = i
    BY <1>1, <1>3
  <2>2. bytes[i + 1] \in Byte
    BY <1>1, <2>1
  <2>3. bytes[i + 1] \in SUBSET Nat
    BY <1>2, <2>2
  <2>4. i * BYTE \in Nat
    BY <1>1, Multiples
  <2>5. bytes[i + 1] \subseteq 0 .. BYTE - 1
    BY <2>2 DEF Byte
  <2> QED
    BY <1>1, <2>1, <2>3, <2>4, <2>5, InShl
<1>4. ASSUME NEW x \in OfBytes(bytes)
      PROVE  \E i \in Nat : \E j \in 0 .. BYTE - 1 :
               i < Len(bytes) /\ j \in bytes[i + 1] /\ x = i * BYTE + j
  <2>1. PICK k \in DOMAIN bytes : x \in Shl(bytes[k], (k - 1) * BYTE)
    BY Zenon DEF OfBytes
  <2>2. PICK i \in Nat : k = i + 1 /\ i = k - 1 /\ i < Len(bytes)
    <3>1. k - 1 \in Nat /\ k = (k - 1) + 1 /\ k - 1 < Len(bytes)
      BY <1>1
    <3> QED
      BY <3>1
  <2>3. x \in Shl(bytes[i + 1], i * BYTE)
    BY <2>1, <2>2
  <2>4. /\ x \in Nat /\ i * BYTE \in Nat /\ x >= i * BYTE /\ x - i * BYTE \in bytes[i + 1]
        /\ bytes[i + 1] \subseteq 0 .. BYTE - 1
    BY <1>3, <2>2, <2>3
  <2>5. x = i * BYTE + (x - i * BYTE)
    BY <2>4
  <2>6. x - i * BYTE \in 0 .. BYTE - 1
    BY <2>4
  <2> QED
    BY <2>2, <2>4, <2>5, <2>6
<1>5. ASSUME NEW x \in OfBytes(bytes) PROVE x \in 0 .. Len(bytes) * BYTE - 1
  <2>1. PICK i \in Nat, j \in 0 .. BYTE - 1 : i < Len(bytes) /\ x = i * BYTE + j
    BY <1>4
  <2>2. i * BYTE + BYTE <= Len(bytes) * BYTE /\ i * BYTE \in Nat /\ Len(bytes) * BYTE \in Nat
    BY <1>1, <2>1, Multiples
  <2> QED
    BY <1>1, <2>1, <2>2
<1>6. ASSUME NEW i \in Nat, NEW j \in 0 .. BYTE - 1, i * BYTE + j \in OfBytes(bytes)
      PROVE  i < Len(bytes) /\ j \in bytes[i + 1]
  <2>1. PICK k \in Nat, m \in 0 .. BYTE - 1 :
          k < Len(bytes) /\ m \in bytes[k + 1] /\ i * BYTE + j = k * BYTE + m
    BY <1>4, <1>6
  <2>2. i = k /\ j = m
    BY <1>1, <2>1, SplitOnce
  <2> QED
    BY <2>1, <2>2
<1>7. ASSUME NEW i \in Nat, NEW j \in 0 .. BYTE - 1, i < Len(bytes), j \in bytes[i + 1]
      PROVE  i * BYTE + j \in OfBytes(bytes)
  <2>1. PICK x \in Nat : x = i * BYTE + j /\ x >= i * BYTE /\ x - i * BYTE = j
    <3>1. i * BYTE \in Nat
      BY <1>1, Multiples
    <3>2. i * BYTE + j \in Nat /\ i * BYTE + j >= i * BYTE /\ (i * BYTE + j) - i * BYTE = j
      BY <1>1, <3>1
    <3> QED
      BY <3>2
  <2>2. x \in Shl(bytes[i + 1], i * BYTE)
    BY <1>3, <1>7, <2>1
  <2>3. i + 1 \in DOMAIN bytes /\ Shl(bytes[i + 1], i * BYTE) = Shl(bytes[i + 1], ((i + 1) - 1) * BYTE)
    BY <1>3, <1>7
  <2>4. x \in OfBytes(bytes)
    BY <2>2, <2>3, Zenon DEF OfBytes
  <2> QED
    BY <2>1, <2>4
<1>8. OfBytes(bytes) \subseteq 0 .. Len(bytes) * BYTE - 1 /\ OfBytes(bytes) \in SUBSET Nat
  BY <1>5
<1> QED
  BY <1>6, <1>7, <1>8

LEMMA OutIs ==
  ASSUME SizeAssumption, NEW out \in Seq(Byte)
  PROVE  OfOut(out) \in Run /\ OfOut(out).len = Len(out) * BYTE /\ OfOut(out).ones = OfBytes(out)
<1>1. Len(out) * BYTE \in Nat
  BY Multiples DEF SizeAssumption
<1>2. OfBytes(out) \in SUBSET (0 .. Len(out) * BYTE - 1)
  BY InBytes
<1> QED
  BY <1>1, <1>2, RunIs DEF OfOut

\* One byte more
LEMMA OneByte ==
  ASSUME SizeAssumption, NEW out \in Seq(Byte), NEW b \in Byte
  PROVE  Append(out, b) \in Seq(Byte) /\ OfOut(Append(out, b)) = Then(OfOut(out), b, BYTE)
<1> DEFINE m == Len(out)
           o == Append(out, b)
<1>1. /\ o \in Seq(Byte) /\ m \in Nat /\ Len(o) = m + 1 /\ BYTE \in Nat \ {0}
      /\ DOMAIN o = 1 .. m + 1 /\ DOMAIN out = 1 .. m
      /\ o[m + 1] = b /\ \A i \in 1 .. m : o[i] = out[i]
  BY DEF SizeAssumption
<1>2. Len(o) * BYTE = m * BYTE + BYTE
  BY <1>1, Multiples
<1> HIDE DEF o, m
<1>3. OfBytes(o) = OfBytes(out) \cup Shl(b, m * BYTE)
  <2>1. DOMAIN o = DOMAIN out \cup {m + 1} /\ (m + 1) - 1 = m
    BY <1>1
  <2>2. ASSUME NEW x
        PROVE  x \in OfBytes(o)
                 <=> (\E i \in DOMAIN out : x \in Shl(o[i], (i - 1) * BYTE))
                     \/ x \in Shl(o[m + 1], ((m + 1) - 1) * BYTE)
    BY <2>1, Zenon DEF OfBytes
  <2>3. ASSUME NEW x
        PROVE  x \in OfBytes(out) <=> \E i \in DOMAIN out : x \in Shl(out[i], (i - 1) * BYTE)
    BY Zenon DEF OfBytes
  <2>4. \A i \in DOMAIN out : o[i] = out[i]
    BY <1>1
  <2>5. Shl(o[m + 1], ((m + 1) - 1) * BYTE) = Shl(b, m * BYTE)
    BY <1>1, <2>1
  <2>6. ASSUME NEW x
        PROVE  x \in OfBytes(o) <=> x \in OfBytes(out) \/ x \in Shl(b, m * BYTE)
    <3>1. (\E i \in DOMAIN out : x \in Shl(o[i], (i - 1) * BYTE))
            <=> (\E i \in DOMAIN out : x \in Shl(out[i], (i - 1) * BYTE))
      BY <2>4, Zenon
    <3> QED
      BY <2>2, <2>3, <2>5, <3>1, Zenon
  <2>7. ASSUME NEW S, NEW T, NEW U, \A x : x \in S <=> x \in T \/ x \in U PROVE S = T \cup U
    BY <2>7
  <2> QED
    BY <2>6, <2>7, Zenon
<1>4. OfOut(o) = Then(OfOut(out), b, BYTE)
  BY <1>2, <1>3 DEF OfOut, Then, m
<1> QED
  BY <1>1, <1>4 DEF o

\* Bytes behind bytes
LEMMA MoreBytes ==
  ASSUME SizeAssumption, NEW out \in Seq(Byte), NEW raw \in Seq(Byte)
  PROVE  /\ out \o raw \in Seq(Byte)
         /\ OfOut(out \o raw) = Then(OfOut(out), OfBytes(raw), Len(raw) * BYTE)
<1> DEFINE m == Len(out)
           k == Len(raw)
           o == out \o raw
<1>1. /\ o \in Seq(Byte) /\ m \in Nat /\ k \in Nat /\ Len(o) = m + k /\ BYTE \in Nat \ {0}
      /\ \A i \in 1 .. m : o[i] = out[i]
      /\ \A i \in 1 .. k : o[m + i] = raw[i]
  BY DEF SizeAssumption
<1>2. Len(o) * BYTE = m * BYTE + k * BYTE /\ m * BYTE \in Nat
  BY <1>1, Multiples
<1> HIDE DEF o, m, k
<1>3. /\ OfBytes(o) \in SUBSET Nat
      /\ \A i \in Nat, j \in 0 .. BYTE - 1 :
           i * BYTE + j \in OfBytes(o) <=> i < m + k /\ j \in o[i + 1]
  BY <1>1, InBytes
<1>4. /\ OfBytes(out) \in SUBSET Nat
      /\ \A i \in Nat, j \in 0 .. BYTE - 1 :
           i * BYTE + j \in OfBytes(out) <=> i < m /\ j \in out[i + 1]
  BY <1>1, InBytes DEF m
<1>5. /\ OfBytes(raw) \in SUBSET Nat
      /\ \A i \in Nat, j \in 0 .. BYTE - 1 :
           i * BYTE + j \in OfBytes(raw) <=> i < k /\ j \in raw[i + 1]
  BY <1>1, InBytes DEF k
<1>6. /\ Shl(OfBytes(raw), m * BYTE) \in SUBSET Nat
      /\ \A x \in Nat : x \in Shl(OfBytes(raw), m * BYTE)
                          <=> x >= m * BYTE /\ x - m * BYTE \in OfBytes(raw)
  BY <1>2, <1>5, InShl
<1>7. ASSUME NEW x \in Nat
      PROVE  x \in OfBytes(o) <=> x \in OfBytes(out) \cup Shl(OfBytes(raw), m * BYTE)
  <2>1. PICK i \in Nat, j \in 0 .. BYTE - 1 : x = i * BYTE + j
    BY <1>1, Split
  <2>2. CASE i < m
    <3>1. i + 1 \in 1 .. m /\ o[i + 1] = out[i + 1] /\ i < m + k
      BY <1>1, <2>2
    <3>2. i * BYTE + BYTE <= m * BYTE /\ i * BYTE \in Nat
      BY <1>1, <2>2, Multiples
    <3>3. ~(x >= m * BYTE)
      <4>1. x < i * BYTE + BYTE
        BY <1>1, <2>1, <3>2
      <4>2. \A a, c, e \in Nat : x < a + e /\ a + e <= c => ~(x >= c)
        OBVIOUS
      <4> QED
        BY <1>1, <1>2, <3>2, <4>1, <4>2
    <3> QED
      BY <1>3, <1>4, <1>6, <2>1, <2>2, <3>1, <3>3
  <2>3. CASE ~(i < m)
    <3>1. PICK q \in Nat : i = m + q
      BY <1>1, <2>3, i - m \in Nat, i = m + (i - m)
    <3>2. i * BYTE = m * BYTE + q * BYTE /\ q * BYTE \in Nat
      BY <1>1, <3>1, Multiples
    <3>3. x >= m * BYTE /\ x - m * BYTE = q * BYTE + j
      <4>1. PICK u \in Nat, w \in Nat : u = m * BYTE /\ w = q * BYTE
        BY <1>2, <3>2
      <4>2. x = (u + w) + j /\ j \in Nat
        BY <1>1, <2>1, <3>2, <4>1
      <4>3. x >= u /\ x - u = w + j
        BY <4>2
      <4> QED
        BY <4>1, <4>3
    <3>4. (i < m + k <=> q < k) /\ (q < k => q + 1 \in 1 .. k /\ i + 1 = m + (q + 1))
      BY <1>1, <3>1
    <3>5. q < k => o[i + 1] = raw[q + 1]
      <4>1. \A e \in 1 .. k : o[m + e] = raw[e]
        BY <1>1
      <4>2. ASSUME q < k PROVE o[m + (q + 1)] = raw[q + 1]
        BY <3>4, <4>1, <4>2
      <4> QED
        BY <3>4, <4>2
    <3> QED
      BY <1>3, <1>4, <1>5, <1>6, <2>1, <2>3, <3>3, <3>4, <3>5
  <2> QED
    BY <2>2, <2>3
<1>8. OfBytes(o) = OfBytes(out) \cup Shl(OfBytes(raw), m * BYTE)
  BY <1>3, <1>4, <1>6, <1>7
<1>9. OfOut(o) = Then(OfOut(out), OfBytes(raw), Len(raw) * BYTE)
  BY <1>2, <1>8 DEF OfOut, Then, m, k
<1> QED
  BY <1>1, <1>9 DEF o

----------------------------------------------------------------------------
(***************************************************************************)
(* The encoder: each of its operations puts a number behind the run that   *)
(* the bytes sent and the bit buffer are together, and takes back no byte. *)
(***************************************************************************)

Stream(b) == Then(OfOut(b.out), b.buf, b.valid)

Packing(b) == b.out \in Seq(Byte) /\ b.valid \in 0 .. Buf_size /\ b.buf \in SUBSET (0 .. b.valid - 1)

Grows(o, p) == Len(o) <= Len(p) /\ Low(OfBytes(p), Len(o) * BYTE) = OfBytes(o)

LEMMA BufferSize ==
  ASSUME SizeAssumption
  PROVE  /\ BYTE \in Nat \ {0} /\ Buf_size = 2 * BYTE /\ Buf_size = BYTE + BYTE
         /\ Buf_size \in Nat \ {0} /\ HeaderBits = Buf_size + Buf_size
         /\ \A i \in Nat : (i + 2) * BYTE = i * BYTE + Buf_size
<1>1. BYTE \in Nat \ {0} /\ Buf_size = 2 * BYTE /\ HeaderBits = 2 * (2 * BYTE)
  BY DEF SizeAssumption, Buf_size, HeaderBits
<1>2. ASSUME NEW i \in Nat PROVE (i + 2) * BYTE = i * BYTE + 2 * BYTE
  BY <1>1, Multiples, 2 \in Nat
<1> QED
  BY <1>1, <1>2

LEMMA StreamIsRun ==
  ASSUME SizeAssumption, NEW b, Packing(b)
  PROVE  /\ Stream(b) \in Run /\ OfOut(b.out) \in Run
         /\ Stream(b).len = Len(b.out) * BYTE + b.valid
         /\ Low(Stream(b).ones, Len(b.out) * BYTE) = OfBytes(b.out)
<1>1. OfOut(b.out) \in Run /\ OfOut(b.out).len = Len(b.out) * BYTE
      /\ OfOut(b.out).ones = OfBytes(b.out)
  BY OutIs DEF Packing
<1>2. b.valid \in Nat /\ b.buf \in SUBSET (0 .. b.valid - 1)
  <2>1. b.valid \in 0 .. Buf_size /\ b.buf \in SUBSET (0 .. b.valid - 1)
    BY DEF Packing
  <2> QED
    BY <2>1, BufferSize
<1> QED
  BY <1>1, <1>2, ThenIs DEF Stream

LEMMA GrowsThen ==
  ASSUME SizeAssumption, NEW o \in Seq(Byte), NEW p \in Seq(Byte), NEW n \in Nat,
         NEW v \in SUBSET (0 .. n - 1), OfOut(p) = Then(OfOut(o), v, n), Len(o) <= Len(p)
  PROVE  Grows(o, p)
<1>1. OfOut(o) \in Run /\ OfOut(o).len = Len(o) * BYTE /\ OfOut(o).ones = OfBytes(o)
  BY OutIs
<1>2. OfOut(p).ones = OfBytes(p)
  BY OutIs
<1>3. Low(Then(OfOut(o), v, n).ones, OfOut(o).len) = OfOut(o).ones
  BY <1>1, ThenIs
<1> QED
  BY <1>1, <1>2, <1>3 DEF Grows

LEMMA GrowsOn ==
  ASSUME SizeAssumption, NEW o \in Seq(Byte), NEW p \in Seq(Byte), NEW q \in Seq(Byte),
         Grows(o, p), Grows(p, q)
  PROVE  Grows(o, q)
<1>1. Len(o) \in Nat /\ Len(p) \in Nat /\ Len(q) \in Nat /\ Len(o) <= Len(p) /\ Len(p) <= Len(q)
  BY DEF Grows
<1>2. BYTE \in Nat
  BY BufferSize
<1>3. Len(o) * BYTE <= Len(p) * BYTE /\ Len(o) * BYTE \in Nat /\ Len(p) * BYTE \in Nat
  BY <1>1, <1>2, Multiples
<1>4. (0 .. Len(o) * BYTE - 1) \subseteq (0 .. Len(p) * BYTE - 1)
  <2>1. \A a, c \in Nat : a <= c => (0 .. a - 1) \subseteq (0 .. c - 1)
    OBVIOUS
  <2> QED
    BY <1>3, <2>1
<1>5. Low(OfBytes(q), Len(p) * BYTE) = OfBytes(p) /\ Low(OfBytes(p), Len(o) * BYTE) = OfBytes(o)
  BY DEF Grows
<1>6. Low(OfBytes(q), Len(o) * BYTE) = OfBytes(o)
  BY <1>4, <1>5 DEF Low
<1> QED
  BY <1>1, <1>6 DEF Grows

LEMMA GrowsSame ==
  ASSUME SizeAssumption, NEW o \in Seq(Byte)
  PROVE  Grows(o, o)
<1>1. OfBytes(o) \subseteq 0 .. Len(o) * BYTE - 1
  BY InBytes
<1> QED
  BY <1>1 DEF Grows, Low

LEMMA PutByte ==
  ASSUME SizeAssumption, NEW out \in Seq(Byte), NEW w
  PROVE  /\ put_byte(out, w) \in Seq(Byte)
         /\ Low(w, BYTE) \in SUBSET (0 .. BYTE - 1)
         /\ OfOut(put_byte(out, w)) = Then(OfOut(out), Low(w, BYTE), BYTE)
         /\ Len(put_byte(out, w)) = Len(out) + 1
         /\ Grows(out, put_byte(out, w))
<1>1. Low(w, BYTE) \in Byte /\ Byte = SUBSET (0 .. BYTE - 1) /\ BYTE \in Nat
  BY BufferSize DEF Low, Byte
<1>2. put_byte(out, w) \in Seq(Byte)
      /\ OfOut(put_byte(out, w)) = Then(OfOut(out), Low(w, BYTE), BYTE)
  BY <1>1, OneByte DEF put_byte
<1>3. Len(put_byte(out, w)) = Len(out) + 1
  BY <1>1 DEF put_byte
<1>4. Grows(out, put_byte(out, w))
  <2>1. Len(out) <= Len(put_byte(out, w))
    BY <1>3
  <2> QED
    BY <1>1, <1>2, <2>1, GrowsThen
<1> QED
  BY <1>1, <1>2, <1>3, <1>4

LEMMA PutShort ==
  ASSUME SizeAssumption, NEW out \in Seq(Byte), NEW w \in SUBSET (0 .. Buf_size - 1)
  PROVE  /\ put_short(out, w) \in Seq(Byte)
         /\ OfOut(put_short(out, w)) = Then(OfOut(out), w, Buf_size)
         /\ Len(put_short(out, w)) = Len(out) + 2
         /\ Grows(out, put_short(out, w))
<1> DEFINE o == put_byte(out, w)
           h == Shr(w, BYTE)
           p == put_byte(o, h)
<1>1. p = put_short(out, w)
  BY DEF put_short, put_byte
<1>2. BYTE \in Nat \ {0} /\ Buf_size = BYTE + BYTE
  BY BufferSize
<1>3. /\ o \in Seq(Byte) /\ OfOut(o) = Then(OfOut(out), Low(w, BYTE), BYTE)
      /\ Len(o) = Len(out) + 1 /\ Grows(out, o) /\ Low(w, BYTE) \in SUBSET (0 .. BYTE - 1)
  BY PutByte
<1> HIDE DEF o, h
<1>4. /\ p \in Seq(Byte) /\ OfOut(p) = Then(OfOut(o), Low(h, BYTE), BYTE)
      /\ Len(p) = Len(o) + 1 /\ Grows(o, p) /\ Low(h, BYTE) \in SUBSET (0 .. BYTE - 1)
  BY <1>3, PutByte
<1> HIDE DEF p
<1>5. OfOut(out) \in Run
  BY OutIs
<1>6. OfOut(p) = Then(OfOut(out), Low(w, BYTE) \cup Shl(Low(h, BYTE), BYTE), BYTE + BYTE)
  <2>1. Then(Then(OfOut(out), Low(w, BYTE), BYTE), Low(h, BYTE), BYTE)
          = Then(OfOut(out), Low(w, BYTE) \cup Shl(Low(h, BYTE), BYTE), BYTE + BYTE)
    <3>1. BYTE \in Nat
      BY <1>2
    <3> QED
      BY <1>3, <1>4, <1>5, <3>1, ThenThen, Zenon
  <2> QED
    BY <1>3, <1>4, <2>1
<1>7. Low(w, BYTE) \cup Shl(Low(h, BYTE), BYTE) = w
  <2>1. w \in SUBSET Nat
    BY <1>2
  <2>2. h \in SUBSET Nat /\ \A x \in Nat : x \in h <=> x + BYTE \in w
    BY <1>2, <2>1, InShr DEF h
  <2>3. Low(h, BYTE) \in SUBSET Nat /\ Low(w, BYTE) \in SUBSET Nat
    BY <2>1, <2>2 DEF Low
  <2>4. /\ Shl(Low(h, BYTE), BYTE) \in SUBSET Nat
        /\ \A x \in Nat : x \in Shl(Low(h, BYTE), BYTE) <=> x >= BYTE /\ x - BYTE \in Low(h, BYTE)
    BY <1>2, <2>3, InShl
  <2>5. ASSUME NEW x \in Nat
        PROVE  x \in Low(w, BYTE) \cup Shl(Low(h, BYTE), BYTE) <=> x \in w
    <3>1. CASE x < BYTE
      <4>1. x \in 0 .. BYTE - 1
        BY <1>2, <3>1
      <4>2. ~(x >= BYTE)
        BY <1>2, <3>1
      <4> QED
        BY <2>4, <4>1, <4>2 DEF Low
    <3>2. CASE x >= BYTE
      <4>1. x - BYTE \in Nat /\ (x - BYTE) + BYTE = x /\ x \notin 0 .. BYTE - 1
        BY <1>2, <3>2
      <4>2. x \in w => x - BYTE \in 0 .. BYTE - 1
        <5> SUFFICES ASSUME x \in w PROVE x - BYTE \in 0 .. BYTE - 1
          OBVIOUS
        <5>1. x \in 0 .. (BYTE + BYTE) - 1
          BY <1>2
        <5> QED
          BY <1>2, <3>2, <5>1
      <4>3. x - BYTE \in Low(h, BYTE) <=> x \in w
        BY <2>2, <4>1, <4>2 DEF Low
      <4> QED
        BY <2>4, <3>2, <4>1, <4>3 DEF Low
    <3> QED
      BY <1>2, <3>1, <3>2
  <2> QED
    BY <2>1, <2>3, <2>4, <2>5
<1>8. Grows(out, p)
  BY <1>3, <1>4, GrowsOn
<1>9. Len(p) = Len(out) + 2
  BY <1>3, <1>4
<1> QED
  BY <1>1, <1>2, <1>4, <1>6, <1>7, <1>8, <1>9

\* send_bits()
LEMMA SendBits ==
  ASSUME SizeAssumption, NEW b, Packing(b), NEW n \in 1 .. Buf_size - 1,
         NEW v \in SUBSET (0 .. n - 1)
  PROVE  LET r == send_bits(b, v, n)
         IN  Packing(r) /\ Stream(r) = Then(Stream(b), v, n) /\ Grows(b.out, r.out)
<1> DEFINE r == send_bits(b, v, n)
           all == b.buf \cup Shl(v, b.valid)
           filled == Low(all, Buf_size)
           c == Carried(b, v)
<1>1. /\ b.out \in Seq(Byte) /\ b.valid \in 0 .. Buf_size
      /\ b.buf \in SUBSET (0 .. b.valid - 1) /\ b.valid \in Nat
      /\ n \in Nat /\ Buf_size \in Nat
  <2>1. /\ b.out \in Seq(Byte) /\ b.valid \in 0 .. Buf_size
        /\ b.buf \in SUBSET (0 .. b.valid - 1)
    BY DEF Packing
  <2>2. Buf_size \in Nat
    BY BufferSize
  <2> QED
    BY <2>1, <2>2
<1>2. v \in SUBSET Nat
  OBVIOUS
<1>3. Shl(v, b.valid) \in SUBSET Nat
      /\ \A x \in Nat : x \in Shl(v, b.valid) <=> x >= b.valid /\ x - b.valid \in v
  BY <1>1, <1>2, InShl
<1>4. OfOut(b.out) \in Run
  BY <1>1, OutIs
<1>5. /\ all \in SUBSET (0 .. (b.valid + n) - 1)
      /\ Then(Stream(b), v, n) = Then(OfOut(b.out), all, b.valid + n)
  <2>1. PICK s \in Run, e \in Nat, w \in SUBSET (0 .. b.valid - 1) :
          s = OfOut(b.out) /\ e = b.valid /\ w = b.buf
    BY <1>1, <1>4
  <2>2. w \in SUBSET (0 .. e - 1)
    BY <1>1, <2>1
  <2>3. /\ w \cup Shl(v, e) \in SUBSET (0 .. (e + n) - 1)
        /\ Then(Then(s, w, e), v, n) = Then(s, w \cup Shl(v, e), e + n)
    <3>1. n \in Nat
      BY <1>1
    <3> QED
      BY <2>2, <3>1, ThenThen, Zenon
  <2> QED
    BY <2>1, <2>3 DEF Stream
<1>6. ASSUME Spills(b, n)
      PROVE  /\ r.buf = c /\ r.valid = (b.valid + n) - Buf_size
             /\ r.out = put_short(b.out, filled)
  <2>1. r = [buf |-> c, valid |-> b.valid + (n - Buf_size), out |-> put_short(b.out, filled)]
    BY <1>6 DEF send_bits
  <2>2. b.valid + (n - Buf_size) = (b.valid + n) - Buf_size
    BY <1>1
  <2> HIDE DEF r, c, filled
  <2> QED
    BY <2>1, <2>2
<1>7. ASSUME ~Spills(b, n)
      PROVE  r.buf = filled /\ r.valid = b.valid + n /\ r.out = b.out
  BY <1>7 DEF send_bits
<1> HIDE DEF r, all, filled
<1>8. CASE Spills(b, n)
  <2>1. b.valid + n > Buf_size /\ (b.valid + n) - Buf_size \in 0 .. Buf_size
        /\ Buf_size - b.valid \in Nat
    BY <1>1, <1>8 DEF Spills
  <2>2. filled \in SUBSET (0 .. Buf_size - 1)
    BY <1>1 DEF filled, Low
  <2>3. /\ r.out \in Seq(Byte) /\ OfOut(r.out) = Then(OfOut(b.out), filled, Buf_size)
        /\ Grows(b.out, r.out)
    BY <1>1, <1>6, <1>8, <2>2, PutShort
  <2>4. c \in SUBSET Nat /\ \A x \in Nat : x \in c <=> x + (Buf_size - b.valid) \in v
    BY <1>2, <2>1, InShr DEF Carried
  <2> HIDE DEF c
  <2>5. c \in SUBSET (0 .. ((b.valid + n) - Buf_size) - 1)
    <3> SUFFICES ASSUME NEW x \in c PROVE x \in 0 .. ((b.valid + n) - Buf_size) - 1
      OBVIOUS
    <3>1. x \in Nat /\ x + (Buf_size - b.valid) \in 0 .. n - 1
      BY <2>4
    <3>2. PICK u \in Nat, z \in Nat : u = Buf_size /\ z = b.valid
      BY <1>1
    <3>3. x + (u - z) < n /\ n \in Nat
      BY <1>1, <3>1, <3>2
    <3>4. x < (z + n) - u
      BY <3>1, <3>3
    <3> QED
      BY <3>1, <3>2, <3>4
  <2>6. Packing(r)
    BY <1>6, <1>8, <2>1, <2>3, <2>5 DEF Packing
  <2>7. Stream(r) = Then(Then(OfOut(b.out), filled, Buf_size), c, (b.valid + n) - Buf_size)
    BY <1>6, <1>8, <2>3 DEF Stream
  <2>8. Stream(r) = Then(OfOut(b.out), filled \cup Shl(c, Buf_size),
                         Buf_size + ((b.valid + n) - Buf_size))
    <3>1. PICK s \in Run, e \in Nat : s = OfOut(b.out) /\ e = (b.valid + n) - Buf_size
      BY <1>4, <2>1
    <3>2. c \in SUBSET (0 .. e - 1)
      BY <2>5, <3>1
    <3>3. Then(Then(s, filled, Buf_size), c, e) = Then(s, filled \cup Shl(c, Buf_size), Buf_size + e)
      <4>1. Buf_size \in Nat
        BY <1>1
      <4> QED
        BY <2>2, <3>2, <4>1, ThenThen, Zenon
    <3> QED
      BY <2>7, <3>1, <3>3
  <2>9. Buf_size + ((b.valid + n) - Buf_size) = b.valid + n
    BY <1>1
  <2>10. filled \cup Shl(c, Buf_size) = all
    <3>1. Shl(c, Buf_size) \in SUBSET Nat
          /\ \A x \in Nat : x \in Shl(c, Buf_size) <=> x >= Buf_size /\ x - Buf_size \in c
      BY <1>1, <2>4, InShl
    <3>2. all \in SUBSET Nat /\ filled \in SUBSET Nat
      BY <1>5 DEF filled, Low
    <3>3. ASSUME NEW x \in Nat PROVE x \in filled \cup Shl(c, Buf_size) <=> x \in all
      <4>1. CASE x < Buf_size
        <5>1. x \in 0 .. Buf_size - 1 /\ ~(x >= Buf_size)
          BY <1>1, <4>1
        <5> QED
          BY <3>1, <5>1 DEF filled, Low
      <4>2. CASE x >= Buf_size
        <5>1. x - Buf_size \in Nat /\ x \notin 0 .. Buf_size - 1 /\ x >= b.valid
              /\ x \notin 0 .. b.valid - 1
              /\ (x - Buf_size) + (Buf_size - b.valid) = x - b.valid
          BY <1>1, <4>2
        <5>2. x - Buf_size \in c <=> x - b.valid \in v
          BY <2>4, <5>1
        <5>3. x \in all <=> x - b.valid \in v
          BY <1>1, <1>3, <5>1 DEF all
        <5> QED
          BY <3>1, <4>2, <5>1, <5>2, <5>3 DEF filled, Low
      <4> QED
        BY <1>1, <4>1, <4>2
    <3> QED
      BY <3>1, <3>2, <3>3
  <2> QED
    BY <1>5, <2>3, <2>6, <2>8, <2>9, <2>10 DEF r
<1>9. CASE ~Spills(b, n)
  <2>1. b.valid + n \in 0 .. Buf_size
    BY <1>1, <1>9 DEF Spills
  <2>2. filled = all
    <3>1. all \subseteq 0 .. Buf_size - 1
      BY <1>1, <1>5, <2>1
    <3> QED
      BY <3>1 DEF filled, Low
  <2>3. Packing(r)
    BY <1>1, <1>5, <1>7, <1>9, <2>1, <2>2 DEF Packing
  <2>4. Stream(r) = Then(OfOut(b.out), all, b.valid + n)
    BY <1>7, <1>9, <2>2 DEF Stream
  <2>5. Grows(b.out, r.out)
    BY <1>1, <1>7, <1>9, GrowsSame
  <2> QED
    BY <1>5, <2>3, <2>4, <2>5 DEF r
<1> QED
  BY <1>8, <1>9

\* A number's low bits and the rest
LEMMA LowHigh ==
  ASSUME NEW w \in SUBSET Nat, NEW n \in Nat
  PROVE  Low(w, n) \cup Shl(Shr(w, n), n) = w
<1>1. Shr(w, n) \in SUBSET Nat /\ \A x \in Nat : x \in Shr(w, n) <=> x + n \in w
  BY InShr
<1>2. /\ Shl(Shr(w, n), n) \in SUBSET Nat
      /\ \A x \in Nat : x \in Shl(Shr(w, n), n) <=> x >= n /\ x - n \in Shr(w, n)
  BY <1>1, InShl
<1>3. ASSUME NEW x \in Nat PROVE x \in Low(w, n) \cup Shl(Shr(w, n), n) <=> x \in w
  <2>1. CASE x < n
    <3>1. x \in 0 .. n - 1 /\ ~(x >= n)
      BY <2>1
    <3> QED
      BY <1>2, <3>1 DEF Low
  <2>2. CASE x >= n
    <3>1. x - n \in Nat /\ (x - n) + n = x /\ x \notin 0 .. n - 1
      BY <2>2
    <3> QED
      BY <1>1, <1>2, <2>2, <3>1 DEF Low
  <2> QED
    BY <2>1, <2>2
<1>4. Low(w, n) \in SUBSET Nat
  BY DEF Low
<1> QED
  BY <1>2, <1>3, <1>4

LEMMA EmptyIs ==
  ASSUME SizeAssumption, NEW out \in Seq(Byte)
  PROVE  Packing(Empty(out)) /\ Stream(Empty(out)) = OfOut(out) /\ Empty(out).out = out
<1>1. Empty(out).buf = {} /\ Empty(out).valid = 0 /\ Empty(out).out = out
  BY DEF Empty
<1>2. Packing(Empty(out))
  BY <1>1, BufferSize DEF Packing
<1>3. Stream(Empty(out)) = OfOut(out)
  BY <1>1, OutIs, ThenNothing DEF Stream
<1> QED
  BY <1>1, <1>2, <1>3

\* bi_flush()
LEMMA Flushes ==
  ASSUME SizeAssumption, NEW b, Packing(b)
  PROVE  LET r == bi_flush(b)
         IN  Packing(r) /\ Stream(r) = Stream(b) /\ Grows(b.out, r.out)
<1> DEFINE r == bi_flush(b)
<1>1. /\ b.out \in Seq(Byte) /\ b.valid \in 0 .. Buf_size
      /\ b.buf \in SUBSET (0 .. b.valid - 1)
  BY DEF Packing
<1>2. /\ b.valid \in Nat /\ Buf_size \in Nat /\ BYTE \in Nat /\ BYTE > 0 /\ Buf_size = BYTE + BYTE
      /\ b.buf \in SUBSET Nat
  <2>1. BYTE \in Nat /\ BYTE > 0 /\ Buf_size = BYTE + BYTE /\ Buf_size \in Nat
    BY BufferSize
  <2>2. b.valid \in Nat
    BY <1>1, <2>1
  <2>3. b.buf \in SUBSET Nat
    BY <1>1, <2>2
  <2> QED
    BY <2>1, <2>2, <2>3
<1>3. CASE b.valid = Buf_size
  <2>1. r = Empty(put_short(b.out, b.buf))
    <3>1. ~(b.valid >= BYTE /\ b.valid < Buf_size)
      BY <1>2, <1>3
    <3> QED
      BY <1>3, <3>1 DEF bi_flush
  <2>2. b.buf \in SUBSET (0 .. Buf_size - 1)
    BY <1>1, <1>3
  <2>3. /\ put_short(b.out, b.buf) \in Seq(Byte)
        /\ OfOut(put_short(b.out, b.buf)) = Then(OfOut(b.out), b.buf, Buf_size)
        /\ Grows(b.out, put_short(b.out, b.buf))
    BY <1>1, <2>2, PutShort
  <2> QED
    BY <1>3, <2>1, <2>3, EmptyIs DEF Stream
<1>4. CASE b.valid >= BYTE /\ b.valid < Buf_size
  <2> DEFINE h == Shr(b.buf, BYTE)
             o == put_byte(b.out, b.buf)
             l == Low(b.buf, BYTE)
  <2>1. r = [buf |-> h, valid |-> b.valid - BYTE, out |-> o]
    <3>1. b.valid # Buf_size
      BY <1>2, <1>4
    <3> QED
      BY <1>4, <3>1 DEF bi_flush
  <2>2. /\ o \in Seq(Byte) /\ l \in SUBSET (0 .. BYTE - 1)
        /\ OfOut(o) = Then(OfOut(b.out), l, BYTE) /\ Grows(b.out, o)
    BY <1>1, PutByte
  <2>3. b.valid - BYTE \in 0 .. Buf_size /\ b.valid - BYTE \in Nat /\ BYTE + (b.valid - BYTE) = b.valid
    BY <1>2, <1>4
  <2>4. h \in SUBSET (0 .. (b.valid - BYTE) - 1)
    <3>1. h \in SUBSET Nat /\ \A x \in Nat : x \in h <=> x + BYTE \in b.buf
      BY <1>2, InShr
    <3> SUFFICES ASSUME NEW x \in h PROVE x \in 0 .. (b.valid - BYTE) - 1
      OBVIOUS
    <3> HIDE DEF h
    <3>2. x \in Nat /\ x + BYTE \in 0 .. b.valid - 1
      BY <1>1, <3>1
    <3> QED
      BY <1>2, <3>2
  <2>5. l \cup Shl(h, BYTE) = b.buf
    BY <1>2, LowHigh
  <2> HIDE DEF h, o, l
  <2>6. r.buf = h /\ r.valid = b.valid - BYTE /\ r.out = o
    BY <2>1
  <2> HIDE DEF r
  <2>7. Packing(r)
    BY <2>2, <2>3, <2>4, <2>6 DEF Packing
  <2>8. OfOut(b.out) \in Run
    BY <1>1, OutIs
  <2>9. Then(Then(OfOut(b.out), l, BYTE), h, b.valid - BYTE)
          = Then(OfOut(b.out), l \cup Shl(h, BYTE), BYTE + (b.valid - BYTE))
    <3>1. PICK s \in Run, e \in Nat : s = OfOut(b.out) /\ e = b.valid - BYTE
      BY <2>3, <2>8
    <3>2. h \in SUBSET (0 .. e - 1)
      BY <2>4, <3>1
    <3>3. Then(Then(s, l, BYTE), h, e) = Then(s, l \cup Shl(h, BYTE), BYTE + e)
      <4>1. BYTE \in Nat /\ l \in SUBSET (0 .. BYTE - 1)
        BY <1>2, <2>2
      <4> QED
        BY <3>2, <4>1, ThenThen, Zenon
    <3> QED
      BY <3>1, <3>3
  <2>10. Stream(r) = Stream(b)
    BY <2>2, <2>3, <2>5, <2>6, <2>9 DEF Stream
  <2> QED
    BY <2>2, <2>6, <2>7, <2>10 DEF r
<1>5. CASE b.valid # Buf_size /\ ~(b.valid >= BYTE /\ b.valid < Buf_size)
  <2>1. r = b
    BY <1>5 DEF bi_flush
  <2> QED
    BY <1>1, <2>1, GrowsSame
<1> QED
  BY <1>3, <1>4, <1>5

\* Padding ends at a whole byte, less than a byte away.
LEMMA PadsTo ==
  ASSUME SizeAssumption, NEW s \in Run, NEW k \in Nat, s.len <= k * BYTE, k * BYTE < s.len + BYTE
  PROVE  Padded(s) = [len |-> k * BYTE, ones |-> s.ones]
<1>1. s.len \in Nat /\ s = [len |-> s.len, ones |-> s.ones]
  BY InRun
<1>2. BYTE \in Nat \ {0}
  BY BufferSize
<1>3. s.len + ((BYTE - (s.len % BYTE)) % BYTE) = k * BYTE
  BY <1>1, <1>2, PaddedIs
<1>4. PICK x : x = s.len + ((BYTE - (s.len % BYTE)) % BYTE)
  OBVIOUS
<1>5. Padded(s) = [s EXCEPT !.len = x]
  BY <1>4 DEF Padded
<1>6. Padded(s) = [len |-> x, ones |-> s.ones]
  BY <1>1, <1>5
<1> QED
  BY <1>3, <1>4, <1>6

LEMMA PaddedRun ==
  ASSUME SizeAssumption, NEW s \in Run
  PROVE  /\ Padded(s) \in Run /\ Padded(s).ones = s.ones
         /\ \E k \in Nat : Padded(s).len = k * BYTE
         /\ s.len <= Padded(s).len /\ Padded(s).len < s.len + BYTE
<1>1. s.len \in Nat /\ s.ones \in SUBSET Nat /\ s.ones \subseteq 0 .. s.len - 1
  BY InRun
<1>2. BYTE \in Nat \ {0}
  BY BufferSize
<1>3. \E k \in Nat : s.len <= k * BYTE /\ k * BYTE < s.len + BYTE
  <2>1. PICK i \in Nat, j \in 0 .. BYTE - 1 : s.len = i * BYTE + j
    BY <1>1, <1>2, Split
  <2>2. i * BYTE \in Nat /\ (i + 1) * BYTE = i * BYTE + BYTE /\ i + 1 \in Nat
    BY <1>2, Multiples
  <2>3. CASE j = 0
    <3>1. s.len <= i * BYTE /\ i * BYTE < s.len + BYTE
      BY <1>2, <2>1, <2>2, <2>3
    <3> QED
      BY <3>1
  <2>4. CASE j # 0
    <3>1. s.len <= (i + 1) * BYTE /\ (i + 1) * BYTE < s.len + BYTE
      BY <1>2, <2>1, <2>2, <2>4
    <3> QED
      BY <2>2, <3>1
  <2> QED
    BY <2>3, <2>4
<1>4. PICK k \in Nat : s.len <= k * BYTE /\ k * BYTE < s.len + BYTE
  BY <1>3
<1>5. Padded(s) = [len |-> k * BYTE, ones |-> s.ones]
  BY <1>4, PadsTo
<1>6. k * BYTE \in Nat
  BY <1>2, Multiples
<1>7. s.ones \in SUBSET (0 .. k * BYTE - 1)
  <2>1. \A a, c \in Nat : a <= c => (0 .. a - 1) \subseteq (0 .. c - 1)
    OBVIOUS
  <2> QED
    BY <1>1, <1>4, <1>6, <2>1
<1>8. Padded(s) \in Run
  BY <1>5, <1>6, <1>7, RunIs
<1>9. Padded(s).len = k * BYTE /\ Padded(s).ones = s.ones
  BY <1>5
<1> QED
  BY <1>4, <1>8, <1>9

\* bi_windup()
LEMMA Winds ==
  ASSUME SizeAssumption, NEW b, Packing(b)
  PROVE  LET r == bi_windup(b)
         IN  /\ Packing(r) /\ Stream(r) = Padded(Stream(b)) /\ Grows(b.out, r.out)
             /\ Stream(r) = OfOut(r.out)
<1> DEFINE r == bi_windup(b)
           m == Len(b.out)
<1>1. /\ b.out \in Seq(Byte) /\ b.valid \in 0 .. Buf_size
      /\ b.buf \in SUBSET (0 .. b.valid - 1)
  BY DEF Packing
<1>2. /\ b.valid \in Nat /\ Buf_size \in Nat /\ BYTE \in Nat /\ BYTE > 0 /\ Buf_size = BYTE + BYTE
      /\ b.buf \in SUBSET Nat /\ m \in Nat
  <2>1. BYTE \in Nat /\ BYTE > 0 /\ Buf_size = BYTE + BYTE /\ Buf_size \in Nat
    BY BufferSize
  <2>2. b.valid \in Nat /\ m \in Nat
    BY <1>1, <2>1
  <2>3. b.buf \in SUBSET Nat
    BY <1>1, <2>2
  <2> QED
    BY <2>1, <2>2, <2>3
<1>3. /\ OfOut(b.out) \in Run /\ OfOut(b.out).len = m * BYTE
      /\ OfOut(b.out).ones = OfBytes(b.out)
  BY <1>1, OutIs
<1>4. m * BYTE \in Nat /\ (m + 1) * BYTE = m * BYTE + BYTE
  BY <1>2, Multiples
<1>5. (m + 2) * BYTE = m * BYTE + Buf_size
  BY <1>2, BufferSize
<1>6. Stream(b) \in Run
  BY StreamIsRun
<1>7. Stream(b) = [len |-> m * BYTE + b.valid, ones |-> OfBytes(b.out) \cup Shl(b.buf, m * BYTE)]
  BY <1>3 DEF Stream, Then
<1>8. /\ Stream(b).len = m * BYTE + b.valid
      /\ Stream(b).ones = OfBytes(b.out) \cup Shl(b.buf, m * BYTE)
  BY <1>7
<1> DEFINE all == OfBytes(b.out) \cup Shl(b.buf, m * BYTE)
<1>9. CASE b.valid > BYTE
  <2>1. r = Empty(put_short(b.out, b.buf))
    <3>1. b.valid \notin 1 .. BYTE
      BY <1>2, <1>9
    <3> QED
      BY <1>9, <3>1 DEF bi_windup
  <2>2. b.buf \in SUBSET (0 .. Buf_size - 1)
    <3>1. (0 .. b.valid - 1) \subseteq (0 .. Buf_size - 1)
      BY <1>1, <1>2
    <3> QED
      BY <1>1, <3>1
  <2>3. /\ put_short(b.out, b.buf) \in Seq(Byte)
        /\ OfOut(put_short(b.out, b.buf)) = Then(OfOut(b.out), b.buf, Buf_size)
        /\ Grows(b.out, put_short(b.out, b.buf))
    BY <1>1, <2>2, PutShort
  <2>4. Then(OfOut(b.out), b.buf, Buf_size) = [len |-> m * BYTE + Buf_size, ones |-> all]
    BY <1>3 DEF Then
  <2>5. Padded(Stream(b)) = [len |-> (m + 2) * BYTE, ones |-> all]
    <3>1. Stream(b).len <= (m + 2) * BYTE /\ (m + 2) * BYTE < Stream(b).len + BYTE
      <4>1. b.valid <= Buf_size /\ Buf_size < b.valid + BYTE
        BY <1>1, <1>2, <1>9
      <4> QED
        BY <1>2, <1>4, <1>5, <1>8, <4>1
    <3>2. m + 2 \in Nat
      BY <1>2
    <3>3. Padded(Stream(b)) = [len |-> (m + 2) * BYTE, ones |-> Stream(b).ones]
      BY <1>6, <3>1, <3>2, PadsTo
    <3> QED
      BY <1>8, <3>3
  <2>6. OfOut(put_short(b.out, b.buf)) = Padded(Stream(b))
    BY <1>5, <2>3, <2>4, <2>5
  <2> QED
    BY <2>1, <2>3, <2>6, EmptyIs
<1>10. CASE b.valid \in 1 .. BYTE
  <2>1. r = Empty(put_byte(b.out, b.buf))
    <3>1. ~(b.valid > BYTE)
      BY <1>2, <1>10
    <3> QED
      BY <1>10, <3>1 DEF bi_windup
  <2>2. Low(b.buf, BYTE) = b.buf
    <3>1. (0 .. b.valid - 1) \subseteq (0 .. BYTE - 1)
      BY <1>2, <1>10
    <3> QED
      BY <1>1, <3>1 DEF Low
  <2>3. /\ put_byte(b.out, b.buf) \in Seq(Byte)
        /\ OfOut(put_byte(b.out, b.buf)) = Then(OfOut(b.out), b.buf, BYTE)
        /\ Grows(b.out, put_byte(b.out, b.buf))
    BY <1>1, <2>2, PutByte
  <2>4. Then(OfOut(b.out), b.buf, BYTE) = [len |-> m * BYTE + BYTE, ones |-> all]
    BY <1>3 DEF Then
  <2>5. Padded(Stream(b)) = [len |-> (m + 1) * BYTE, ones |-> all]
    <3>1. Stream(b).len <= (m + 1) * BYTE /\ (m + 1) * BYTE < Stream(b).len + BYTE
      <4>1. PICK u \in Nat, w \in Nat : u = m * BYTE /\ w = (m + 1) * BYTE
        BY <1>2, <1>8
      <4>2. /\ w = u + BYTE /\ Stream(b).len = u + b.valid
            /\ b.valid \in Nat /\ b.valid >= 1 /\ b.valid <= BYTE /\ BYTE \in Nat
        BY <1>2, <1>4, <1>8, <1>10, <4>1
      <4> QED
        BY <4>1, <4>2
    <3>2. m + 1 \in Nat
      BY <1>2
    <3>3. Padded(Stream(b)) = [len |-> (m + 1) * BYTE, ones |-> Stream(b).ones]
      BY <1>6, <3>1, <3>2, PadsTo
    <3> QED
      BY <1>8, <3>3
  <2>6. OfOut(put_byte(b.out, b.buf)) = Padded(Stream(b))
    BY <1>4, <2>3, <2>4, <2>5
  <2> QED
    BY <2>1, <2>3, <2>6, EmptyIs
<1>11. CASE b.valid = 0
  <2>1. r = Empty(b.out)
    <3>1. ~(b.valid > BYTE) /\ b.valid \notin 1 .. BYTE
      BY <1>2, <1>11
    <3> QED
      BY <3>1 DEF bi_windup
  <2>2. b.buf = {}
    BY <1>1, <1>11
  <2>3. Stream(b) = OfOut(b.out)
    BY <1>3, <1>11, <2>2, ThenNothing DEF Stream
  <2>4. Padded(Stream(b)) = OfOut(b.out)
    <3>1. Stream(b).len <= m * BYTE /\ m * BYTE < Stream(b).len + BYTE
      BY <1>2, <1>4, <1>8, <1>11
    <3>2. Padded(Stream(b)) = [len |-> m * BYTE, ones |-> Stream(b).ones]
      BY <1>2, <1>6, <3>1, PadsTo
    <3>3. OfOut(b.out) = [len |-> m * BYTE, ones |-> OfOut(b.out).ones]
      BY <1>3 DEF OfOut
    <3> QED
      BY <2>3, <3>2, <3>3
  <2> QED
    BY <1>1, <2>1, <2>4, EmptyIs, GrowsSame
<1> QED
  BY <1>1, <1>2, <1>9, <1>10, <1>11

----------------------------------------------------------------------------
(***************************************************************************)
(* Items and their layout.                                                 *)
(***************************************************************************)

BitItem ==
  {x \in [kind : {"bits"}, n : 1 .. Buf_size - 1, v : SUBSET Nat] : x.v \subseteq 0 .. x.n - 1}

StoredItem ==
  {x \in [kind : {"stored"}, raw : Seq(Byte)] : Len(x.raw) <= Buf_size}

Item == BitItem \cup StoredItem

LEMMA BitItemIs ==
  ASSUME NEW n \in 1 .. Buf_size - 1, NEW v \in SUBSET (0 .. n - 1), SizeAssumption
  PROVE  [kind |-> "bits", n |-> n, v |-> v] \in Item
<1> DEFINE x == [kind |-> "bits", n |-> n, v |-> v]
<1>1. v \in SUBSET Nat
  BY BufferSize
<1>2. /\ x \in [kind : {"bits"}, n : 1 .. Buf_size - 1, v : SUBSET Nat]
      /\ x.n = n /\ x.v = v
  BY <1>1
<1> HIDE DEF x
<1>3. x \in BitItem
  BY <1>2 DEF BitItem
<1> QED
  BY <1>3 DEF x, Item

LEMMA StoredItemIs ==
  ASSUME NEW raw \in Seq(Byte), Len(raw) <= Buf_size
  PROVE  [kind |-> "stored", raw |-> raw] \in Item
<1> DEFINE x == [kind |-> "stored", raw |-> raw]
<1>1. x \in [kind : {"stored"}, raw : Seq(Byte)] /\ x.raw = raw
  OBVIOUS
<1> HIDE DEF x
<1>2. x \in StoredItem
  BY <1>1 DEF StoredItem
<1> QED
  BY <1>2 DEF x, Item

LEMMA ItemIs ==
  ASSUME SizeAssumption, NEW x \in Item
  PROVE  \/ /\ x.kind = "bits" /\ x.n \in 1 .. Buf_size - 1 /\ x.n \in Nat
            /\ x.v \in SUBSET (0 .. x.n - 1)
            /\ x = [kind |-> "bits", n |-> x.n, v |-> x.v]
         \/ /\ x.kind = "stored" /\ x.raw \in Seq(Byte) /\ Len(x.raw) <= Buf_size
            /\ x = [kind |-> "stored", raw |-> x.raw]
<1>1. CASE x \in BitItem
  <2>1. x \in [kind : {"bits"}, n : 1 .. Buf_size - 1, v : SUBSET Nat] /\ x.v \subseteq 0 .. x.n - 1
    BY <1>1, Zenon DEF BitItem
  <2>2. x = [kind |-> "bits", n |-> x.n, v |-> x.v] /\ x.n \in 1 .. Buf_size - 1
    BY <2>1
  <2>3. x.kind = "bits" /\ x.n \in Nat
    BY <2>1, BufferSize
  <2> QED
    BY <2>1, <2>2, <2>3
<1>2. CASE x \in StoredItem
  <2>1. x \in [kind : {"stored"}, raw : Seq(Byte)] /\ Len(x.raw) <= Buf_size
    BY <1>2, Zenon DEF StoredItem
  <2>2. x = [kind |-> "stored", raw |-> x.raw] /\ x.kind = "stored" /\ x.raw \in Seq(Byte)
    BY <2>1
  <2> QED
    BY <2>1, <2>2
<1> QED
  BY <1>1, <1>2 DEF Item

\* One run begins with another.
Begins(s, t) == s.len <= t.len /\ Low(t.ones, s.len) = s.ones

LEMMA LowLow ==
  ASSUME NEW v, NEW i \in Nat, NEW j \in Nat, i <= j
  PROVE  Low(Low(v, j), i) = Low(v, i)
<1>1. (0 .. i - 1) \subseteq (0 .. j - 1)
  OBVIOUS
<1> QED
  BY <1>1 DEF Low

LEMMA BeginsOn ==
  ASSUME NEW s \in Run, NEW t \in Run, NEW u \in Run, Begins(s, t), Begins(t, u)
  PROVE  Begins(s, u)
<1>1. s.len \in Nat /\ t.len \in Nat /\ u.len \in Nat /\ s.len <= t.len /\ t.len <= u.len
  BY InRun DEF Begins
<1>2. Low(Low(u.ones, t.len), s.len) = Low(u.ones, s.len)
  BY <1>1, LowLow
<1> QED
  BY <1>1, <1>2 DEF Begins

LEMMA BeginsSame ==
  ASSUME NEW s \in Run
  PROVE  Begins(s, s)
BY InRun DEF Begins, Low

LEMMA BeginsThen ==
  ASSUME NEW s \in Run, NEW n \in Nat, NEW v \in SUBSET (0 .. n - 1)
  PROVE  Then(s, v, n) \in Run /\ Begins(s, Then(s, v, n))
<1>1. s.len \in Nat
  BY InRun
<1> QED
  BY <1>1, ThenIs DEF Begins

LEMMA BeginsPadded ==
  ASSUME SizeAssumption, NEW s \in Run
  PROVE  Padded(s) \in Run /\ Begins(s, Padded(s))
<1>1. Padded(s) \in Run /\ Padded(s).ones = s.ones /\ s.len <= Padded(s).len
  BY PaddedRun
<1>2. s.ones \subseteq 0 .. s.len - 1
  BY InRun
<1> QED
  BY <1>1, <1>2 DEF Begins, Low

\* The length of a stored block and its complement
LEMMA LengthFieldIs ==
  ASSUME SizeAssumption, NEW raw \in Seq(Byte), Len(raw) <= Buf_size
  PROVE  /\ LengthField(raw) \in SUBSET (0 .. Buf_size - 1)
         /\ LengthOf(LengthField(raw)) = Len(raw)
<1>1. Buf_size \in Nat /\ Len(raw) \in Nat
  BY BufferSize
<1>2. CASE raw = <<>>
  BY <1>1, <1>2 DEF LengthField, LengthOf
<1>3. CASE raw # <<>>
  <2>1. Len(raw) - 1 \in 0 .. Buf_size - 1
    BY <1>1, <1>3
  <2>2. LengthField(raw) = {Len(raw) - 1}
    BY <1>3 DEF LengthField
  <2>3. PICK i \in Nat : i = Len(raw) - 1 /\ 1 + i = Len(raw)
    BY <1>1, <2>1
  <2>4. LengthOf({i}) = 1 + i
    <3>1. (CHOOSE k \in {i} : {i} = {k}) = i
      OBVIOUS
    <3>2. {i} # {}
      OBVIOUS
    <3> QED
      BY <3>1, <3>2 DEF LengthOf
  <2> QED
    BY <2>1, <2>2, <2>3, <2>4
<1> QED
  BY <1>2, <1>3

LEMMA HeaderIs ==
  ASSUME SizeAssumption, NEW s \in Run, NEW raw \in Seq(Byte), Len(raw) <= Buf_size
  PROVE  LET f == Then(Padded(s), LengthField(raw), Buf_size)
             h == StoredHeader(s, raw)
         IN  /\ f \in Run /\ h \in Run
             /\ Begins(Padded(s), f) /\ Begins(f, h) /\ Begins(s, h)
             /\ h = Then(f, (0 .. Buf_size - 1) \ LengthField(raw), Buf_size)
             /\ h.len = Padded(s).len + HeaderBits
<1> DEFINE f == Then(Padded(s), LengthField(raw), Buf_size)
           g == (0 .. Buf_size - 1) \ LengthField(raw)
           h == StoredHeader(s, raw)
<1>1. Padded(s) \in Run /\ Begins(s, Padded(s))
  BY BeginsPadded
<1>2. Buf_size \in Nat /\ HeaderBits = Buf_size + Buf_size
  BY BufferSize
<1>3. LengthField(raw) \in SUBSET (0 .. Buf_size - 1)
  BY LengthFieldIs
<1>4. f \in Run /\ Begins(Padded(s), f) /\ f.len = Padded(s).len + Buf_size
  BY <1>1, <1>2, <1>3, BeginsThen, ThenIs
<1>5. h = Then(f, g, Buf_size)
  BY DEF StoredHeader
<1>6. g \in SUBSET (0 .. Buf_size - 1)
  OBVIOUS
<1> HIDE DEF f, g, h
<1>7. h \in Run /\ Begins(f, h) /\ h.len = f.len + Buf_size
  <2>1. Then(f, g, Buf_size) \in Run /\ Begins(f, Then(f, g, Buf_size))
    BY <1>2, <1>4, <1>6, BeginsThen
  <2>2. Then(f, g, Buf_size).len = f.len + Buf_size
    BY <1>2, <1>4, <1>6, ThenIs
  <2> QED
    BY <1>5, <2>1, <2>2
<1>8. Begins(s, h)
  <2>1. Begins(s, f)
    BY <1>1, <1>4, BeginsOn
  <2> QED
    BY <1>4, <1>7, <2>1, BeginsOn
<1>9. Padded(s).len \in Nat
  BY <1>1, InRun
<1>10. h.len = Padded(s).len + HeaderBits
  BY <1>2, <1>4, <1>7, <1>9
<1> QED
  BY <1>4, <1>5, <1>7, <1>8, <1>10 DEF f, g, h

\* A run with an item behind it
LEMMA WithItemIs ==
  ASSUME SizeAssumption, NEW s \in Run, NEW x \in Item
  PROVE  WithItem(s, x) \in Run /\ Begins(s, WithItem(s, x))
<1>1. CASE x.kind = "bits"
  <2>1. x.n \in Nat /\ x.v \in SUBSET (0 .. x.n - 1)
    BY <1>1, ItemIs
  <2>2. WithItem(s, x) = Then(s, x.v, x.n)
    BY <1>1 DEF WithItem
  <2> QED
    BY <2>1, <2>2, BeginsThen
<1>2. CASE x.kind # "bits"
  <2>1. x.raw \in Seq(Byte) /\ Len(x.raw) <= Buf_size
    BY <1>2, ItemIs
  <2> DEFINE h == StoredHeader(s, x.raw)
             n == Len(x.raw) * BYTE
             v == OfBytes(x.raw)
  <2>2. WithItem(s, x) = Then(h, v, n)
    BY <1>2 DEF WithItem
  <2>3. h \in Run /\ Begins(s, h)
    BY <2>1, HeaderIs
  <2>4. n \in Nat
    <3>1. Len(x.raw) \in Nat /\ BYTE \in Nat
      <4>1. BYTE \in Nat
        BY BufferSize
      <4> QED
        BY <2>1, <4>1
    <3> QED
      BY <3>1, Multiples
  <2>5. v \in SUBSET (0 .. n - 1)
    BY <2>1, InBytes
  <2> HIDE DEF h, n, v
  <2>6. Then(h, v, n) \in Run /\ Begins(h, Then(h, v, n))
    BY <2>3, <2>4, <2>5, BeginsThen
  <2> QED
    BY <2>2, <2>3, <2>6, BeginsOn
<1> QED
  BY <1>1, <1>2

\* _tr_stored_block()
LEMMA StoresBlock ==
  ASSUME SizeAssumption, NEW b, Packing(b), NEW type \in SUBSET (0 .. TypeBits - 1),
         NEW raw \in Seq(Byte), Len(raw) <= Buf_size
  PROVE  LET r == _tr_stored_block(b, type, raw)
             t == [kind |-> "bits", n |-> TypeBits, v |-> type]
             x == [kind |-> "stored", raw |-> raw]
         IN  /\ Packing(r) /\ Grows(b.out, r.out)
             /\ Stream(r) = WithItem(WithItem(Stream(b), t), x)
<1> DEFINE r == _tr_stored_block(b, type, raw)
           t == [kind |-> "bits", n |-> TypeBits, v |-> type]
           x == [kind |-> "stored", raw |-> raw]
           a == send_bits(b, type, TypeBits)
           w == bi_windup(a)
           f == LengthField(raw)
           g == (0 .. Buf_size - 1) \ f
           o == put_short(w.out, f)
           p == put_short(o, g)
<1>1. TypeBits \in 1 .. Buf_size - 1 /\ BYTE \in Nat
  BY DEF SizeAssumption
<1>2. Packing(a) /\ Stream(a) = Then(Stream(b), type, TypeBits) /\ Grows(b.out, a.out)
  BY <1>1, SendBits
<1>3. r = Empty(p \o raw)
  BY DEF _tr_stored_block, LengthField
<1> HIDE DEF a
<1>4. /\ Packing(w) /\ Stream(w) = Padded(Stream(a)) /\ Grows(a.out, w.out)
      /\ Stream(w) = OfOut(w.out)
  BY <1>2, Winds
<1>5. f \in SUBSET (0 .. Buf_size - 1) /\ g \in SUBSET (0 .. Buf_size - 1)
  BY LengthFieldIs
<1> HIDE DEF w, f, g
<1>6. b.out \in Seq(Byte) /\ a.out \in Seq(Byte) /\ w.out \in Seq(Byte)
  BY <1>2, <1>4 DEF Packing
<1>7. o \in Seq(Byte) /\ OfOut(o) = Then(OfOut(w.out), f, Buf_size) /\ Grows(w.out, o)
  BY <1>5, <1>6, PutShort
<1> HIDE DEF o
<1>8. p \in Seq(Byte) /\ OfOut(p) = Then(OfOut(o), g, Buf_size) /\ Grows(o, p)
  BY <1>5, <1>7, PutShort
<1> HIDE DEF p
<1>9. p \o raw \in Seq(Byte) /\ OfOut(p \o raw) = Then(OfOut(p), OfBytes(raw), Len(raw) * BYTE)
  BY <1>8, MoreBytes
<1>10. Grows(p, p \o raw)
  <2>1. Len(p) <= Len(p \o raw)
    BY <1>8
  <2>2. Len(raw) * BYTE \in Nat
    BY <1>1, Multiples
  <2>3. OfBytes(raw) \in SUBSET (0 .. Len(raw) * BYTE - 1)
    BY InBytes
  <2> QED
    BY <1>8, <1>9, <2>1, <2>2, <2>3, GrowsThen
<1>11. Grows(b.out, p \o raw)
  <2>1. Grows(b.out, w.out)
    BY <1>2, <1>4, <1>6, GrowsOn
  <2>2. Grows(b.out, o)
    BY <1>6, <1>7, <2>1, GrowsOn
  <2>3. Grows(b.out, p)
    BY <1>6, <1>7, <1>8, <2>2, GrowsOn
  <2> QED
    BY <1>6, <1>8, <1>9, <1>10, <2>3, GrowsOn
<1>12. Packing(r) /\ Stream(r) = OfOut(p \o raw) /\ r.out = p \o raw
  BY <1>3, <1>9, EmptyIs
<1>13. WithItem(Stream(b), t) = Stream(a)
  BY <1>2 DEF WithItem
<1>14. WithItem(Stream(a), x) = Then(StoredHeader(Stream(a), raw), OfBytes(raw), Len(raw) * BYTE)
  BY DEF WithItem
<1>15. StoredHeader(Stream(a), raw) = OfOut(p)
  BY <1>4, <1>7, <1>8 DEF StoredHeader, f, g
<1> HIDE DEF t, x, r
<1>16. Stream(r) = WithItem(WithItem(Stream(b), t), x)
  BY <1>9, <1>12, <1>13, <1>14, <1>15
<1> QED
  BY <1>11, <1>12, <1>16 DEF t, x, r

\* The layout of items, step by step
LEMMA LayoutIs ==
  ASSUME SizeAssumption, NEW items \in Seq(Item)
  PROVE  /\ Layout(items) \in [0 .. Len(items) -> Run]
         /\ Layout(items)[0] = Nothing
         /\ \A k \in 1 .. Len(items) :
              Layout(items)[k] = WithItem(Layout(items)[k - 1], items[k])
<1> DEFINE m == Len(items)
           Is(s) == s = [k \in 0 .. Len(items) |->
                           IF k = 0 THEN Nothing ELSE WithItem(s[k - 1], items[k])]
           F == [p \in (1 .. m) \X Run |-> WithItem(p[2], items[p[1]])]
<1>1. m \in Nat /\ \A i \in 1 .. m : items[i] \in Item
  OBVIOUS
<1>2. Nothing \in Run
  BY RunIs, 0 \in Nat, {} \in SUBSET (0 .. 0 - 1) DEF Nothing
<1>3. F \in [(1 .. m) \X Run -> Run]
  <2>1. \A p \in (1 .. m) \X Run : WithItem(p[2], items[p[1]]) \in Run
    BY <1>1, WithItemIs
  <2> QED
    BY <2>1
<1>4. \A i \in 1 .. m, x \in Run : F[<<i, x>>] = WithItem(x, items[i])
  OBVIOUS
<1>5. Layout(items) = (CHOOSE s : Is(s))
  BY DEF Layout
<1> HIDE DEF m, F
<1>6. PICK g \in [0 .. m -> Run] : IsFold(g, m, F, Nothing)
  BY <1>1, <1>2, <1>3, FoldExists
<1>7. Is(g)
  <2>1. \A i \in 0 .. m : g[i] = IF i = 0 THEN Nothing ELSE WithItem(g[i - 1], items[i])
    <3> TAKE i \in 0 .. m
    <3>1. CASE i = 0
      BY <1>6, <3>1 DEF IsFold
    <3>2. CASE i # 0
      <4>1. i \in 1 .. m /\ i - 1 \in 0 .. m
        BY <1>1, <3>2
      <4>2. g[i] = F[<<i, g[i - 1]>>] /\ g[i - 1] \in Run
        BY <1>6, <4>1 DEF IsFold
      <4> QED
        BY <1>4, <3>2, <4>1, <4>2
    <3> QED
      BY <3>1, <3>2
  <2> QED
    BY <1>6, <2>1 DEF m
<1> DEFINE s == CHOOSE s : Is(s)
<1>8. Is(s)
  BY <1>7
<1> HIDE DEF s
<1>9. \A i \in 0 .. m : s[i] = IF i = 0 THEN Nothing ELSE WithItem(s[i - 1], items[i])
  BY <1>8 DEF m
<1>10. On(s, m)
  BY <1>8 DEF m, On
<1> HIDE DEF Is
<1>11. s[0] = Nothing /\ \A i \in 1 .. m : s[i] = WithItem(s[i - 1], items[i])
  <2>1. 0 \in 0 .. m /\ \A i \in 1 .. m : i \in 0 .. m /\ i # 0
    BY <1>1
  <2> QED
    BY <1>9, <2>1
<1>12. s \in [0 .. m -> Run]
  <2>1. \A i \in 1 .. m : s[i - 1] \in Run => s[i] = F[<<i, s[i - 1]>>]
    BY <1>4, <1>11
  <2>2. Folding(Run, Nothing, m, F, s)
    BY <1>1, <1>2, <1>3, <1>10, <1>11, <2>1 DEF Folding
  <2> QED
    BY <2>2, Folded
<1> QED
  BY <1>5, <1>11, <1>12 DEF s, m

\* Items behind others do not change where those are.
LEMMA LayoutAppend ==
  ASSUME SizeAssumption, NEW items \in Seq(Item), NEW x \in Item
  PROVE  LET more == Append(items, x)
         IN  /\ more \in Seq(Item) /\ Len(more) = Len(items) + 1
             /\ \A k \in 0 .. Len(items) : Layout(more)[k] = Layout(items)[k]
             /\ Layout(more)[Len(more)] = WithItem(Layout(items)[Len(items)], x)
<1>1. PICK more : more = Append(items, x)
  OBVIOUS
<1>2. /\ more \in Seq(Item) /\ Len(items) \in Nat /\ Len(more) = Len(items) + 1
      /\ more[Len(items) + 1] = x /\ \A i \in 1 .. Len(items) : more[i] = items[i]
  BY <1>1
<1>3. /\ Layout(items)[0] = Nothing
      /\ \A k \in 1 .. Len(items) : Layout(items)[k] = WithItem(Layout(items)[k - 1], items[k])
  BY LayoutIs
<1>4. /\ Layout(more)[0] = Nothing
      /\ \A k \in 1 .. Len(items) + 1 : Layout(more)[k] = WithItem(Layout(more)[k - 1], more[k])
  BY <1>2, LayoutIs
<1> DEFINE m == Len(items)
           S == {k \in Nat : k <= m => Layout(more)[k] = Layout(items)[k]}
<1>5. 0 \in S
  BY <1>3, <1>4
<1>6. ASSUME NEW k \in S PROVE k + 1 \in S
  <2>1. CASE k + 1 <= m
    <3>1. k + 1 \in 1 .. m /\ k + 1 \in 1 .. m + 1 /\ (k + 1) - 1 = k
          /\ Layout(more)[k] = Layout(items)[k]
      BY <1>2, <2>1
    <3>2. Layout(more)[k + 1] = WithItem(Layout(more)[k], more[k + 1])
      BY <1>4, <3>1
    <3>3. Layout(items)[k + 1] = WithItem(Layout(items)[k], items[k + 1])
      BY <1>3, <3>1
    <3>4. Layout(more)[k + 1] = Layout(items)[k + 1]
      BY <1>2, <3>1, <3>2, <3>3
    <3> QED
      BY <3>4
  <2>2. CASE ~(k + 1 <= m)
    BY <2>2
  <2> QED
    BY <2>1, <2>2
<1>7. S = Nat
  <2>1. S \in SUBSET Nat
    OBVIOUS
  <2> HIDE DEF S
  <2> QED
    BY <1>5, <1>6, <2>1, Induct
<1>8. \A k \in 0 .. m : Layout(more)[k] = Layout(items)[k]
  <2> TAKE k \in 0 .. m
  <2>1. k \in S
    BY <1>7
  <2> QED
    BY <2>1
<1>9. Layout(more)[m + 1] = WithItem(Layout(items)[m], x)
  <2>1. m + 1 \in 1 .. m + 1 /\ (m + 1) - 1 = m /\ m \in 0 .. m
    BY <1>2
  <2> QED
    BY <1>2, <1>4, <1>8, <2>1
<1> QED
  BY <1>1, <1>2, <1>8, <1>9

\* The layout begins with that of any of the first items.
LEMMA LayoutBegins ==
  ASSUME SizeAssumption, NEW items \in Seq(Item), NEW i \in 0 .. Len(items)
  PROVE  Begins(Layout(items)[i], Layout(items)[Len(items)])
<1>1. /\ Layout(items) \in [0 .. Len(items) -> Run] /\ Len(items) \in Nat
      /\ \A k \in 1 .. Len(items) : Layout(items)[k] = WithItem(Layout(items)[k - 1], items[k])
      /\ \A k \in 1 .. Len(items) : items[k] \in Item
  BY LayoutIs
<1> DEFINE m == Len(items)
           L == Layout(items)
           S == {k \in Nat : i + k <= m => Begins(L[i], L[i + k])}
<1> HIDE DEF L
<1>2. 0 \in S
  <2>1. L[i] \in Run /\ i + 0 = i
    BY <1>1 DEF L
  <2>2. Begins(L[i], L[i + 0])
    BY <2>1, BeginsSame
  <2> QED
    BY <2>2
<1>3. ASSUME NEW k \in S PROVE k + 1 \in S
  <2>1. CASE i + (k + 1) <= m
    <3>1. i + k \in 0 .. m /\ i + (k + 1) \in 1 .. m /\ (i + (k + 1)) - 1 = i + k
      BY <1>1, <2>1
    <3>2. Begins(L[i], L[i + k]) /\ L[i] \in Run /\ L[i + k] \in Run /\ items[i + (k + 1)] \in Item
      BY <1>1, <3>1 DEF L
    <3>3. L[i + (k + 1)] = WithItem(L[i + k], items[i + (k + 1)])
      BY <1>1, <3>1 DEF L
    <3>4. L[i + (k + 1)] \in Run /\ Begins(L[i + k], L[i + (k + 1)])
      BY <3>2, <3>3, WithItemIs
    <3>5. Begins(L[i], L[i + (k + 1)])
      BY <3>2, <3>4, BeginsOn
    <3> QED
      BY <3>5
  <2>2. CASE ~(i + (k + 1) <= m)
    BY <2>2
  <2> QED
    BY <2>1, <2>2
<1>4. S = Nat
  <2>1. S \in SUBSET Nat
    OBVIOUS
  <2> HIDE DEF S
  <2> QED
    BY <1>2, <1>3, <2>1, Induct
<1>5. m - i \in S /\ i + (m - i) = m
  <2>1. m - i \in Nat /\ i + (m - i) = m
    BY <1>1
  <2> HIDE DEF S
  <2> QED
    BY <1>4, <2>1
<1> QED
  BY <1>1, <1>5 DEF L

----------------------------------------------------------------------------
(***************************************************************************)
(* The invariant.                                                          *)
(***************************************************************************)

Typed ==
  /\ TypeOK
  /\ pending_buf \in Seq(Byte) /\ sent \in Seq(Item) /\ taken \in Seq(Item)
  /\ entry \in [next : Nat, taken : Nat]
  /\ bits <= HeaderBits

All == Layout(sent)[Len(sent)]

\* Only the last item is padded.
Sent == Written = All \/ (Len(sent) = MaxItems /\ Written = Padded(All))

\* The items that have been read, and where the next bit is.
Before == Layout(sent)[Len(taken)]
At == next * BYTE - bits

\* Where the decoder stands between items and inside a stored block.
Position ==
  /\ length = 0 => At = Before.len \/ (Wants("stored") /\ At = Padded(Before).len)
  /\ length > 0 => /\ Wants("stored") /\ ~fast /\ bits = 0
                   /\ At = StoredHeader(Before, Wanted.raw).len
                   /\ length = Len(Wanted.raw)

\* While inflate_fast runs: before its first item, less is held from before it
\* was entered than a byte, or than that item; then less than a byte.
Entered ==
  fast =>
    /\ Len(taken) >= entry.taken
    /\ Len(taken) = entry.taken =>
         /\ Wants("bits")
         /\ entry.next * BYTE - At < BYTE \/ entry.next * BYTE - At < Wanted.n
    /\ Len(taken) > entry.taken => At > entry.next * BYTE - BYTE

IndInv == Typed /\ Sent /\ Arrives /\ HoldsWhatWasRead /\ Position /\ Entered

\* What the invariant says of the numbers
LEMMA Facts ==
  ASSUME SizeAssumption, IndInv
  PROVE  /\ BYTE \in Nat \ {0} /\ Buf_size = BYTE + BYTE /\ Buf_size \in Nat
         /\ HeaderBits = Buf_size + Buf_size /\ HeaderBits \in Nat
         /\ next \in Nat /\ Len(pending_buf) \in Nat /\ next <= Len(pending_buf)
         /\ bits \in Nat /\ bits <= HeaderBits /\ length \in Nat /\ fast \in BOOLEAN
         /\ entry \in [next : Nat, taken : Nat]
         /\ next * BYTE \in Nat /\ Len(pending_buf) * BYTE \in Nat
         /\ next * BYTE <= Len(pending_buf) * BYTE
         /\ At \in Nat /\ At = next * BYTE - bits /\ bits <= next * BYTE
         /\ Len(taken) \in 0 .. Len(sent) /\ Len(sent) \in Nat /\ taken \in Seq(Item)
         /\ Before \in Run /\ All \in Run /\ Begins(Before, All)
         /\ OfBytes(pending_buf) \in SUBSET Nat
         /\ pending_buf \in Seq(Byte) /\ sent \in Seq(Item)
<1>1. BYTE \in Nat \ {0} /\ Buf_size = BYTE + BYTE /\ Buf_size \in Nat
      /\ HeaderBits = Buf_size + Buf_size /\ HeaderBits \in Nat
  BY BufferSize
<1>2. /\ next \in Nat /\ Len(pending_buf) \in Nat /\ next <= Len(pending_buf)
      /\ bits \in Nat /\ bits <= HeaderBits /\ length \in Nat /\ fast \in BOOLEAN
      /\ entry \in [next : Nat, taken : Nat]
      /\ pending_buf \in Seq(Byte) /\ sent \in Seq(Item)
  BY DEF IndInv, Typed, TypeOK
<1>3. /\ next * BYTE \in Nat /\ Len(pending_buf) * BYTE \in Nat
      /\ next * BYTE <= Len(pending_buf) * BYTE
  BY <1>1, <1>2, Multiples
<1>4. bits <= next * BYTE
  BY DEF IndInv, HoldsWhatWasRead
<1>5. At = next * BYTE - bits /\ At \in Nat
  BY <1>2, <1>3, <1>4 DEF At
<1>6. Len(taken) \in 0 .. Len(sent) /\ Len(sent) \in Nat /\ taken \in Seq(Item)
  <2>1. Len(taken) <= Len(sent)
    BY DEF IndInv, Arrives
  <2>2. taken \in Seq(Item) /\ sent \in Seq(Item)
    BY DEF IndInv, Typed
  <2> QED
    BY <2>1, <2>2
<1>7. Before \in Run /\ All \in Run /\ Begins(Before, All)
  <2>1. Layout(sent) \in [0 .. Len(sent) -> Run]
    BY <1>2, LayoutIs
  <2>2. Len(sent) \in 0 .. Len(sent)
    BY <1>6
  <2>3. Begins(Layout(sent)[Len(taken)], Layout(sent)[Len(sent)])
    BY <1>2, <1>6, LayoutBegins
  <2> QED
    BY <1>6, <2>1, <2>2, <2>3 DEF Before, All
<1>8. OfBytes(pending_buf) \in SUBSET Nat
  BY <1>2, InBytes
<1> QED
  BY <1>1, <1>2, <1>3, <1>4, <1>5, <1>6, <1>7, <1>8

----------------------------------------------------------------------------
(***************************************************************************)
(* The accumulator.                                                        *)
(***************************************************************************)

\* Two shifts are one.
LEMMA ShrShr ==
  ASSUME NEW v \in SUBSET Nat, NEW i \in Nat, NEW j \in Nat
  PROVE  Shr(Shr(v, i), j) = Shr(v, i + j)
<1>1. Shr(v, i) \in SUBSET Nat /\ \A x \in Nat : x \in Shr(v, i) <=> x + i \in v
  BY InShr
<1>2. /\ Shr(Shr(v, i), j) \in SUBSET Nat
      /\ \A x \in Nat : x \in Shr(Shr(v, i), j) <=> x + j \in Shr(v, i)
  BY <1>1, InShr
<1>3. Shr(v, i + j) \in SUBSET Nat /\ \A x \in Nat : x \in Shr(v, i + j) <=> x + (i + j) \in v
  BY InShr, i + j \in Nat
<1>4. ASSUME NEW x \in Nat PROVE x \in Shr(Shr(v, i), j) <=> x \in Shr(v, i + j)
  <2>1. x + j \in Nat /\ (x + j) + i = x + (i + j)
    OBVIOUS
  <2> QED
    BY <1>1, <1>2, <1>3, <2>1
<1> QED
  BY <1>2, <1>3, <1>4

\* The low bits of what is held are those of fewer bytes read.
LEMMA LowShr ==
  ASSUME NEW v \in SUBSET Nat, NEW i \in Nat, NEW j \in Nat, NEW k \in Nat, i <= k, k <= j
  PROVE  Low(Shr(Low(v, j), i), k - i) = Shr(Low(v, k), i)
<1>1. Low(v, j) \in SUBSET Nat /\ Low(v, k) \in SUBSET Nat
  BY DEF Low
<1>2. /\ Shr(Low(v, j), i) \in SUBSET Nat
      /\ \A x \in Nat : x \in Shr(Low(v, j), i) <=> x + i \in Low(v, j)
  BY <1>1, InShr
<1>3. /\ Shr(Low(v, k), i) \in SUBSET Nat
      /\ \A x \in Nat : x \in Shr(Low(v, k), i) <=> x + i \in Low(v, k)
  BY <1>1, InShr
<1>4. ASSUME NEW x \in Nat
      PROVE  x \in Low(Shr(Low(v, j), i), k - i) <=> x \in Shr(Low(v, k), i)
  <2>1. x \in 0 .. (k - i) - 1 <=> x + i \in 0 .. k - 1
    OBVIOUS
  <2>2. x + i \in 0 .. k - 1 => x + i \in 0 .. j - 1
    OBVIOUS
  <2> QED
    BY <1>2, <1>3, <2>1, <2>2 DEF Low
<1>5. Low(Shr(Low(v, j), i), k - i) \in SUBSET Nat
  BY <1>2 DEF Low
<1> QED
  BY <1>3, <1>4, <1>5

\* PULLBYTE: bytes read are above what is held.
Pulled(bytes, p, b, m) == UNION {Shl(bytes[p + k], b + (k - 1) * BYTE) : k \in 1 .. m}

LEMMA PulledBytes ==
  ASSUME SizeAssumption, NEW bytes \in Seq(Byte), NEW p \in Nat, NEW m \in Nat,
         p + m <= Len(bytes), NEW i \in Nat, NEW b \in Nat, i + b = p * BYTE
  PROVE  Shr(Low(OfBytes(bytes), p * BYTE), i) \cup Pulled(bytes, p, b, m)
         = Shr(Low(OfBytes(bytes), (p + m) * BYTE), i)
<1> DEFINE W == OfBytes(bytes)
           held == Shr(Low(W, p * BYTE), i)
           new == Pulled(bytes, p, b, m)
           goal == Shr(Low(W, (p + m) * BYTE), i)
<1>1. BYTE \in Nat \ {0} /\ BYTE \in Nat
  BY BufferSize
<1>2. /\ W \in SUBSET Nat
      /\ \A q \in Nat, j \in 0 .. BYTE - 1 : q * BYTE + j \in W <=> q < Len(bytes) /\ j \in bytes[q + 1]
  BY InBytes
<1>3. Len(bytes) \in Nat /\ \A q \in Nat : q < Len(bytes) => bytes[q + 1] \in Byte
  OBVIOUS
<1>4. /\ p * BYTE \in Nat /\ m * BYTE \in Nat /\ (p + m) * BYTE = p * BYTE + m * BYTE
  BY <1>1, Multiples
<1> HIDE DEF W
<1>5. Low(W, p * BYTE) \in SUBSET Nat /\ Low(W, (p + m) * BYTE) \in SUBSET Nat
  BY <1>2 DEF Low
<1>6. held \in SUBSET Nat /\ \A x \in Nat : x \in held <=> x + i \in Low(W, p * BYTE)
  BY <1>5, InShr
<1>7. goal \in SUBSET Nat /\ \A x \in Nat : x \in goal <=> x + i \in Low(W, (p + m) * BYTE)
  BY <1>5, InShr
<1> HIDE DEF held, goal
\* Byte k of those read
<1>8. ASSUME NEW k \in 1 .. m
      PROVE  /\ bytes[p + k] \in SUBSET Nat /\ bytes[p + k] \subseteq 0 .. BYTE - 1
             /\ (k - 1) * BYTE \in Nat
             /\ Shl(bytes[p + k], b + (k - 1) * BYTE) \in SUBSET Nat
             /\ \A x \in Nat : x \in Shl(bytes[p + k], b + (k - 1) * BYTE)
                     <=> x >= b + (k - 1) * BYTE /\ x - (b + (k - 1) * BYTE) \in bytes[p + k]
  <2>1. p + (k - 1) \in Nat /\ p + (k - 1) < Len(bytes) /\ (p + (k - 1)) + 1 = p + k
        /\ k - 1 \in Nat
    BY <1>3
  <2>2. bytes[p + k] \in Byte
    BY <1>3, <2>1
  <2>3. bytes[p + k] \in SUBSET Nat /\ bytes[p + k] \subseteq 0 .. BYTE - 1
    BY <1>1, <2>2 DEF Byte
  <2>4. (k - 1) * BYTE \in Nat
    BY <1>1, <2>1, Multiples
  <2>5. b + (k - 1) * BYTE \in Nat
    BY <2>4
  <2> QED
    BY <2>3, <2>4, <2>5, InShl
<1>9. new \in SUBSET Nat
      /\ \A x : x \in new <=> \E k \in 1 .. m : x \in Shl(bytes[p + k], b + (k - 1) * BYTE)
  <2>1. \A x : x \in new <=> \E k \in 1 .. m : x \in Shl(bytes[p + k], b + (k - 1) * BYTE)
    BY Zenon DEF Pulled
  <2> HIDE DEF new
  <2> QED
    BY <1>8, <2>1
<1> HIDE DEF new
<1>10. ASSUME NEW x \in Nat PROVE x \in held \cup new <=> x \in goal
  <2>1. CASE x < b
    <3>1. x + i \in 0 .. p * BYTE - 1
      BY <1>4, <2>1
    <3>2. x + i \in 0 .. (p + m) * BYTE - 1
      BY <1>4, <3>1
    <3>3. x \notin new
      <4> SUFFICES ASSUME NEW k \in 1 .. m, x \in Shl(bytes[p + k], b + (k - 1) * BYTE) PROVE FALSE
        BY <1>9
      <4>1. x >= b + (k - 1) * BYTE /\ (k - 1) * BYTE \in Nat
        BY <1>8
      <4> QED
        BY <2>1, <4>1
    <3> QED
      BY <1>6, <1>7, <3>1, <3>2, <3>3 DEF Low
  <2>2. CASE x >= b
    <3>1. x - b \in Nat
      BY <2>2
    <3>2. PICK q \in Nat, j \in 0 .. BYTE - 1 : x - b = q * BYTE + j
      BY <1>1, <3>1, Split
    <3>3. q * BYTE \in Nat /\ (p + q) * BYTE = p * BYTE + q * BYTE /\ p + q \in Nat
      BY <1>1, Multiples
    <3>4. x + i = (p + q) * BYTE + j
      <4>1. PICK u \in Nat : u = p * BYTE
        BY <1>4
      <4>2. PICK w \in Nat : w = q * BYTE
        BY <3>3
      <4>3. i + b = u /\ x - b = w + j /\ j \in Nat
        BY <1>1, <3>2, <4>1, <4>2
      <4>4. x + i = (u + w) + j
        BY <4>3
      <4> QED
        BY <3>3, <4>1, <4>2, <4>4
    <3>5. x \notin held
      <4>1. x + i \notin 0 .. p * BYTE - 1
        BY <1>4, <2>2
      <4> QED
        BY <1>6, <4>1 DEF Low
    <3>6. x \in goal <=> q < m /\ j \in bytes[p + (q + 1)]
      <4>1. x + i \in W <=> p + q < Len(bytes) /\ j \in bytes[(p + q) + 1]
        BY <1>2, <3>3, <3>4
      <4>2. CASE q < m
        <5>1. q * BYTE + BYTE <= m * BYTE
          BY <1>1, <4>2, Multiples
        <5>2. x + i \in 0 .. (p + m) * BYTE - 1
          <6>1. \A u, w, y, z \in Nat : w + BYTE <= y /\ z < BYTE => (u + w) + z \in 0 .. (u + y) - 1
            BY <1>1
          <6> QED
            BY <1>1, <1>4, <3>3, <3>4, <5>1, <6>1
        <5>3. p + q < Len(bytes) /\ (p + q) + 1 = p + (q + 1)
          BY <1>3, <4>2
        <5> QED
          BY <1>7, <4>1, <4>2, <5>2, <5>3 DEF Low
      <4>3. CASE ~(q < m)
        <5>1. m * BYTE <= q * BYTE
          BY <1>1, <4>3, Multiples
        <5>2. x + i \notin 0 .. (p + m) * BYTE - 1
          <6>1. \A u, w, y, z \in Nat : y <= w => (u + w) + z \notin 0 .. (u + y) - 1
            OBVIOUS
          <6>2. j \in Nat
            BY <1>1
          <6> QED
            BY <1>4, <3>3, <3>4, <5>1, <6>1, <6>2
        <5> QED
          BY <1>7, <4>3, <5>2 DEF Low
      <4> QED
        BY <4>2, <4>3
    <3>7. x \in new <=> q < m /\ j \in bytes[p + (q + 1)]
      <4>1. ASSUME x \in new PROVE q < m /\ j \in bytes[p + (q + 1)]
        <5>1. PICK k \in 1 .. m : x \in Shl(bytes[p + k], b + (k - 1) * BYTE)
          BY <1>9, <4>1
        <5>2. /\ x >= b + (k - 1) * BYTE /\ x - (b + (k - 1) * BYTE) \in bytes[p + k]
              /\ bytes[p + k] \subseteq 0 .. BYTE - 1 /\ (k - 1) * BYTE \in Nat
          BY <1>8, <5>1
        <5>3. PICK e \in 0 .. BYTE - 1 : e = x - (b + (k - 1) * BYTE) /\ e \in bytes[p + k]
          BY <5>2
        <5>4. x - b = (k - 1) * BYTE + e
          <6>1. PICK u \in Nat : u = (k - 1) * BYTE
            BY <5>2
          <6>2. e = x - (b + u) /\ e \in Nat
            BY <1>1, <5>3, <6>1
          <6>3. x - b = u + e
            BY <6>2
          <6> QED
            BY <6>1, <6>3
        <5>5. k - 1 \in Nat
          OBVIOUS
        <5>6. q = k - 1 /\ j = e
          BY <1>1, <3>2, <5>4, <5>5, SplitOnce
        <5>7. k = q + 1 /\ q < m
          BY <5>5, <5>6
        <5> QED
          BY <5>3, <5>6, <5>7
      <4>2. ASSUME q < m, j \in bytes[p + (q + 1)] PROVE x \in new
        <5>1. q + 1 \in 1 .. m /\ (q + 1) - 1 = q
          BY <4>2
        <5>2. x >= b + q * BYTE /\ x - (b + q * BYTE) = j
          BY <1>1, <2>2, <3>2, <3>3
        <5>3. x \in Shl(bytes[p + (q + 1)], b + ((q + 1) - 1) * BYTE)
          BY <1>8, <4>2, <5>1, <5>2
        <5> QED
          BY <1>9, <5>1, <5>3
      <4> QED
        BY <4>1, <4>2
    <3> QED
      BY <3>5, <3>6, <3>7
  <2> QED
    BY <2>1, <2>2
<1>11. held \cup new = goal
  BY <1>6, <1>7, <1>9, <1>10
<1> QED
  BY <1>11 DEF held, new, goal, W

\* What the decoder has read, n more bytes on
LEMMA PullKeeps ==
  ASSUME SizeAssumption, IndInv, NEW n \in 1 .. 2, Pull(n), pending_buf' = pending_buf
  PROVE  /\ HoldsWhatWasRead' /\ At' = At
         /\ next' \in 0 .. Len(pending_buf) /\ bits' = bits + n * BYTE /\ bits' \in Nat
<1>1. /\ BYTE \in Nat /\ next \in Nat /\ bits \in Nat /\ At \in Nat /\ next * BYTE \in Nat
      /\ At = next * BYTE - bits /\ bits <= next * BYTE /\ Len(pending_buf) \in Nat
      /\ pending_buf \in Seq(Byte)
  BY Facts
<1>2. /\ next + n <= Len(pending_buf) /\ next' = next + n /\ bits' = bits + n * BYTE
      /\ hold' = hold \cup Pulled(pending_buf, next, bits, n)
  BY DEF Pull, Available, Pulled
<1>3. n * BYTE \in Nat /\ (next + n) * BYTE = next * BYTE + n * BYTE
  BY <1>1, Multiples, n \in Nat
<1>4. At' = At /\ next' * BYTE - bits' = At /\ bits' <= next' * BYTE
  <2>1. next' * BYTE - bits' = (next * BYTE + n * BYTE) - (bits + n * BYTE)
    BY <1>2, <1>3
  <2>2. \A u, w, y \in Nat : (u + w) - (y + w) = u - y
    OBVIOUS
  <2>3. next' * BYTE - bits' = At
    BY <1>1, <1>3, <2>1, <2>2
  <2>4. bits' <= next' * BYTE
    BY <1>1, <1>2, <1>3
  <2> QED
    BY <2>3, <2>4 DEF At
<1>5. hold = Shr(Low(OfBytes(pending_buf), next * BYTE), At)
  BY <1>1 DEF IndInv, HoldsWhatWasRead
<1>6. At + bits = next * BYTE
  BY <1>1
<1>7. hold' = Shr(Low(OfBytes(pending_buf), (next + n) * BYTE), At)
  <2>1. n \in Nat
    OBVIOUS
  <2>2. Shr(Low(OfBytes(pending_buf), next * BYTE), At) \cup Pulled(pending_buf, next, bits, n)
        = Shr(Low(OfBytes(pending_buf), (next + n) * BYTE), At)
    <3>1. next + n <= Len(pending_buf)
      BY <1>2
    <3>2. next \in Nat /\ bits \in Nat /\ At \in Nat /\ pending_buf \in Seq(Byte)
      BY <1>1
    <3> QED
      BY <1>6, <2>1, <3>1, <3>2, PulledBytes
  <2> QED
    BY <1>2, <1>5, <2>2
<1>8. HoldsWhatWasRead'
  BY <1>2, <1>4, <1>7 DEF HoldsWhatWasRead
<1>9. next' \in 0 .. Len(pending_buf) /\ bits' \in Nat
  BY <1>1, <1>2, <1>3
<1> QED
  BY <1>2, <1>4, <1>8, <1>9

\* What it has read, n bits of it used
LEMMA DropKeeps ==
  ASSUME SizeAssumption, IndInv, NEW n \in Nat, n <= bits, Drop(n),
         pending_buf' = pending_buf, next' = next
  PROVE  HoldsWhatWasRead' /\ At' = At + n /\ bits' = bits - n /\ bits' \in Nat
<1>1. /\ BYTE \in Nat /\ next \in Nat /\ bits \in Nat /\ At \in Nat /\ next * BYTE \in Nat
      /\ At = next * BYTE - bits /\ bits <= next * BYTE
      /\ OfBytes(pending_buf) \in SUBSET Nat
  BY Facts
<1>2. hold' = Shr(hold, n) /\ bits' = bits - n
  BY DEF Drop
<1>3. hold = Shr(Low(OfBytes(pending_buf), next * BYTE), At)
  BY <1>1 DEF IndInv, HoldsWhatWasRead
<1>4. Low(OfBytes(pending_buf), next * BYTE) \in SUBSET Nat
  BY <1>1 DEF Low
<1>5. hold' = Shr(Low(OfBytes(pending_buf), next * BYTE), At + n)
  BY <1>1, <1>2, <1>3, <1>4, ShrShr
<1>6. next * BYTE - (bits - n) = At + n /\ bits - n <= next * BYTE /\ bits - n \in Nat
  BY <1>1
<1>7. At' = At + n
  BY <1>2, <1>6 DEF At
<1>8. HoldsWhatWasRead'
  BY <1>2, <1>5, <1>6 DEF HoldsWhatWasRead
<1> QED
  BY <1>2, <1>6, <1>7, <1>8


----------------------------------------------------------------------------
(***************************************************************************)
(* What the decoder wants, and where it is in the items' bits.             *)
(***************************************************************************)

After == Layout(sent)[Len(taken) + 1]

LEMMA WantedIs ==
  ASSUME SizeAssumption, IndInv, Len(taken) < Len(sent)
  PROVE  /\ Len(taken) + 1 \in 1 .. Len(sent) /\ Wanted \in Item
         /\ After = WithItem(Before, Wanted) /\ After \in Run /\ Begins(After, All)
         /\ Append(taken, Wanted) \in Seq(Item)
         /\ Append(taken, Wanted) = SubSeq(sent, 1, Len(taken) + 1)
         /\ Len(Append(taken, Wanted)) = Len(taken) + 1
<1>1. /\ Len(taken) \in 0 .. Len(sent) /\ Len(sent) \in Nat /\ taken \in Seq(Item)
      /\ sent \in Seq(Item)
  BY Facts
<1>2. Len(taken) + 1 \in 1 .. Len(sent) /\ (Len(taken) + 1) - 1 = Len(taken)
  BY <1>1
<1>3. Wanted \in Item
  BY <1>1, <1>2 DEF Wanted
<1>4. After = WithItem(Before, Wanted) /\ After \in Run
  <2>1. /\ Layout(sent) \in [0 .. Len(sent) -> Run]
        /\ \A k \in 1 .. Len(sent) : Layout(sent)[k] = WithItem(Layout(sent)[k - 1], sent[k])
    BY <1>1, LayoutIs
  <2>2. Len(taken) + 1 \in 0 .. Len(sent)
    BY <1>2
  <2> QED
    BY <1>2, <2>1, <2>2 DEF After, Before, Wanted
<1>5. Begins(After, All)
  BY <1>1, <1>2, LayoutBegins DEF After, All
<1>6. Append(taken, Wanted) = SubSeq(sent, 1, Len(taken) + 1)
  <2>1. taken = SubSeq(sent, 1, Len(taken))
    BY DEF IndInv, Arrives
  <2>2. \A i \in 1 .. Len(taken) : taken[i] = sent[i]
    BY <1>1, <2>1
  <2>3. SubSeq(sent, 1, Len(taken) + 1) \in Seq(Item)
        /\ Len(SubSeq(sent, 1, Len(taken) + 1)) = Len(taken) + 1
        /\ \A i \in 1 .. Len(taken) + 1 : SubSeq(sent, 1, Len(taken) + 1)[i] = sent[i]
    BY <1>1, <1>2
  <2>4. Append(taken, Wanted) \in Seq(Item) /\ Len(Append(taken, Wanted)) = Len(taken) + 1
        /\ \A i \in 1 .. Len(taken) : Append(taken, Wanted)[i] = taken[i]
        /\ Append(taken, Wanted)[Len(taken) + 1] = Wanted
    BY <1>1, <1>3
  <2>5. \A i \in 1 .. Len(taken) + 1 : Append(taken, Wanted)[i] = sent[i]
    BY <1>1, <2>2, <2>4 DEF Wanted
  <2> QED
    BY <2>3, <2>4, <2>5
<1> QED
  BY <1>1, <1>2, <1>3, <1>4, <1>5, <1>6

LEMMA WantsBits ==
  ASSUME SizeAssumption, IndInv, Wants("bits")
  PROVE  /\ Len(taken) < Len(sent)
         /\ Wanted.n \in 1 .. Buf_size - 1 /\ Wanted.n \in Nat
         /\ Wanted.v \in SUBSET (0 .. Wanted.n - 1)
         /\ Wanted = [kind |-> "bits", n |-> Wanted.n, v |-> Wanted.v]
         /\ After = Then(Before, Wanted.v, Wanted.n)
         /\ length = 0 /\ At = Before.len
<1>1. Len(taken) < Len(sent) /\ Wanted.kind = "bits"
  BY DEF Wants
<1>2. Wanted \in Item /\ After = WithItem(Before, Wanted)
  BY <1>1, WantedIs
<1>3. "bits" # "stored"
  OBVIOUS
<1>4. /\ Wanted.n \in 1 .. Buf_size - 1 /\ Wanted.n \in Nat
      /\ Wanted.v \in SUBSET (0 .. Wanted.n - 1)
      /\ Wanted = [kind |-> "bits", n |-> Wanted.n, v |-> Wanted.v]
  BY <1>1, <1>2, <1>3, ItemIs
<1>5. After = Then(Before, Wanted.v, Wanted.n)
  BY <1>1, <1>2 DEF WithItem
<1>6. ~Wants("stored")
  BY <1>1, <1>3 DEF Wants
<1>7. length \in Nat
  BY Facts
<1>8. length = 0 /\ At = Before.len
  BY <1>6, <1>7 DEF IndInv, Position
<1> QED
  BY <1>1, <1>4, <1>5, <1>8

LEMMA WantsStored ==
  ASSUME SizeAssumption, IndInv, Wants("stored")
  PROVE  /\ Len(taken) < Len(sent)
         /\ Wanted.raw \in Seq(Byte) /\ Len(Wanted.raw) <= Buf_size
         /\ Wanted = [kind |-> "stored", raw |-> Wanted.raw]
         /\ StoredHeader(Before, Wanted.raw) \in Run
         /\ Begins(StoredHeader(Before, Wanted.raw), After)
         /\ OfBytes(Wanted.raw) \in SUBSET (0 .. Len(Wanted.raw) * BYTE - 1)
         /\ Len(Wanted.raw) * BYTE \in Nat
         /\ After = Then(StoredHeader(Before, Wanted.raw), OfBytes(Wanted.raw),
                         Len(Wanted.raw) * BYTE)
<1>1. Len(taken) < Len(sent) /\ Wanted.kind = "stored"
  BY DEF Wants
<1>2. Wanted \in Item /\ After = WithItem(Before, Wanted)
  BY <1>1, WantedIs
<1>3. "bits" # "stored"
  OBVIOUS
<1>4. /\ Wanted.raw \in Seq(Byte) /\ Len(Wanted.raw) <= Buf_size
      /\ Wanted = [kind |-> "stored", raw |-> Wanted.raw]
  BY <1>1, <1>2, <1>3, ItemIs
<1>5. After = Then(StoredHeader(Before, Wanted.raw), OfBytes(Wanted.raw), Len(Wanted.raw) * BYTE)
  BY <1>1, <1>2, <1>3 DEF WithItem
<1>6. OfBytes(Wanted.raw) \in SUBSET (0 .. Len(Wanted.raw) * BYTE - 1)
  BY <1>4, InBytes
<1>7. Len(Wanted.raw) * BYTE \in Nat
  BY <1>4, Multiples, BufferSize, Len(Wanted.raw) \in Nat
<1>8. Before \in Run
  BY Facts
<1>9. StoredHeader(Before, Wanted.raw) \in Run
  BY <1>4, <1>8, HeaderIs
<1>10. Begins(StoredHeader(Before, Wanted.raw), After)
  BY <1>5, <1>6, <1>7, <1>9, BeginsThen
<1> QED
  BY <1>1, <1>4, <1>5, <1>6, <1>7, <1>9, <1>10

\* The bytes sent are the first of the items' bits.
LEMMA BytesSent ==
  ASSUME SizeAssumption, IndInv, NEW k \in Nat, k <= Len(pending_buf) * BYTE
  PROVE  Low(OfBytes(pending_buf), k) = Low(All.ones, k)
<1>1. /\ All \in Run /\ Len(pending_buf) * BYTE \in Nat /\ pending_buf \in Seq(Byte)
  BY Facts
<1>2. Packing(Now) /\ Now.out = pending_buf /\ Stream(Now) = Written
  <2>1. Now.out = pending_buf /\ Now.valid = bi_valid /\ Now.buf = bi_buf
    BY DEF Now
  <2>2. bi_valid \in 0 .. Buf_size /\ bi_buf \in SUBSET (0 .. bi_valid - 1)
    BY DEF IndInv, Typed, TypeOK
  <2> QED
    BY <1>1, <2>1, <2>2 DEF Packing, Stream, Written, WholeOut, OfOut
<1>3. Low(Written.ones, Len(pending_buf) * BYTE) = OfBytes(pending_buf)
  <2>1. Low(Stream(Now).ones, Len(Now.out) * BYTE) = OfBytes(Now.out)
    BY <1>2, StreamIsRun
  <2> QED
    BY <1>2, <2>1
<1>4. Written.ones = All.ones
  <2>1. Padded(All).ones = All.ones
    BY <1>1, PaddedRun
  <2> QED
    BY <2>1 DEF IndInv, Sent
<1>5. Low(Low(All.ones, Len(pending_buf) * BYTE), k) = Low(All.ones, k)
  BY <1>1, LowLow
<1> QED
  BY <1>3, <1>4, <1>5

\* The lowest bits held are what follows the decoder's position in the items.
LEMMA ReadsSent ==
  ASSUME SizeAssumption, IndInv, NEW s \in Run, NEW n \in Nat, NEW v \in SUBSET (0 .. n - 1),
         Begins(Then(s, v, n), All), s.len = At, n <= bits
  PROVE  Low(hold, n) = v
<1>1. /\ At \in Nat /\ next * BYTE \in Nat /\ At = next * BYTE - bits /\ bits \in Nat
      /\ next * BYTE <= Len(pending_buf) * BYTE /\ Len(pending_buf) * BYTE \in Nat
      /\ OfBytes(pending_buf) \in SUBSET Nat
  BY Facts
<1>2. s.len + n \in Nat /\ s.len + n <= next * BYTE /\ s.len + n <= Len(pending_buf) * BYTE
  BY <1>1
<1>3. Low(OfBytes(pending_buf), s.len + n) = Low(All.ones, s.len + n)
  BY <1>2, BytesSent
<1>4. Low(All.ones, s.len + n) = Then(s, v, n).ones
  <2>1. Then(s, v, n).len = s.len + n
    BY ThenIs
  <2> QED
    BY <2>1 DEF Begins
<1>5. Low(Shr(Low(OfBytes(pending_buf), next * BYTE), s.len), n) = v
  <2>1. Low(OfBytes(pending_buf), s.len + n) = Then(s, v, n).ones
    BY <1>3, <1>4
  <2>2. next * BYTE >= s.len + n
    BY <1>1, <1>2
  <2> QED
    BY <1>1, <2>1, <2>2, Reads
<1>6. hold = Shr(Low(OfBytes(pending_buf), next * BYTE), s.len)
  BY <1>1 DEF IndInv, HoldsWhatWasRead
<1> QED
  BY <1>5, <1>6

\* With whole bytes held, the next bit is the first of a byte.
LEMMA OnAByte ==
  ASSUME SizeAssumption, IndInv, NEW q \in Nat, bits = q * BYTE
  PROVE  q <= next /\ next - q \in Nat /\ At = (next - q) * BYTE
<1>1. /\ BYTE \in Nat \ {0} /\ next \in Nat /\ next * BYTE \in Nat /\ bits <= next * BYTE
      /\ At = next * BYTE - bits
  BY Facts
<1>2. q <= next
  <2> SUFFICES ASSUME next < q PROVE FALSE
    BY <1>1
  <2>1. next * BYTE + BYTE <= q * BYTE
    BY <1>1, Multiples
  <2> QED
    BY <1>1, <2>1
<1>3. next - q \in Nat /\ (next - q) + q = next
  BY <1>1, <1>2
<1>4. (next - q) * BYTE + q * BYTE = next * BYTE /\ (next - q) * BYTE \in Nat /\ q * BYTE \in Nat
  BY <1>1, <1>3, Multiples
<1> QED
  BY <1>1, <1>2, <1>3, <1>4

\* Whole bytes, and the bits over
LEMMA WholeBytes ==
  ASSUME SizeAssumption, IndInv
  PROVE  \E q \in Nat : /\ Unused = q /\ q * BYTE \in Nat /\ bits = q * BYTE + Padding
                        /\ Padding \in 0 .. BYTE - 1
<1>1. BYTE \in Nat \ {0} /\ bits \in Nat
  BY Facts
<1>2. Unused \in Nat /\ Padding \in 0 .. BYTE - 1 /\ bits = Unused * BYTE + Padding
  <2>1. \A d \in Nat \ {0}, x \in Nat : x \div d \in Nat /\ x % d \in 0 .. d - 1
                                        /\ x = (x \div d) * d + (x % d)
    OBVIOUS
  <2> QED
    BY <1>1, <2>1 DEF Unused, Padding
<1>3. Unused * BYTE \in Nat
  BY <1>1, <1>2, Multiples
<1> QED
  BY <1>2, <1>3

\* A position at the start of a byte is where the block is.
LEMMA AtTheBlock ==
  ASSUME SizeAssumption, IndInv, length = 0, Padding = 0
  PROVE  Wants("stored") => At = Padded(Before).len
<1> SUFFICES ASSUME Wants("stored") PROVE At = Padded(Before).len
  OBVIOUS
<1>1. PICK q \in Nat : bits = q * BYTE + Padding /\ q * BYTE \in Nat
  BY WholeBytes
<1>2. bits = q * BYTE
  BY <1>1
<1>3. next - q \in Nat /\ At = (next - q) * BYTE
  BY <1>2, OnAByte
<1>4. Before \in Run /\ BYTE \in Nat \ {0} /\ At \in Nat
  BY Facts
<1>5. CASE At = Before.len
  <2>1. Before.len <= (next - q) * BYTE /\ (next - q) * BYTE < Before.len + BYTE
    BY <1>3, <1>4, <1>5
  <2>2. Padded(Before) = [len |-> (next - q) * BYTE, ones |-> Before.ones]
    BY <1>3, <1>4, <2>1, PadsTo
  <2> QED
    BY <1>3, <2>2
<1>6. CASE At = Padded(Before).len
  BY <1>6
<1> QED
  BY <1>5, <1>6 DEF IndInv, Position

----------------------------------------------------------------------------
(***************************************************************************)
(* The decoder's steps.                                                    *)
(***************************************************************************)

\* What every one of them leaves as it was
LEMMA DecoderTyped ==
  ASSUME SizeAssumption, IndInv, UNCHANGED encoder,
         next' \in 0 .. Len(pending_buf), bits' \in 0 .. HeaderBits, fast' \in BOOLEAN,
         length' \in Nat, taken' \in Seq(Item), entry' \in [next : Nat, taken : Nat]
  PROVE  Typed' /\ Sent' /\ pending_buf' = pending_buf /\ sent' = sent
<1>1. bi_buf' = bi_buf /\ bi_valid' = bi_valid /\ pending_buf' = pending_buf /\ sent' = sent
  BY DEF encoder
<1>2. Typed'
  <2>1. bits' \in Nat /\ bits' <= HeaderBits
    BY BufferSize
  <2>2. HeaderBits' = HeaderBits /\ Buf_size' = Buf_size
    BY DEF HeaderBits, Buf_size
  <2>3. TypeOK'
    BY <1>1, <2>1 DEF IndInv, Typed, TypeOK
  <2> QED
    BY <1>1, <2>1, <2>2, <2>3 DEF IndInv, Typed
<1>3. Sent'
  <2>1. Sent
    BY DEF IndInv
  <2> QED
    BY <1>1, <2>1 DEF Sent, Written, WholeOut, All
<1> QED
  BY <1>1, <1>2, <1>3

\* Bytes are read, nothing else.
LEMMA PullStep ==
  ASSUME SizeAssumption, IndInv, NEW n \in 1 .. 2, Pull(n), bits + n * BYTE <= HeaderBits,
         length = 0, UNCHANGED <<encoder, fast, length, entry, taken>>
  PROVE  IndInv'
<1>1. /\ fast' = fast /\ length' = length /\ entry' = entry /\ taken' = taken
      /\ UNCHANGED encoder
  OBVIOUS
<1>2. pending_buf' = pending_buf /\ sent' = sent
  BY DEF encoder
<1>3. /\ HoldsWhatWasRead' /\ At' = At /\ bits' \in Nat
      /\ next' \in 0 .. Len(pending_buf) /\ bits' = bits + n * BYTE
  BY <1>2, PullKeeps
<1>4. /\ fast \in BOOLEAN /\ length \in Nat /\ taken \in Seq(Item) /\ HeaderBits \in Nat
      /\ entry \in [next : Nat, taken : Nat]
  BY Facts
<1>5. bits' \in 0 .. HeaderBits
  BY <1>3, <1>4
<1>6. Typed' /\ Sent'
  BY <1>1, <1>3, <1>4, <1>5, DecoderTyped
<1>7. Arrives'
  BY <1>1, <1>2 DEF IndInv, Arrives
<1>8. Before' = Before /\ \A k : Wants(k)' <=> Wants(k)
  BY <1>1, <1>2 DEF Before, Wants, Wanted
<1>9. Position'
  BY <1>1, <1>3, <1>8 DEF IndInv, Position
<1>10. Wanted' = Wanted
  BY <1>1, <1>2 DEF Wanted
<1>11. Entered'
  BY <1>1, <1>3, <1>8, <1>10 DEF IndInv, Entered
<1> QED
  BY <1>3, <1>6, <1>7, <1>9, <1>11 DEF IndInv

LEMMA KeepsNEEDBITS ==
  ASSUME SizeAssumption, IndInv, NEEDBITS PROVE IndInv'
<1>1. Wants("bits") /\ bits < Wanted.n /\ Pull(1) /\ UNCHANGED <<encoder, fast, length, entry, taken>>
  BY DEF NEEDBITS
<1>2. length = 0 /\ Wanted.n \in 1 .. Buf_size - 1
  BY <1>1, WantsBits
<1>3. bits \in Nat /\ BYTE \in Nat \ {0} /\ Buf_size = BYTE + BYTE /\ HeaderBits = Buf_size + Buf_size
  BY Facts
<1>4. bits + 1 * BYTE <= HeaderBits
  BY <1>1, <1>2, <1>3
<1> QED
  BY <1>1, <1>2, <1>4, PullStep

LEMMA KeepsFastPullExtra ==
  ASSUME SizeAssumption, IndInv, FastPullExtra PROVE IndInv'
<1>1. Wants("bits") /\ bits < Wanted.n /\ Pull(1) /\ UNCHANGED <<encoder, fast, length, entry, taken>>
  BY DEF FastPullExtra
<1>2. length = 0 /\ Wanted.n \in 1 .. Buf_size - 1
  BY <1>1, WantsBits
<1>3. bits \in Nat /\ BYTE \in Nat \ {0} /\ Buf_size = BYTE + BYTE /\ HeaderBits = Buf_size + Buf_size
  BY Facts
<1>4. bits + 1 * BYTE <= HeaderBits
  BY <1>1, <1>2, <1>3
<1> QED
  BY <1>1, <1>2, <1>4, PullStep

LEMMA KeepsFastPull ==
  ASSUME SizeAssumption, IndInv, FastPull PROVE IndInv'
<1>1. fast /\ bits < Buf_size - 1 /\ Pull(2) /\ UNCHANGED <<encoder, fast, length, entry, taken>>
  BY DEF FastPull
<1>2. length = 0
  <2>1. length \in Nat
    BY Facts
  <2> QED
    BY <1>1, <2>1 DEF IndInv, Position
<1>3. bits \in Nat /\ BYTE \in Nat \ {0} /\ Buf_size = BYTE + BYTE /\ HeaderBits = Buf_size + Buf_size
  BY Facts
<1>4. bits + 2 * BYTE <= HeaderBits
  BY <1>1, <1>3
<1> QED
  BY <1>1, <1>2, <1>4, PullStep

LEMMA KeepsNeedHeader ==
  ASSUME SizeAssumption, IndInv, NeedHeader PROVE IndInv'
<1>1. /\ length = 0 /\ Padding = 0 /\ bits < HeaderBits /\ Pull(1)
      /\ UNCHANGED <<encoder, fast, length, entry, taken>>
  BY DEF NeedHeader
<1>2. bits \in Nat /\ BYTE \in Nat \ {0} /\ Buf_size = BYTE + BYTE /\ HeaderBits = Buf_size + Buf_size
  BY Facts
<1>3. PICK q \in Nat : bits = q * BYTE + Padding /\ q * BYTE \in Nat
  BY WholeBytes
<1>4. HeaderBits = 4 * BYTE
  BY <1>2
<1>5. q < 4
  <2> SUFFICES ASSUME 4 <= q PROVE FALSE
    OBVIOUS
  <2>1. 4 * BYTE <= q * BYTE
    BY <1>2, Multiples
  <2> QED
    BY <1>1, <1>2, <1>3, <1>4, <2>1
<1>6. q * BYTE + BYTE <= 4 * BYTE
  BY <1>2, <1>5, Multiples
<1>7. bits + 1 * BYTE <= HeaderBits
  BY <1>1, <1>2, <1>3, <1>4, <1>6
<1> QED
  BY <1>1, <1>7, PullStep

LEMMA KeepsTake ==
  ASSUME SizeAssumption, IndInv, Take PROVE IndInv'
<1>1. /\ Wants("bits") /\ bits >= Wanted.n /\ Drop(Wanted.n)
      /\ taken' = Append(taken, [kind |-> "bits", n |-> Wanted.n, v |-> Bits(Wanted.n)])
      /\ UNCHANGED encoder /\ next' = next /\ fast' = fast /\ length' = length /\ entry' = entry
  BY DEF Take
<1>2. /\ Len(taken) < Len(sent)
      /\ Wanted.n \in 1 .. Buf_size - 1 /\ Wanted.n \in Nat
      /\ Wanted.v \in SUBSET (0 .. Wanted.n - 1)
      /\ Wanted = [kind |-> "bits", n |-> Wanted.n, v |-> Wanted.v]
      /\ After = Then(Before, Wanted.v, Wanted.n)
      /\ length = 0 /\ At = Before.len
  BY <1>1, WantsBits
<1>3. /\ Begins(After, All) /\ Append(taken, Wanted) \in Seq(Item)
      /\ Append(taken, Wanted) = SubSeq(sent, 1, Len(taken) + 1)
      /\ Len(Append(taken, Wanted)) = Len(taken) + 1
  BY <1>2, WantedIs
<1>4. /\ Before \in Run /\ At \in Nat /\ bits \in Nat /\ fast \in BOOLEAN /\ next \in Nat
      /\ next <= Len(pending_buf) /\ Len(pending_buf) \in Nat /\ HeaderBits \in Nat
      /\ bits <= HeaderBits /\ entry \in [next : Nat, taken : Nat] /\ BYTE \in Nat \ {0}
      /\ Len(taken) \in 0 .. Len(sent) /\ Len(sent) \in Nat
  BY Facts
<1>5. Low(hold, Wanted.n) = Wanted.v
  BY <1>1, <1>2, <1>3, <1>4, ReadsSent
<1>6. taken' = Append(taken, Wanted)
  BY <1>1, <1>2, <1>5 DEF Bits
<1>7. pending_buf' = pending_buf /\ sent' = sent
  BY <1>1 DEF encoder
<1>8. HoldsWhatWasRead' /\ At' = At + Wanted.n /\ bits' = bits - Wanted.n /\ bits' \in Nat
  BY <1>1, <1>2, <1>7, DropKeeps
<1>9. Typed' /\ Sent'
  <2>1. bits' \in 0 .. HeaderBits /\ next' \in 0 .. Len(pending_buf)
    BY <1>1, <1>2, <1>4, <1>8
  <2>2. fast' \in BOOLEAN /\ length' \in Nat /\ entry' \in [next : Nat, taken : Nat]
    BY <1>1, <1>2, <1>4
  <2>3. taken' \in Seq(Item) /\ UNCHANGED encoder
    BY <1>1, <1>3, <1>6
  <2> QED
    BY <2>1, <2>2, <2>3, DecoderTyped
<1>10. Len(taken') = Len(taken) + 1
  BY <1>3, <1>6
<1>11. Arrives'
  BY <1>2, <1>3, <1>4, <1>6, <1>7, <1>10 DEF Arrives
<1>12. Position'
  <2>1. Before' = After
    BY <1>7, <1>10 DEF Before, After
  <2>2. After.len = Before.len + Wanted.n
    BY <1>2, <1>4, ThenIs
  <2>3. At' = Before'.len /\ length' = 0
    BY <1>1, <1>2, <1>8, <2>1, <2>2
  <2> QED
    BY <2>3 DEF Position
<1>13. Entered'
  <2> SUFFICES ASSUME fast
               PROVE  /\ Len(taken') > entry'.taken
                      /\ At' > entry'.next * BYTE - BYTE
    <3>1. Len(taken') \in Nat /\ entry'.taken \in Nat
      BY <1>1, <1>4, <1>10
    <3> QED
      BY <1>1, <3>1 DEF Entered
  <2>1. Len(taken) >= entry.taken /\ entry.taken \in Nat /\ entry.next \in Nat
    BY <1>4 DEF IndInv, Entered
  <2>2. Len(taken') > entry'.taken
    BY <1>1, <1>4, <1>10, <2>1
  <2>3. entry.next * BYTE \in Nat
    BY <1>4, <2>1, Multiples
  <2>4. \/ entry.next * BYTE - At < BYTE
        \/ entry.next * BYTE - At < Wanted.n
        \/ At > entry.next * BYTE - BYTE
    BY <1>4, <2>1 DEF IndInv, Entered
  <2>5. At + Wanted.n > entry.next * BYTE - BYTE
    <3>1. \A e, a, k, d \in Nat :
             k > 0 /\ d > 0 /\ (e - a < d \/ e - a < k \/ a > e - d) => a + k > e - d
      OBVIOUS
    <3>2. Wanted.n \in Nat /\ Wanted.n > 0 /\ BYTE \in Nat /\ BYTE > 0 /\ At \in Nat
      BY <1>2, <1>4
    <3> QED
      BY <2>3, <2>4, <3>1, <3>2
  <2> QED
    BY <1>1, <1>8, <2>2, <2>5
<1> QED
  BY <1>8, <1>9, <1>11, <1>12, <1>13 DEF IndInv

LEMMA KeepsAlignStored ==
  ASSUME SizeAssumption, IndInv, AlignStored PROVE IndInv'
<1>1. /\ ~fast /\ Wants("stored") /\ length = 0 /\ Padding # 0 /\ Drop(Padding)
      /\ UNCHANGED encoder /\ next' = next /\ fast' = fast /\ length' = length
      /\ entry' = entry /\ taken' = taken
  BY DEF AlignStored
<1>2. pending_buf' = pending_buf /\ sent' = sent
  BY <1>1 DEF encoder
<1>3. /\ Before \in Run /\ At \in Nat /\ bits \in Nat /\ fast \in BOOLEAN /\ next \in Nat
      /\ next <= Len(pending_buf) /\ Len(pending_buf) \in Nat /\ HeaderBits \in Nat
      /\ bits <= HeaderBits /\ entry \in [next : Nat, taken : Nat] /\ BYTE \in Nat \ {0}
      /\ taken \in Seq(Item) /\ At = next * BYTE - bits /\ bits <= next * BYTE
      /\ next * BYTE \in Nat
  BY Facts
<1>4. PICK q \in Nat : /\ q * BYTE \in Nat /\ bits = q * BYTE + Padding
                       /\ Padding \in 0 .. BYTE - 1
  BY WholeBytes
<1>5. Padding \in Nat /\ Padding <= bits
  BY <1>3, <1>4
<1>6. /\ HoldsWhatWasRead' /\ At' = At + Padding /\ bits' = bits - Padding /\ bits' \in Nat
  BY <1>1, <1>2, <1>5, DropKeeps
<1>7. Typed' /\ Sent'
  <2>1. bits' \in 0 .. HeaderBits /\ next' \in 0 .. Len(pending_buf)
    BY <1>1, <1>3, <1>5, <1>6
  <2>2. /\ fast' \in BOOLEAN /\ length' \in Nat /\ entry' \in [next : Nat, taken : Nat]
        /\ taken' \in Seq(Item)
    BY <1>1, <1>3
  <2> QED
    BY <1>1, <2>1, <2>2, DecoderTyped
<1>8. Arrives'
  BY <1>1, <1>2 DEF IndInv, Arrives
<1>9. Before' = Before /\ Wants("stored")'
  BY <1>1, <1>2 DEF Before, Wants, Wanted
<1>10. At' = Padded(Before).len
  <2>1. q <= next
    <3> SUFFICES ASSUME next < q PROVE FALSE
      BY <1>3
    <3>1. next * BYTE + BYTE <= q * BYTE
      BY <1>3, Multiples
    <3> QED
      BY <1>3, <1>4, <1>5, <3>1
  <2>2. next - q \in Nat /\ (next - q) + q = next
    BY <1>3, <2>1
  <2>3. (next - q) * BYTE + q * BYTE = next * BYTE /\ (next - q) * BYTE \in Nat
    BY <1>3, <2>2, Multiples
  <2>4. At + Padding = (next - q) * BYTE
    BY <1>3, <1>4, <1>5, <2>3
  <2>5. CASE At = Before.len
    <3>1. Before.len <= (next - q) * BYTE /\ (next - q) * BYTE < Before.len + BYTE
      BY <1>3, <1>4, <2>3, <2>4, <2>5
    <3>2. Padded(Before) = [len |-> (next - q) * BYTE, ones |-> Before.ones]
      BY <1>3, <2>2, <3>1, PadsTo
    <3> QED
      BY <1>6, <2>4, <3>2
  <2>6. CASE At = Padded(Before).len
    <3>1. PICK k \in Nat : At = k * BYTE
      BY <1>3, <2>6, PaddedRun
    <3>2. k * BYTE + Padding = (next - q) * BYTE + 0
      BY <2>3, <2>4, <3>1
    <3>3. 0 \in 0 .. BYTE - 1
      BY <1>3
    <3>4. Padding = 0
      BY <1>3, <1>4, <2>2, <3>2, <3>3, SplitOnce
    <3> QED
      BY <1>1, <3>4
  <2> QED
    BY <1>1, <2>5, <2>6 DEF IndInv, Position
<1>11. Position'
  BY <1>1, <1>9, <1>10 DEF Position
<1>12. Entered'
  BY <1>1 DEF Entered
<1> QED
  BY <1>6, <1>7, <1>8, <1>11, <1>12 DEF IndInv

\* The header of a stored block is its length and the complement; the bytes
\* behind it have not been read.
LEMMA KeepsHeader ==
  ASSUME SizeAssumption, IndInv, Header PROVE IndInv'
<1> DEFINE raw == Wanted.raw
           h == StoredHeader(Before, Wanted.raw)
<1>1. /\ ~fast /\ Wants("stored") /\ length = 0 /\ bits >= HeaderBits
      /\ hold' = {} /\ bits' = 0
      /\ UNCHANGED encoder /\ next' = next /\ fast' = fast /\ entry' = entry
  BY DEF Header
<1>2. pending_buf' = pending_buf /\ sent' = sent
  BY <1>1 DEF encoder
<1>3. /\ Before \in Run /\ At \in Nat /\ bits \in Nat /\ fast \in BOOLEAN /\ next \in Nat
      /\ next <= Len(pending_buf) /\ Len(pending_buf) \in Nat /\ HeaderBits \in Nat
      /\ bits <= HeaderBits /\ entry \in [next : Nat, taken : Nat] /\ BYTE \in Nat \ {0}
      /\ taken \in Seq(Item) /\ At = next * BYTE - bits /\ bits <= next * BYTE
      /\ next * BYTE \in Nat /\ Buf_size \in Nat /\ Buf_size = BYTE + BYTE
      /\ HeaderBits = Buf_size + Buf_size /\ All \in Run
      /\ Len(taken) \in 0 .. Len(sent) /\ Len(sent) \in Nat
  BY Facts
<1>4. /\ Len(taken) < Len(sent) /\ raw \in Seq(Byte) /\ Len(raw) <= Buf_size
      /\ Wanted = [kind |-> "stored", raw |-> raw]
      /\ h \in Run /\ Begins(h, After)
      /\ OfBytes(raw) \in SUBSET (0 .. Len(raw) * BYTE - 1) /\ Len(raw) * BYTE \in Nat
      /\ After = Then(h, OfBytes(raw), Len(raw) * BYTE)
  BY <1>1, WantsStored
<1>5. /\ Begins(After, All) /\ Append(taken, Wanted) \in Seq(Item) /\ After \in Run
      /\ Append(taken, Wanted) = SubSeq(sent, 1, Len(taken) + 1)
      /\ Len(Append(taken, Wanted)) = Len(taken) + 1
  BY <1>4, WantedIs
<1> HIDE DEF raw, h
<1>6. bits = HeaderBits
  BY <1>1, <1>3
<1>7. At = Padded(Before).len
  <2>1. bits = 4 * BYTE + 0 /\ 0 \in 0 .. BYTE - 1
    BY <1>3, <1>6
  <2>2. PICK q \in Nat : bits = q * BYTE + Padding /\ Padding \in 0 .. BYTE - 1
    BY WholeBytes
  <2>3. Padding = 0
    <3>1. q * BYTE + Padding = 4 * BYTE + 0 /\ 4 \in Nat
      BY <2>1, <2>2
    <3> QED
      BY <1>3, <2>1, <2>2, <3>1, SplitOnce
  <2> QED
    BY <1>1, <2>3, AtTheBlock
<1>8. PICK f : f = Then(Padded(Before), LengthField(raw), Buf_size)
  OBVIOUS
<1>9. /\ f \in Run /\ Begins(f, h) /\ Padded(Before) \in Run
      /\ h.len = Padded(Before).len + HeaderBits
  <2>1. Padded(Before) \in Run
    BY <1>3, PaddedRun
  <2> QED
    BY <1>3, <1>4, <1>8, <2>1, HeaderIs DEF h, raw
<1>10. LengthField(raw) \in SUBSET (0 .. Buf_size - 1) /\ LengthOf(LengthField(raw)) = Len(raw)
  BY <1>4, LengthFieldIs
<1>11. Begins(f, All)
  <2>1. Begins(f, After)
    BY <1>4, <1>5, <1>9, BeginsOn
  <2> QED
    BY <1>3, <1>5, <1>9, <2>1, BeginsOn
<1>12. Low(hold, Buf_size) = LengthField(raw)
  <2>1. Buf_size <= bits
    BY <1>3, <1>6
  <2>2. Begins(Then(Padded(Before), LengthField(raw), Buf_size), All)
    BY <1>8, <1>11
  <2>3. Padded(Before).len = At
    BY <1>7
  <2> QED
    BY <1>3, <1>9, <1>10, <2>1, <2>2, <2>3, ReadsSent
<1>13. LengthOf(Low(hold, Buf_size)) = Len(raw)
  BY <1>10, <1>12
<1>14. \/ Len(raw) = 0 /\ taken' = Append(taken, [kind |-> "stored", raw |-> <<>>]) /\ length' = 0
       \/ Len(raw) # 0 /\ taken' = taken /\ length' = Len(raw)
  <2>1. IF Len(raw) = 0
          THEN taken' = Append(taken, [kind |-> "stored", raw |-> <<>>]) /\ UNCHANGED length
          ELSE length' = Len(raw) /\ UNCHANGED taken
    BY <1>13 DEF Header
  <2> QED
    BY <1>1, <2>1
<1>15. At' = h.len /\ HoldsWhatWasRead'
  <2>1. next' * BYTE - bits' = next * BYTE /\ 0 <= next * BYTE
    BY <1>1, <1>3
  <2>2. next * BYTE = h.len
    BY <1>3, <1>6, <1>7, <1>9
  <2>3. OfBytes(pending_buf) \in SUBSET Nat
    BY Facts
  <2>4. Shr(Low(OfBytes(pending_buf), next * BYTE), next * BYTE) = {}
    <3>1. PICK v \in SUBSET Nat : v = Low(OfBytes(pending_buf), next * BYTE)
      BY <2>3 DEF Low
    <3>2. PICK k \in Nat : k = next * BYTE
      BY <1>3
    <3>3. Shr(v, k) \in SUBSET Nat /\ \A x \in Nat : x \in Shr(v, k) <=> x + k \in v
      BY InShr
    <3>4. v \subseteq 0 .. k - 1
      BY <3>1, <3>2 DEF Low
    <3>5. Shr(v, k) = {}
      BY <3>3, <3>4
    <3> QED
      BY <3>1, <3>2, <3>5
  <2>5. HoldsWhatWasRead'
    <3>1. bits' <= next' * BYTE /\ next' * BYTE = next * BYTE
      BY <1>1, <2>1
    <3> QED
      BY <1>1, <1>2, <2>1, <2>4, <3>1 DEF HoldsWhatWasRead
  <2> QED
    BY <2>1, <2>2, <2>5 DEF At
<1>16. Len(raw) = 0 => taken' = Append(taken, Wanted)
  <2> SUFFICES ASSUME Len(raw) = 0 PROVE taken' = Append(taken, Wanted)
    OBVIOUS
  <2>1. raw = <<>>
    BY <1>4
  <2> QED
    BY <1>4, <1>14, <2>1
<1>17. taken' \in Seq(Item) /\ length' \in Nat
  <2>1. Len(raw) \in Nat
    BY <1>4
  <2> QED
    BY <1>3, <1>5, <1>14, <1>16, <2>1
<1>18. Typed' /\ Sent'
  <2>1. bits' \in 0 .. HeaderBits /\ next' \in 0 .. Len(pending_buf)
    BY <1>1, <1>3
  <2>2. fast' \in BOOLEAN /\ entry' \in [next : Nat, taken : Nat]
    BY <1>1, <1>3
  <2> QED
    BY <1>1, <1>17, <2>1, <2>2, DecoderTyped
<1>19. Entered'
  BY <1>1 DEF Entered
<1>20. CASE Len(raw) = 0
  <2>1. Len(taken') = Len(taken) + 1 /\ taken' = Append(taken, Wanted) /\ length' = 0
    BY <1>5, <1>14, <1>16, <1>20
  <2>2. Arrives'
    BY <1>2, <1>3, <1>4, <1>5, <2>1 DEF Arrives
  <2>3. After.len = h.len
    <3>1. After.len = h.len + Len(raw) * BYTE
      BY <1>4, ThenIs
    <3>2. h.len \in Nat
      BY <1>4, InRun
    <3> QED
      BY <1>3, <1>20, <3>1, <3>2
  <2>4. Before' = After
    BY <1>2, <2>1 DEF Before, After
  <2>5. Position'
    BY <1>15, <2>1, <2>3, <2>4 DEF Position
  <2> QED
    BY <1>15, <1>18, <1>19, <2>2, <2>5 DEF IndInv
<1>21. CASE Len(raw) # 0
  <2>1. taken' = taken /\ length' = Len(raw)
    BY <1>14, <1>21
  <2>2. Arrives'
    BY <1>2, <2>1 DEF IndInv, Arrives
  <2>3. Wants("stored")' /\ Wanted' = Wanted /\ Before' = Before
    BY <1>1, <1>2, <2>1 DEF Wants, Wanted, Before
  <2>4. Position'
    <3>1. StoredHeader(Before, Wanted.raw)' = h
      BY <2>3 DEF h
    <3>2. Len(Wanted.raw)' = Len(raw)
      BY <2>3 DEF raw
    <3> QED
      BY <1>1, <1>15, <1>21, <2>1, <2>3, <3>1, <3>2 DEF Position
  <2> QED
    BY <1>15, <1>18, <1>19, <2>2, <2>4 DEF IndInv
<1> QED
  BY <1>20, <1>21

\* The bytes copied are the block's.
LEMMA CopiesRaw ==
  ASSUME SizeAssumption, IndInv, length > 0, Available(length)
  PROVE  SubSeq(pending_buf, next + 1, next + length) = Wanted.raw
<1> DEFINE raw == Wanted.raw
           h == StoredHeader(Before, Wanted.raw)
<1>1. /\ Wants("stored") /\ bits = 0 /\ At = h.len /\ length = Len(raw)
  BY Facts DEF IndInv, Position
<1>2. /\ At \in Nat /\ next \in Nat /\ Len(pending_buf) \in Nat /\ BYTE \in Nat \ {0}
      /\ At = next * BYTE - bits /\ next * BYTE \in Nat /\ pending_buf \in Seq(Byte)
      /\ All \in Run
  BY Facts
<1>3. /\ Len(taken) < Len(sent) /\ raw \in Seq(Byte)
      /\ h \in Run /\ OfBytes(raw) \in SUBSET (0 .. Len(raw) * BYTE - 1)
      /\ Len(raw) * BYTE \in Nat /\ After = Then(h, OfBytes(raw), Len(raw) * BYTE)
  BY <1>1, WantsStored
<1>4. Begins(After, All)
  BY <1>3, WantedIs
<1>5. next + length <= Len(pending_buf)
  BY DEF Available
<1> HIDE DEF raw, h
<1>6. PICK m \in Nat : m = next + Len(raw)
  BY <1>2, <1>3
<1>7. /\ m <= Len(pending_buf) /\ m * BYTE = next * BYTE + Len(raw) * BYTE /\ m * BYTE \in Nat
      /\ m * BYTE <= Len(pending_buf) * BYTE /\ Len(raw) \in Nat
  <2>1. PICK n \in Nat, k \in Nat, e \in Nat : n = next /\ k = Len(raw) /\ e = Len(pending_buf)
    <3>1. Len(raw) \in Nat
      BY <1>3
    <3> QED
      BY <1>2, <3>1
  <2>2. m = n + k /\ m <= e
    BY <1>1, <1>5, <1>6, <2>1
  <2>3. m * BYTE = n * BYTE + k * BYTE /\ m * BYTE \in Nat /\ m * BYTE <= e * BYTE
    BY <1>2, <2>2, Multiples
  <2> QED
    BY <2>1, <2>2, <2>3
<1>8. h.len = next * BYTE
  BY <1>1, <1>2
<1>9. Low(OfBytes(pending_buf), m * BYTE) = After.ones
  <2>1. After.len = m * BYTE
    BY <1>3, <1>7, <1>8, ThenIs
  <2>2. Low(OfBytes(pending_buf), m * BYTE) = Low(All.ones, m * BYTE)
    BY <1>7, BytesSent
  <2> QED
    BY <1>4, <2>1, <2>2 DEF Begins
<1>10. \A x \in Nat : x + next * BYTE \in After.ones <=> x \in OfBytes(raw)
  <2> SUFFICES ASSUME NEW x \in Nat PROVE x + next * BYTE \in After.ones <=> x \in OfBytes(raw)
    OBVIOUS
  <2>1. After.ones = h.ones \cup Shl(OfBytes(raw), next * BYTE)
    BY <1>3, <1>8 DEF Then
  <2>2. h.ones \subseteq 0 .. next * BYTE - 1
    BY <1>3, <1>8, InRun
  <2>3. x + next * BYTE \in Nat /\ x + next * BYTE \notin 0 .. next * BYTE - 1
        /\ x + next * BYTE >= next * BYTE /\ (x + next * BYTE) - next * BYTE = x
    BY <1>2
  <2>4. OfBytes(raw) \in SUBSET Nat
    BY <1>3, InBytes
  <2>5. x + next * BYTE \in Shl(OfBytes(raw), next * BYTE) <=> x \in OfBytes(raw)
    BY <1>2, <2>3, <2>4, InShl
  <2> QED
    BY <2>1, <2>2, <2>3, <2>5
<1>11. ASSUME NEW i \in 1 .. Len(raw) PROVE pending_buf[next + i] = raw[i]
  <2>1. i - 1 \in Nat /\ i - 1 < Len(raw) /\ (i - 1) + 1 = i /\ next + (i - 1) \in Nat
        /\ next + (i - 1) < Len(pending_buf) /\ (next + (i - 1)) + 1 = next + i
        /\ next + (i - 1) < m
    BY <1>2, <1>6, <1>7
  <2>2. raw[i] \in Byte /\ pending_buf[next + i] \in Byte
    <3>1. next + i \in 1 .. Len(pending_buf)
      BY <1>2, <2>1
    <3> QED
      BY <1>2, <1>3, <3>1
  <2>3. ASSUME NEW j \in 0 .. BYTE - 1 PROVE j \in raw[i] <=> j \in pending_buf[next + i]
    <3>1. (i - 1) * BYTE + j \in OfBytes(raw) <=> j \in raw[i]
      <4>1. (i - 1) * BYTE + j \in OfBytes(raw) <=> i - 1 < Len(raw) /\ j \in raw[(i - 1) + 1]
        BY <1>3, <2>1, InBytes
      <4> QED
        BY <2>1, <4>1
    <3>2. (next + (i - 1)) * BYTE + j \in OfBytes(pending_buf) <=> j \in pending_buf[next + i]
      <4>1. (next + (i - 1)) * BYTE + j \in OfBytes(pending_buf)
              <=> next + (i - 1) < Len(pending_buf) /\ j \in pending_buf[(next + (i - 1)) + 1]
        BY <1>2, <2>1, InBytes
      <4> QED
        BY <2>1, <4>1
    <3>3. PICK u \in Nat : u = (i - 1) * BYTE
      BY <1>2, <2>1, Multiples
    <3>4. (next + (i - 1)) * BYTE = next * BYTE + u /\ (next + (i - 1)) * BYTE + BYTE <= m * BYTE
      BY <1>2, <2>1, <3>3, Multiples
    <3>5. /\ u + j \in Nat /\ (next + (i - 1)) * BYTE + j = (u + j) + next * BYTE
          /\ (u + j) + next * BYTE \in 0 .. m * BYTE - 1
      BY <1>2, <1>7, <3>3, <3>4
    <3>6. (u + j) + next * BYTE \in OfBytes(pending_buf) <=> (u + j) + next * BYTE \in After.ones
      BY <1>9, <3>5 DEF Low
    <3> QED
      BY <1>10, <3>1, <3>2, <3>3, <3>5, <3>6
  <2> QED
    BY <2>2, <2>3 DEF Byte
<1>12. /\ SubSeq(pending_buf, next + 1, next + length) \in Seq(Byte)
       /\ Len(SubSeq(pending_buf, next + 1, next + length)) = Len(raw)
       /\ \A i \in 1 .. Len(raw) :
            SubSeq(pending_buf, next + 1, next + length)[i] = pending_buf[next + i]
  <2>1. next + 1 \in 1 .. Len(pending_buf) /\ next + length \in 1 .. Len(pending_buf)
        /\ length \in Nat
    BY <1>1, <1>2, <1>5, <1>7
  <2>2. \A i \in 1 .. length : i + (next + 1) - 1 = next + i
    BY <1>2, <2>1
  <2> QED
    BY <1>1, <1>2, <1>7, <2>1, <2>2
<1>13. SubSeq(pending_buf, next + 1, next + length) = raw
  <2>1. PICK s : s = SubSeq(pending_buf, next + 1, next + length)
    OBVIOUS
  <2>2. s \in Seq(Byte) /\ Len(s) = Len(raw) /\ \A i \in 1 .. Len(raw) : s[i] = raw[i]
    BY <1>11, <1>12, <2>1
  <2>3. s = raw
    BY <1>3, <2>2
  <2> QED
    BY <2>1, <2>3
<1> QED
  BY <1>13 DEF raw

LEMMA KeepsCOPY ==
  ASSUME SizeAssumption, IndInv, COPY PROVE IndInv'
<1> DEFINE raw == Wanted.raw
           h == StoredHeader(Before, Wanted.raw)
<1>1. /\ ~fast /\ Wants("stored") /\ length > 0 /\ Available(length)
      /\ taken' = Append(taken, [kind |-> "stored",
                                 raw |-> SubSeq(pending_buf, next + 1, next + length)])
      /\ next' = next + length /\ length' = 0
      /\ UNCHANGED encoder /\ hold' = hold /\ bits' = bits /\ fast' = fast /\ entry' = entry
  BY DEF COPY
<1>2. pending_buf' = pending_buf /\ sent' = sent
  BY <1>1 DEF encoder
<1>3. /\ At \in Nat /\ bits \in Nat /\ fast \in BOOLEAN /\ next \in Nat /\ length \in Nat
      /\ next <= Len(pending_buf) /\ Len(pending_buf) \in Nat /\ HeaderBits \in Nat
      /\ bits <= HeaderBits /\ entry \in [next : Nat, taken : Nat] /\ BYTE \in Nat \ {0}
      /\ At = next * BYTE - bits /\ bits <= next * BYTE /\ next * BYTE \in Nat
      /\ Len(taken) \in 0 .. Len(sent) /\ Len(sent) \in Nat
  BY Facts
<1>4. bits = 0 /\ At = h.len /\ length = Len(raw)
  BY <1>1, <1>3 DEF IndInv, Position
<1>5. /\ Len(taken) < Len(sent) /\ raw \in Seq(Byte)
      /\ Wanted = [kind |-> "stored", raw |-> raw]
      /\ h \in Run /\ OfBytes(raw) \in SUBSET (0 .. Len(raw) * BYTE - 1)
      /\ Len(raw) * BYTE \in Nat /\ After = Then(h, OfBytes(raw), Len(raw) * BYTE)
  BY <1>1, WantsStored
<1>6. /\ Append(taken, Wanted) \in Seq(Item)
      /\ Append(taken, Wanted) = SubSeq(sent, 1, Len(taken) + 1)
      /\ Len(Append(taken, Wanted)) = Len(taken) + 1
  BY <1>5, WantedIs
<1>7. taken' = Append(taken, Wanted)
  <2>1. SubSeq(pending_buf, next + 1, next + length) = raw
    BY <1>1, CopiesRaw
  <2> QED
    BY <1>1, <1>5, <2>1
<1> HIDE DEF raw, h
<1>8. next + length \in Nat /\ (next + length) * BYTE = next * BYTE + length * BYTE
      /\ next + length <= Len(pending_buf) /\ length * BYTE \in Nat
  BY <1>1, <1>3, Multiples DEF Available
<1>9. Typed' /\ Sent'
  <2>1. bits' \in 0 .. HeaderBits /\ next' \in 0 .. Len(pending_buf)
    BY <1>1, <1>3, <1>8
  <2>2. /\ fast' \in BOOLEAN /\ length' \in Nat /\ entry' \in [next : Nat, taken : Nat]
        /\ taken' \in Seq(Item)
    BY <1>1, <1>3, <1>6, <1>7
  <2> QED
    BY <1>1, <2>1, <2>2, DecoderTyped
<1>10. Len(taken') = Len(taken) + 1
  BY <1>6, <1>7
<1>11. Arrives'
  BY <1>2, <1>3, <1>5, <1>6, <1>7, <1>10 DEF Arrives
<1>12. HoldsWhatWasRead' /\ At' = (next + length) * BYTE
  <2>1. next' * BYTE - bits' = (next + length) * BYTE /\ bits' = 0 /\ bits' <= next' * BYTE
    BY <1>1, <1>3, <1>4, <1>8
  <2>2. OfBytes(pending_buf) \in SUBSET Nat
    BY Facts
  <2>3. hold = {} /\ \A k \in Nat : Shr(Low(OfBytes(pending_buf), k), k) = {}
    <3>1. ASSUME NEW k \in Nat PROVE Shr(Low(OfBytes(pending_buf), k), k) = {}
      <4>1. PICK v \in SUBSET Nat : v = Low(OfBytes(pending_buf), k)
        BY <2>2 DEF Low
      <4>2. Shr(v, k) \in SUBSET Nat /\ \A x \in Nat : x \in Shr(v, k) <=> x + k \in v
        BY InShr
      <4>3. v \subseteq 0 .. k - 1
        BY <4>1 DEF Low
      <4>4. Shr(v, k) = {}
        BY <4>2, <4>3
      <4> QED
        BY <4>1, <4>4
    <3>2. hold = Shr(Low(OfBytes(pending_buf), next * BYTE), next * BYTE - bits)
      BY DEF IndInv, HoldsWhatWasRead
    <3>3. next * BYTE - bits = next * BYTE
      BY <1>3, <1>4
    <3> QED
      BY <1>3, <3>1, <3>2, <3>3
  <2>4. HoldsWhatWasRead'
    <3>1. next' * BYTE \in Nat /\ next' * BYTE - bits' = next' * BYTE
      BY <1>1, <1>3, <1>8, <2>1
    <3> QED
      BY <1>1, <1>2, <2>1, <2>3, <3>1 DEF HoldsWhatWasRead
  <2> QED
    BY <2>1, <2>4 DEF At
<1>13. Position'
  <2>1. Before' = After
    BY <1>2, <1>10 DEF Before, After
  <2>2. After.len = h.len + Len(raw) * BYTE
    BY <1>5, ThenIs
  <2>3. At' = After.len
    BY <1>3, <1>4, <1>8, <1>12, <2>2
  <2> QED
    BY <1>1, <2>1, <2>3 DEF Position
<1>14. Entered'
  BY <1>1 DEF Entered
<1> QED
  BY <1>9, <1>11, <1>12, <1>13, <1>14 DEF IndInv

LEMMA KeepsFastEntry ==
  ASSUME SizeAssumption, IndInv, FastEntry PROVE IndInv'
<1>1. /\ ~fast /\ Wants("bits") /\ (bits < BYTE \/ bits < Wanted.n)
      /\ fast' = TRUE /\ entry' = [next |-> next, taken |-> Len(taken)]
      /\ UNCHANGED encoder /\ next' = next /\ hold' = hold /\ bits' = bits
      /\ length' = length /\ taken' = taken
  BY DEF FastEntry
<1>2. pending_buf' = pending_buf /\ sent' = sent
  BY <1>1 DEF encoder
<1>3. /\ At \in Nat /\ bits \in Nat /\ next \in Nat /\ length \in Nat
      /\ next <= Len(pending_buf) /\ Len(pending_buf) \in Nat /\ HeaderBits \in Nat
      /\ bits <= HeaderBits /\ BYTE \in Nat \ {0} /\ taken \in Seq(Item)
      /\ At = next * BYTE - bits /\ bits <= next * BYTE /\ next * BYTE \in Nat
      /\ Len(taken) \in 0 .. Len(sent) /\ Len(sent) \in Nat
  BY Facts
<1>4. entry' \in [next : Nat, taken : Nat]
  <2>1. Len(taken) \in Nat
    BY <1>3
  <2> QED
    BY <1>1, <1>3, <2>1
<1>5. Typed' /\ Sent'
  <2>1. bits' \in 0 .. HeaderBits /\ next' \in 0 .. Len(pending_buf)
    BY <1>1, <1>3
  <2>2. fast' \in BOOLEAN /\ length' \in Nat /\ taken' \in Seq(Item)
    BY <1>1, <1>3
  <2> QED
    BY <1>1, <1>4, <2>1, <2>2, DecoderTyped
<1>6. Arrives'
  BY <1>1, <1>2 DEF IndInv, Arrives
<1>7. HoldsWhatWasRead'
  BY <1>1, <1>2 DEF IndInv, HoldsWhatWasRead
<1>8. At' = At /\ Before' = Before /\ Wanted' = Wanted /\ Wants("bits")'
  BY <1>1, <1>2 DEF At, Before, Wanted, Wants
<1>9. length = 0 /\ At = Before.len
  BY <1>1, WantsBits
<1>10. Position'
  BY <1>1, <1>8, <1>9 DEF Position
<1>11. Entered'
  <2>1. entry'.next = next /\ entry'.taken = Len(taken)
    BY <1>1
  <2>2. entry'.next * BYTE - At' = bits
    BY <1>3, <1>8, <2>1
  <2>3. Len(taken') = Len(taken) /\ Len(taken) \in Nat
    BY <1>1, <1>3
  <2>4. entry'.next * BYTE - At' < BYTE \/ entry'.next * BYTE - At' < Wanted'.n
    BY <1>1, <1>8, <2>2
  <2>5. Len(taken') >= entry'.taken /\ ~(Len(taken') > entry'.taken)
    BY <2>1, <2>3
  <2> QED
    BY <1>8, <2>4, <2>5 DEF Entered
<1> QED
  BY <1>5, <1>6, <1>7, <1>10, <1>11 DEF IndInv

\* What is given back has not been used, and was read since the entry.
LEMMA KeepsFastReturn ==
  ASSUME SizeAssumption, IndInv, FastReturn PROVE IndInv'
<1>1. /\ fast /\ next' = next - Unused /\ bits' = bits - Unused * BYTE
      /\ hold' = Low(hold, bits - Unused * BYTE) /\ fast' = FALSE
      /\ UNCHANGED encoder /\ length' = length /\ entry' = entry /\ taken' = taken
  BY DEF FastReturn, Left
<1>2. pending_buf' = pending_buf /\ sent' = sent
  BY <1>1 DEF encoder
<1>3. /\ At \in Nat /\ bits \in Nat /\ next \in Nat /\ length \in Nat
      /\ next <= Len(pending_buf) /\ Len(pending_buf) \in Nat /\ HeaderBits \in Nat
      /\ bits <= HeaderBits /\ BYTE \in Nat \ {0} /\ taken \in Seq(Item)
      /\ At = next * BYTE - bits /\ bits <= next * BYTE /\ next * BYTE \in Nat
      /\ entry \in [next : Nat, taken : Nat] /\ OfBytes(pending_buf) \in SUBSET Nat
  BY Facts
<1>4. PICK q \in Nat : /\ Unused = q /\ q * BYTE \in Nat /\ bits = q * BYTE + Padding
                       /\ Padding \in 0 .. BYTE - 1
  BY WholeBytes
<1>5. q <= next
  <2> SUFFICES ASSUME next < q PROVE FALSE
    BY <1>3
  <2>1. next * BYTE + BYTE <= q * BYTE
    BY <1>3, Multiples
  <2> QED
    BY <1>3, <1>4, <2>1
<1>6. next - q \in Nat /\ (next - q) + q = next
  BY <1>3, <1>5
<1>7. PICK k \in Nat : k = (next - q) * BYTE /\ k + q * BYTE = next * BYTE
  BY <1>3, <1>6, Multiples
<1>8. next' = next - q /\ next' * BYTE = k /\ bits' = bits - q * BYTE
  BY <1>1, <1>4, <1>7
<1>9. bits' = Padding /\ k - bits' = At /\ bits' <= k /\ At <= k /\ k <= next * BYTE
      /\ k - At = bits' /\ bits' \in Nat
  BY <1>3, <1>4, <1>7, <1>8
<1>10. hold' = Low(hold, k - At)
  BY <1>1, <1>4, <1>8, <1>9
<1>11. hold = Shr(Low(OfBytes(pending_buf), next * BYTE), At)
  BY <1>3 DEF IndInv, HoldsWhatWasRead
<1>12. hold' = Shr(Low(OfBytes(pending_buf), k), At)
  <2>1. PICK a \in Nat : a = At
    BY <1>3
  <2>2. PICK r \in Nat : r = next * BYTE
    BY <1>3
  <2>3. k \in Nat /\ a <= k /\ k <= r
    BY <1>3, <1>4, <1>7, <1>9, <2>1, <2>2
  <2>4. PICK w \in SUBSET Nat : w = OfBytes(pending_buf)
    BY <1>3
  <2>5. Low(Shr(Low(w, r), a), k - a) = Shr(Low(w, k), a)
    BY <2>3, LowShr
  <2> QED
    BY <1>10, <1>11, <2>1, <2>2, <2>4, <2>5
<1>13. HoldsWhatWasRead'
  BY <1>2, <1>8, <1>9, <1>12 DEF HoldsWhatWasRead
<1>14. At' = At
  BY <1>8, <1>9 DEF At
<1>15. Typed' /\ Sent'
  <2>1. bits' \in 0 .. HeaderBits /\ next' \in 0 .. Len(pending_buf)
    BY <1>3, <1>4, <1>5, <1>8, <1>9
  <2>2. /\ fast' \in BOOLEAN /\ length' \in Nat /\ taken' \in Seq(Item)
        /\ entry' \in [next : Nat, taken : Nat]
    BY <1>1, <1>3
  <2> QED
    BY <1>1, <2>1, <2>2, DecoderTyped
<1>16. Arrives'
  BY <1>1, <1>2 DEF IndInv, Arrives
<1>17. Before' = Before /\ \A w : Wants(w)' <=> Wants(w)
  BY <1>1, <1>2 DEF Before, Wants, Wanted
<1>18. length = 0
  BY <1>1, <1>3 DEF IndInv, Position
<1>19. Position'
  BY <1>1, <1>14, <1>17, <1>18 DEF IndInv, Position
<1>20. Entered'
  BY <1>1 DEF Entered
<1> QED
  BY <1>13, <1>15, <1>16, <1>19, <1>20 DEF IndInv

----------------------------------------------------------------------------
(***************************************************************************)
(* The encoder's steps.                                                    *)
(***************************************************************************)

\* The bytes sent so far and the items' bits so far stay what they are.
LEMMA EncoderKeeps ==
  ASSUME SizeAssumption, IndInv, UNCHANGED decoder,
         pending_buf' \in Seq(Byte), Grows(pending_buf, pending_buf'),
         bi_valid' \in 0 .. Buf_size, bi_buf' \in SUBSET (0 .. bi_valid' - 1),
         sent' \in Seq(Item), Len(sent) <= Len(sent'), Len(sent') <= MaxItems,
         \A i \in 1 .. Len(sent) : sent'[i] = sent[i],
         \A k \in 0 .. Len(sent) : Layout(sent')[k] = Layout(sent)[k]
  PROVE  Typed' /\ Arrives' /\ HoldsWhatWasRead' /\ Position' /\ Entered'
<1>1. /\ next' = next /\ hold' = hold /\ bits' = bits /\ fast' = fast /\ length' = length
      /\ entry' = entry /\ taken' = taken
  BY DEF decoder
<1>2. /\ next \in Nat /\ next <= Len(pending_buf) /\ Len(pending_buf) \in Nat
      /\ bits \in Nat /\ bits <= HeaderBits /\ length \in Nat /\ fast \in BOOLEAN
      /\ entry \in [next : Nat, taken : Nat] /\ taken \in Seq(Item)
      /\ Len(taken) \in 0 .. Len(sent) /\ Len(sent) \in Nat /\ sent \in Seq(Item)
      /\ next * BYTE \in Nat /\ next * BYTE <= Len(pending_buf) * BYTE
      /\ Len(pending_buf) * BYTE \in Nat
  BY Facts
<1>3. Len(sent') \in Nat /\ Len(pending_buf') \in Nat /\ Len(pending_buf) <= Len(pending_buf')
  BY DEF Grows
<1>4. Typed'
  <2>1. TypeOK'
    <3>1. next' \in 0 .. Len(pending_buf')
      BY <1>1, <1>2, <1>3
    <3>2. \A i \in DOMAIN pending_buf' : pending_buf'[i] \subseteq 0 .. BYTE - 1
      BY DEF Byte
    <3>3. bits' \in Nat /\ fast' \in BOOLEAN /\ length' \in Nat
      BY <1>1, <1>2
    <3> QED
      BY <3>1, <3>2, <3>3 DEF TypeOK, Buf_size
  <2> QED
    BY <1>1, <1>2, <2>1 DEF Typed, HeaderBits, Buf_size
<1>5. \A i \in 1 .. Len(taken) : sent'[i] = sent[i]
  BY <1>2
<1>6. Arrives'
  <2>1. taken = SubSeq(sent, 1, Len(taken))
    BY DEF IndInv, Arrives
  <2>2. \A i \in 1 .. Len(taken) : taken[i] = sent[i]
    BY <1>2, <2>1
  <2>3. PICK s : s = SubSeq(sent', 1, Len(taken))
    OBVIOUS
  <2>4. s \in Seq(Item) /\ Len(s) = Len(taken) /\ \A i \in 1 .. Len(taken) : s[i] = sent'[i]
    BY <1>2, <1>3, <2>3
  <2>5. taken = s
    <3>1. \A i \in 1 .. Len(taken) : taken[i] = s[i]
      BY <1>5, <2>2, <2>4
    <3>2. taken \in Seq(Item)
      BY <1>2
    <3> QED
      BY <2>4, <3>1, <3>2
  <2>6. Len(taken) <= Len(sent')
    BY <1>2, <1>3
  <2> QED
    BY <1>1, <2>3, <2>5, <2>6 DEF Arrives
<1>7. HoldsWhatWasRead'
  <2>1. Low(OfBytes(pending_buf'), next * BYTE) = Low(OfBytes(pending_buf), next * BYTE)
    <3>1. Low(OfBytes(pending_buf'), Len(pending_buf) * BYTE) = OfBytes(pending_buf)
      BY DEF Grows
    <3>2. Low(Low(OfBytes(pending_buf'), Len(pending_buf) * BYTE), next * BYTE)
          = Low(OfBytes(pending_buf'), next * BYTE)
      BY <1>2, LowLow
    <3> QED
      BY <3>1, <3>2
  <2> QED
    BY <1>1, <2>1 DEF IndInv, HoldsWhatWasRead
<1>8. At' = At /\ Before' = Before
  BY <1>1, <1>2 DEF At, Before
<1>9. Len(taken) < Len(sent) => Wanted' = Wanted /\ Len(taken') < Len(sent')
  <2> SUFFICES ASSUME Len(taken) < Len(sent)
               PROVE  Wanted' = Wanted /\ Len(taken') < Len(sent')
    OBVIOUS
  <2>1. Len(taken) + 1 \in 1 .. Len(sent)
    BY <1>2
  <2> QED
    BY <1>1, <1>2, <1>3, <2>1 DEF Wanted
<1>10. ASSUME NEW k, Wants(k) PROVE Wants(k)' /\ Wanted' = Wanted
  BY <1>9, <1>10 DEF Wants
<1>11. Position'
  BY <1>1, <1>8, <1>10 DEF IndInv, Position
<1>12. Entered'
  BY <1>1, <1>8, <1>10 DEF IndInv, Entered
<1> QED
  BY <1>4, <1>6, <1>7, <1>11, <1>12

\* The run after an operation
LEMMA BecomesIs ==
  ASSUME SizeAssumption, NEW r, Packing(r), Becomes(r)
  PROVE  /\ Written' = Stream(r) /\ pending_buf' = r.out /\ pending_buf' \in Seq(Byte)
         /\ bi_valid' \in 0 .. Buf_size /\ bi_buf' \in SUBSET (0 .. bi_valid' - 1)
<1>1. bi_buf' = r.buf /\ bi_valid' = r.valid /\ pending_buf' = r.out
  BY DEF Becomes
<1>2. Written' = Stream(r)
  BY <1>1 DEF Written, WholeOut, Stream, OfOut
<1> QED
  BY <1>1, <1>2 DEF Packing

LEMMA NowIs ==
  ASSUME SizeAssumption, IndInv
  PROVE  Packing(Now) /\ Now.out = pending_buf /\ Stream(Now) = Written
<1>1. Now.out = pending_buf /\ Now.valid = bi_valid /\ Now.buf = bi_buf
  BY DEF Now
<1>2. /\ bi_valid \in 0 .. Buf_size /\ bi_buf \in SUBSET (0 .. bi_valid - 1)
      /\ pending_buf \in Seq(Byte)
  BY DEF IndInv, Typed, TypeOK
<1> QED
  BY <1>1, <1>2 DEF Packing, Stream, Written, WholeOut, OfOut

\* Items are only sent before the last is padded.
LEMMA NotPadded ==
  ASSUME SizeAssumption, IndInv, Len(sent) < MaxItems
  PROVE  Written = All
<1>1. Len(sent) \in Nat
  BY Facts
<1>2. Len(sent) # MaxItems
  BY <1>1 DEF SizeAssumption
<1> QED
  BY <1>2 DEF IndInv, Sent

LEMMA KeepsSend ==
  ASSUME SizeAssumption, ItemsAssumption, IndInv, Send PROVE IndInv'
<1> PICK k \in 1 .. Buf_size - 1 : \E v \in Values[k] :
         /\ Becomes(send_bits(Now, v, k))
         /\ sent' = Append(sent, [kind |-> "bits", n |-> k, v |-> v])
  BY DEF Send
<1>1. PICK v \in Values[k] :
           /\ Becomes(send_bits(Now, v, k))
           /\ sent' = Append(sent, [kind |-> "bits", n |-> k, v |-> v])
  OBVIOUS
<1>2. Len(sent) < MaxItems /\ UNCHANGED decoder
  BY DEF Send
<1>3. v \in SUBSET (0 .. k - 1) /\ k \in Nat
  BY DEF ItemsAssumption
<1>4. Packing(Now) /\ Now.out = pending_buf /\ Stream(Now) = Written
  BY NowIs
<1>5. PICK r : r = send_bits(Now, v, k)
  OBVIOUS
<1>6. Packing(r) /\ Stream(r) = Then(Stream(Now), v, k) /\ Grows(Now.out, r.out)
  BY <1>3, <1>4, <1>5, SendBits
<1>7. /\ Written' = Stream(r) /\ pending_buf' = r.out /\ pending_buf' \in Seq(Byte)
      /\ bi_valid' \in 0 .. Buf_size /\ bi_buf' \in SUBSET (0 .. bi_valid' - 1)
  BY <1>1, <1>5, <1>6, BecomesIs
<1>8. PICK x : x = [kind |-> "bits", n |-> k, v |-> v]
  OBVIOUS
<1>9. x \in Item
  BY <1>3, <1>8, BitItemIs
<1>10. sent \in Seq(Item) /\ Len(sent) \in Nat /\ sent' = Append(sent, x)
  BY <1>1, <1>8, Facts
<1>11. /\ sent' \in Seq(Item) /\ Len(sent') = Len(sent) + 1
       /\ \A j \in 0 .. Len(sent) : Layout(sent')[j] = Layout(sent)[j]
       /\ Layout(sent')[Len(sent')] = WithItem(Layout(sent)[Len(sent)], x)
  BY <1>9, <1>10, LayoutAppend
<1>12. \A i \in 1 .. Len(sent) : sent'[i] = sent[i]
  BY <1>10
<1>13. Len(sent) <= Len(sent') /\ Len(sent') <= MaxItems
  BY <1>2, <1>10, <1>11 DEF SizeAssumption
<1>14. Typed' /\ Arrives' /\ HoldsWhatWasRead' /\ Position' /\ Entered'
  BY <1>2, <1>4, <1>6, <1>7, <1>11, <1>12, <1>13, EncoderKeeps
<1>15. Sent'
  <2>1. WithItem(All, x) = Then(All, v, k)
    BY <1>8 DEF WithItem
  <2>2. Written = All
    BY <1>2, NotPadded
  <2>3. Written' = All'
    BY <1>4, <1>6, <1>7, <1>11, <2>1, <2>2 DEF All
  <2> QED
    BY <2>3 DEF Sent
<1> QED
  BY <1>14, <1>15 DEF IndInv

LEMMA KeepsSendStored ==
  ASSUME SizeAssumption, ItemsAssumption, IndInv, SendStored PROVE IndInv'
<1>1. PICK type \in Values[TypeBits], raw \in Raw :
           /\ Becomes(_tr_stored_block(Now, type, raw))
           /\ sent' = sent \o <<[kind |-> "bits", n |-> TypeBits, v |-> type],
                                [kind |-> "stored", raw |-> raw]>>
  BY DEF SendStored
<1>2. Len(sent) + 1 < MaxItems /\ UNCHANGED decoder
  BY DEF SendStored
<1>3. TypeBits \in 1 .. Buf_size - 1 /\ type \in SUBSET (0 .. TypeBits - 1)
  BY DEF ItemsAssumption, SizeAssumption
<1>4. raw \in Seq(Byte) /\ Len(raw) <= Buf_size
  BY DEF ItemsAssumption, Byte
<1>5. Packing(Now) /\ Now.out = pending_buf /\ Stream(Now) = Written
  BY NowIs
<1>6. PICK r : r = _tr_stored_block(Now, type, raw)
  OBVIOUS
<1>7. PICK t : t = [kind |-> "bits", n |-> TypeBits, v |-> type]
  OBVIOUS
<1>8. PICK x : x = [kind |-> "stored", raw |-> raw]
  OBVIOUS
<1>9. /\ Packing(r) /\ Grows(Now.out, r.out)
      /\ Stream(r) = WithItem(WithItem(Stream(Now), t), x)
  BY <1>3, <1>4, <1>5, <1>6, <1>7, <1>8, StoresBlock
<1>10. /\ Written' = Stream(r) /\ pending_buf' = r.out /\ pending_buf' \in Seq(Byte)
       /\ bi_valid' \in 0 .. Buf_size /\ bi_buf' \in SUBSET (0 .. bi_valid' - 1)
  BY <1>1, <1>6, <1>9, BecomesIs
<1>11. t \in Item /\ x \in Item
  BY <1>3, <1>4, <1>7, <1>8, BitItemIs, StoredItemIs
<1>12. sent \in Seq(Item) /\ Len(sent) \in Nat
  BY Facts
<1>13. PICK w : w = Append(sent, t)
  OBVIOUS
<1>14. /\ w \in Seq(Item) /\ Len(w) = Len(sent) + 1
       /\ \A j \in 0 .. Len(sent) : Layout(w)[j] = Layout(sent)[j]
       /\ Layout(w)[Len(w)] = WithItem(Layout(sent)[Len(sent)], t)
  BY <1>11, <1>12, <1>13, LayoutAppend
<1>15. sent' = Append(w, x)
  <2>1. \A s \in Seq(Item), y \in Item, z \in Item : s \o <<y, z>> = Append(Append(s, y), z)
    OBVIOUS
  <2> QED
    BY <1>1, <1>7, <1>8, <1>11, <1>12, <1>13, <2>1
<1>16. /\ sent' \in Seq(Item) /\ Len(sent') = Len(w) + 1
       /\ \A j \in 0 .. Len(w) : Layout(sent')[j] = Layout(w)[j]
       /\ Layout(sent')[Len(sent')] = WithItem(Layout(w)[Len(w)], x)
  BY <1>11, <1>14, <1>15, LayoutAppend
<1>17. \A j \in 0 .. Len(sent) : Layout(sent')[j] = Layout(sent)[j]
  <2>1. \A j \in 0 .. Len(sent) : j \in 0 .. Len(w)
    BY <1>12, <1>14
  <2> QED
    BY <1>14, <1>16, <2>1
<1>18. \A i \in 1 .. Len(sent) : sent'[i] = sent[i]
  BY <1>12, <1>13, <1>14, <1>15
<1>19. Len(sent) <= Len(sent') /\ Len(sent') <= MaxItems
  BY <1>2, <1>12, <1>14, <1>16 DEF SizeAssumption
<1>20. Typed' /\ Arrives' /\ HoldsWhatWasRead' /\ Position' /\ Entered'
  BY <1>2, <1>5, <1>9, <1>10, <1>16, <1>17, <1>18, <1>19, EncoderKeeps
<1>21. Sent'
  <2>1. Len(sent) < MaxItems
    BY <1>2, <1>12 DEF SizeAssumption
  <2>2. Written = All
    BY <2>1, NotPadded
  <2>3. Written' = All'
    BY <1>5, <1>9, <1>10, <1>14, <1>16, <2>2 DEF All
  <2> QED
    BY <2>3 DEF Sent
<1> QED
  BY <1>20, <1>21 DEF IndInv

LEMMA KeepsFlush ==
  ASSUME SizeAssumption, IndInv, Flush PROVE IndInv'
<1>1. Becomes(bi_flush(Now)) /\ sent' = sent /\ UNCHANGED decoder
  BY DEF Flush
<1>2. Packing(Now) /\ Now.out = pending_buf /\ Stream(Now) = Written
  BY NowIs
<1>3. PICK r : r = bi_flush(Now)
  OBVIOUS
<1>4. Packing(r) /\ Stream(r) = Stream(Now) /\ Grows(Now.out, r.out)
  BY <1>2, <1>3, Flushes
<1>5. /\ Written' = Stream(r) /\ pending_buf' = r.out /\ pending_buf' \in Seq(Byte)
      /\ bi_valid' \in 0 .. Buf_size /\ bi_buf' \in SUBSET (0 .. bi_valid' - 1)
  BY <1>1, <1>3, <1>4, BecomesIs
<1>6. sent \in Seq(Item) /\ Len(sent) \in Nat /\ Len(sent) <= MaxItems
  BY Facts DEF IndInv, Typed, TypeOK
<1>7. Typed' /\ Arrives' /\ HoldsWhatWasRead' /\ Position' /\ Entered'
  <2>1. /\ sent' \in Seq(Item) /\ Len(sent) <= Len(sent') /\ Len(sent') <= MaxItems
        /\ \A i \in 1 .. Len(sent) : sent'[i] = sent[i]
        /\ \A k \in 0 .. Len(sent) : Layout(sent')[k] = Layout(sent)[k]
    BY <1>1, <1>6
  <2>2. Grows(pending_buf, pending_buf')
    BY <1>2, <1>4, <1>5
  <2> QED
    BY <1>1, <1>5, <2>1, <2>2, EncoderKeeps
<1>8. Sent'
  <2>1. Written' = Written /\ All' = All
    BY <1>1, <1>2, <1>4, <1>5 DEF All
  <2> QED
    BY <1>1, <2>1 DEF IndInv, Sent
<1> QED
  BY <1>7, <1>8 DEF IndInv

\* Padding twice is padding once.
LEMMA PaddedTwice ==
  ASSUME SizeAssumption, NEW s \in Run
  PROVE  Padded(Padded(s)) = Padded(s)
<1>1. BYTE \in Nat \ {0}
  BY BufferSize
<1>2. Padded(s) \in Run
  BY PaddedRun
<1>3. PICK k \in Nat : Padded(s).len = k * BYTE
  BY PaddedRun
<1>4. Padded(s).len <= k * BYTE /\ k * BYTE < Padded(s).len + BYTE
  BY <1>1, <1>2, <1>3, InRun
<1>5. Padded(Padded(s)) = [len |-> k * BYTE, ones |-> Padded(s).ones]
  BY <1>2, <1>4, PadsTo
<1> QED
  BY <1>2, <1>3, <1>5, InRun

LEMMA KeepsFinish ==
  ASSUME SizeAssumption, IndInv, Finish PROVE IndInv'
<1>1. Len(sent) = MaxItems /\ Becomes(bi_windup(Now)) /\ sent' = sent /\ UNCHANGED decoder
  BY DEF Finish
<1>2. Packing(Now) /\ Now.out = pending_buf /\ Stream(Now) = Written
  BY NowIs
<1>3. PICK r : r = bi_windup(Now)
  OBVIOUS
<1>4. Packing(r) /\ Stream(r) = Padded(Stream(Now)) /\ Grows(Now.out, r.out)
  BY <1>2, <1>3, Winds
<1>5. /\ Written' = Stream(r) /\ pending_buf' = r.out /\ pending_buf' \in Seq(Byte)
      /\ bi_valid' \in 0 .. Buf_size /\ bi_buf' \in SUBSET (0 .. bi_valid' - 1)
  BY <1>1, <1>3, <1>4, BecomesIs
<1>6. sent \in Seq(Item) /\ Len(sent) \in Nat /\ Len(sent) <= MaxItems /\ All \in Run
  BY Facts DEF IndInv, Typed, TypeOK
<1>7. Typed' /\ Arrives' /\ HoldsWhatWasRead' /\ Position' /\ Entered'
  <2>1. /\ sent' \in Seq(Item) /\ Len(sent) <= Len(sent') /\ Len(sent') <= MaxItems
        /\ \A i \in 1 .. Len(sent) : sent'[i] = sent[i]
        /\ \A k \in 0 .. Len(sent) : Layout(sent')[k] = Layout(sent)[k]
    BY <1>1, <1>6
  <2>2. Grows(pending_buf, pending_buf')
    BY <1>2, <1>4, <1>5
  <2> QED
    BY <1>1, <1>5, <2>1, <2>2, EncoderKeeps
<1>8. Sent'
  <2>1. Written' = Padded(Written) /\ All' = All
    BY <1>1, <1>2, <1>4, <1>5 DEF All
  <2>2. Padded(Padded(All)) = Padded(All)
    BY <1>6, PaddedTwice
  <2>3. Written = All \/ Written = Padded(All)
    BY DEF IndInv, Sent
  <2> QED
    BY <1>1, <2>1, <2>2, <2>3 DEF Sent
<1> QED
  BY <1>7, <1>8 DEF IndInv

----------------------------------------------------------------------------
(***************************************************************************)
(* The theorem.                                                            *)
(***************************************************************************)

LEMMA Starts ==
  ASSUME SizeAssumption, Init
  PROVE  IndInv
<1>1. /\ bi_buf = {} /\ bi_valid = 0 /\ pending_buf = <<>>
      /\ next = 0 /\ hold = {} /\ bits = 0 /\ fast = FALSE /\ length = 0
      /\ entry = [next |-> 0, taken |-> 0] /\ sent = <<>> /\ taken = <<>>
  BY DEF Init
<1>2. /\ BYTE \in Nat \ {0} /\ Buf_size \in Nat /\ HeaderBits = Buf_size + Buf_size
      /\ MaxItems \in Nat
  BY BufferSize DEF SizeAssumption
<1>3. <<>> \in Seq(Item) /\ <<>> \in Seq(Byte) /\ Len(<<>>) = 0
  OBVIOUS
<1>4. Typed
  <2>1. TypeOK
    <3>1. bi_valid \in 0 .. Buf_size /\ next \in 0 .. Len(pending_buf)
          /\ bits \in Nat /\ length \in Nat /\ fast \in BOOLEAN
      <4>1. 0 \in 0 .. Buf_size /\ 0 \in 0 .. 0
        BY <1>2
      <4>2. Len(pending_buf) = 0
        BY <1>1, <1>3
      <4> QED
        BY <1>1, <4>1, <4>2
    <3>2. bi_buf \subseteq 0 .. bi_valid - 1
      BY <1>1
    <3>3. DOMAIN pending_buf = {} /\ Len(sent) <= MaxItems
      <4>1. DOMAIN <<>> = {}
        OBVIOUS
      <4>2. DOMAIN pending_buf = {}
        BY <1>1, <4>1
      <4>3. Len(sent) = 0
        BY <1>1, <1>3
      <4> QED
        BY <1>2, <4>2, <4>3
    <3> QED
      BY <3>1, <3>2, <3>3 DEF TypeOK
  <2>2. bits <= HeaderBits /\ entry \in [next : Nat, taken : Nat]
    BY <1>1, <1>2
  <2> QED
    BY <1>1, <1>3, <2>1, <2>2 DEF Typed
<1>5. Layout(sent)[0] = Nothing /\ All = Nothing /\ Before = Nothing
  <2>1. Layout(sent)[0] = Nothing
    BY <1>1, <1>3, LayoutIs
  <2> QED
    BY <1>1, <1>3, <2>1 DEF All, Before
<1>6. 0 * BYTE = 0 /\ OfBytes(<<>>) = {} /\ Shl({}, 0) = {}
  <2>1. DOMAIN <<>> = {}
    OBVIOUS
  <2>2. OfBytes(<<>>) = {}
    <3>1. OfBytes(<<>>) \subseteq 0 .. Len(<<>>) * BYTE - 1
      BY <1>3, InBytes
    <3>2. 0 .. Len(<<>>) * BYTE - 1 = {}
      BY <1>2, <1>3
    <3> QED
      BY <3>1, <3>2
  <2> QED
    BY <1>2, <2>2 DEF Shl
<1>7. Sent
  <2>1. WholeOut = Nothing
    BY <1>1, <1>3, <1>6 DEF WholeOut, Nothing
  <2>2. Written = Nothing
    <3>1. Nothing \in Run
      BY DEF Nothing, Run
    <3>2. Then(Nothing, {}, 0) = Nothing
      BY <3>1, ThenNothing
    <3> QED
      BY <1>1, <2>1, <3>2 DEF Written
  <2> QED
    BY <1>5, <2>2 DEF Sent
<1>8. Arrives
  BY <1>1, <1>3 DEF Arrives
<1>9. HoldsWhatWasRead
  <2>1. Shr(Low({}, 0), 0) = {}
    BY DEF Shr, Low
  <2>2. next * BYTE = 0 /\ next * BYTE - bits = 0 /\ bits <= next * BYTE
    BY <1>1, <1>6
  <2>3. OfBytes(pending_buf) = {}
    BY <1>1, <1>6
  <2> QED
    BY <1>1, <2>1, <2>2, <2>3 DEF HoldsWhatWasRead
<1>10. Position
  BY <1>1, <1>2, <1>5 DEF Position, At, Nothing
<1>11. Entered
  BY <1>1 DEF Entered
<1> QED
  BY <1>4, <1>7, <1>8, <1>9, <1>10, <1>11 DEF IndInv

LEMMA Steps ==
  ASSUME SizeAssumption, ItemsAssumption, IndInv, [Next]_vars
  PROVE  IndInv'
<1>1. CASE Encoder
  BY <1>1, KeepsSend, KeepsSendStored, KeepsFlush, KeepsFinish DEF Encoder
<1>2. CASE Decoder
  BY <1>2, KeepsNEEDBITS, KeepsTake, KeepsAlignStored, KeepsNeedHeader, KeepsHeader, KeepsCOPY,
     KeepsFastEntry, KeepsFastPull, KeepsFastPullExtra, KeepsFastReturn DEF Decoder
<1>3. CASE UNCHANGED vars
  <2>1. /\ bi_buf' = bi_buf /\ bi_valid' = bi_valid /\ pending_buf' = pending_buf
        /\ next' = next /\ hold' = hold /\ bits' = bits /\ fast' = fast /\ length' = length
        /\ entry' = entry /\ sent' = sent /\ taken' = taken
    BY <1>3 DEF vars, encoder, decoder
  <2>2. Typed' /\ Sent' /\ Arrives' /\ HoldsWhatWasRead'
    BY <2>1 DEF IndInv, Typed, TypeOK, Sent, Written, WholeOut, All, Arrives, HoldsWhatWasRead,
               Buf_size, HeaderBits
  <2>3. At' = At /\ Before' = Before /\ Wanted' = Wanted /\ \A k : Wants(k)' <=> Wants(k)
    BY <2>1 DEF At, Before, Wanted, Wants
  <2>4. Position' /\ Entered'
    BY <2>1, <2>3 DEF IndInv, Position, Entered
  <2> QED
    BY <2>2, <2>4 DEF IndInv
<1> QED
  BY <1>1, <1>2, <1>3 DEF Next, Done

\* inflate_fast() gives back no byte from before its entry.
LEMMA GivesBackItsOwn ==
  ASSUME SizeAssumption, IndInv
  PROVE  NotTooFarBack
<1> SUFFICES ASSUME fast, HasRun PROVE next - Unused >= entry.next
  BY DEF NotTooFarBack
<1>1. /\ At \in Nat /\ bits \in Nat /\ next \in Nat /\ BYTE \in Nat \ {0}
      /\ At = next * BYTE - bits /\ bits <= next * BYTE /\ next * BYTE \in Nat
      /\ entry \in [next : Nat, taken : Nat]
  BY Facts
<1>2. PICK q \in Nat : /\ Unused = q /\ q * BYTE \in Nat /\ bits = q * BYTE + Padding
                       /\ Padding \in 0 .. BYTE - 1
  BY WholeBytes
<1>3. entry.next \in Nat /\ At > entry.next * BYTE - BYTE
  BY <1>1 DEF IndInv, Entered, HasRun
<1> SUFFICES ASSUME next < entry.next + q PROVE FALSE
  BY <1>1, <1>2, <1>3
<1>4. PICK e \in Nat : e = entry.next
  BY <1>3
<1>5. /\ next * BYTE + BYTE <= (e + q) * BYTE /\ (e + q) * BYTE = e * BYTE + q * BYTE
      /\ e * BYTE \in Nat
  <2>1. e + q \in Nat /\ next < e + q
    BY <1>4
  <2> QED
    BY <1>1, <1>2, <2>1, Multiples
<1>6. At > e * BYTE - BYTE
  BY <1>3, <1>4
<1> QED
  BY <1>1, <1>2, <1>5, <1>6

LEMMA Implied ==
  ASSUME SizeAssumption, IndInv
  PROVE  TypeOK /\ Packed /\ Arrives /\ HoldsWhatWasRead /\ NotTooFarBack /\ HeaderIsAll
<1>1. TypeOK /\ Arrives /\ HoldsWhatWasRead
  BY DEF IndInv, Typed
<1>2. Packed
  BY DEF IndInv, Sent, All, Packed
<1>3. HeaderIsAll
  BY DEF IndInv, Typed, HeaderIsAll, HeaderBits
<1>4. NotTooFarBack
  BY GivesBackItsOwn
<1> QED
  BY <1>1, <1>2, <1>3, <1>4

\* The decoder reads the values that were sent, holds exactly what it has read
\* and not used, and gives back no byte that was not its to give.
THEOREM WhatIsReadWasSent ==
  ASSUME SizeAssumption, ItemsAssumption
  PROVE  Spec => [](Packed /\ Arrives /\ HoldsWhatWasRead /\ NotTooFarBack /\ HeaderIsAll)
<1>1. Init => IndInv
  BY Starts
<1>2. IndInv /\ [Next]_vars => IndInv'
  BY Steps
<1>3. IndInv => Packed /\ Arrives /\ HoldsWhatWasRead /\ NotTooFarBack /\ HeaderIsAll
  BY Implied
<1> QED
  BY <1>1, <1>2, <1>3, PTL DEF Spec

============================================================================
