--------------------------- MODULE HashChainsProofs ---------------------------
(***************************************************************************)
(* Proofs about HashChains, for every window size, hash size, match table  *)
(* and input.  The lemmas on the hash key and on the dictionary are about  *)
(* given tables and bytes; IndInv, which puts them together with the text, *)
(* the control of deflate_slow() and the match under way, is inductive.    *)
(* That the symbols spell the text, a step of LZ77, needs all of it: a     *)
(* match is real because the chain is exact, and the third byte of a       *)
(* candidate is never compared.                                            *)
(***************************************************************************)
EXTENDS HashChains, SequenceTheorems, WellFoundedInduction, TLAPS

----------------------------------------------------------------------------
(***************************************************************************)
(* Arithmetic of the window, and of positions in prev[].                   *)
(***************************************************************************)

\* The sizes, once and for all.
LEMMA Sizes ==
  /\ W_SIZE \in Nat /\ MAX_MATCH \in Nat /\ MAX_DIST \in Nat
  /\ MAX_MATCH >= 3 /\ MAX_DIST >= 1
  /\ MIN_MATCH = 3 /\ MIN_LOOKAHEAD = MAX_MATCH + 4
  /\ MAX_DIST = W_SIZE - (MAX_MATCH + 4)
  /\ window_size = W_SIZE + W_SIZE
BY SizeAssumption DEF MIN_MATCH, MIN_LOOKAHEAD, MAX_DIST, window_size

\* A position and the entry of prev[] it uses.
LEMMA Wrap ==
  \A p \in 0 .. W_SIZE + W_SIZE - 1 :
    /\ p % W_SIZE = IF p < W_SIZE THEN p ELSE p - W_SIZE
    /\ p % W_SIZE \in 0 .. W_SIZE - 1
<1>1. \A a, b \in Nat : a < b => a % b = a /\ (a + b) % b = a
  OBVIOUS
<1>2. ASSUME NEW p \in 0 .. W_SIZE + W_SIZE - 1
      PROVE  p % W_SIZE = IF p < W_SIZE THEN p ELSE p - W_SIZE
  <2>1. CASE p < W_SIZE
    BY <1>1, <2>1, Sizes
  <2>2. CASE ~ (p < W_SIZE)
    <3>1. p - W_SIZE \in Nat /\ p - W_SIZE < W_SIZE /\ (p - W_SIZE) + W_SIZE = p
      BY <2>2, Sizes
    <3>2. ((p - W_SIZE) + W_SIZE) % W_SIZE = p - W_SIZE
      BY <1>1, <3>1, Sizes
    <3>3. QED
      BY <2>2, <3>1, <3>2
  <2>3. QED
    BY <2>1, <2>2
<1>3. ASSUME NEW p \in 0 .. W_SIZE + W_SIZE - 1
      PROVE  p % W_SIZE \in 0 .. W_SIZE - 1
  <2>1. (IF p < W_SIZE THEN p ELSE p - W_SIZE) \in 0 .. W_SIZE - 1
    BY Sizes
  <2>2. QED
    BY <2>1, <1>2
<1>4. QED
  BY <1>2, <1>3

\* A set of naturals that is not empty has a least member.
LEMMA LeastNatural ==
  ASSUME NEW S, S \subseteq Nat, S # {}
  PROVE  \E n \in S : \A m \in S : n <= m
<1>1. PICK n \in S : \A m \in S : ~ (<<m, n>> \in OpToRel(<, Nat))
  BY NatLessThanWellFounded, WFMin
<1>2. ASSUME NEW m \in S
      PROVE  ~ (m < n)
  <2>1. <<m, n>> \in Nat \X Nat
    OBVIOUS
  <2>2. m < n => <<m, n>> \in OpToRel(<, Nat)
    BY <2>1 DEF OpToRel
  <2>3. QED
    BY <2>2, <1>1
<1>3. QED
  BY <1>2

----------------------------------------------------------------------------
(***************************************************************************)
(* The hash key.                                                           *)
(***************************************************************************)

LEMMA HashSizes ==
  /\ HASH_BITS \in Nat /\ BYTE_BITS \in Nat /\ BYTE_BITS <= HASH_BITS
  /\ hash_shift \in Nat /\ hash_shift + hash_shift + hash_shift >= HASH_BITS
BY HashAssumption DEF hash_shift, MIN_MATCH

LEMMA KeysAreKeys ==
  /\ \A h, c : UPDATE_HASH(h, c) \in HashKey
  /\ \A w, p : Key(w, p) \in HashKey
BY DEF UPDATE_HASH, HashKey, Key

\* Three bytes push out what the key held before: the key of a string does not
\* depend on where the running hash started.
LEMMA KeyForgets ==
  ASSUME NEW h \in HashKey, NEW x, NEW y, NEW z
  PROVE  UPDATE_HASH(UPDATE_HASH(UPDATE_HASH(h, x), y), z)
           = UPDATE_HASH(UPDATE_HASH(UPDATE_HASH({}, x), y), z)
<1> DEFINE one(g) == UPDATE_HASH(g, x)
           two(g) == UPDATE_HASH(one(g), y)
<1>1. \A i \in Int : i < HASH_BITS - hash_shift - hash_shift =>
        (i \in one(h) <=> i \in one({}))
  BY HashSizes DEF UPDATE_HASH, HashKey
<1>2. \A i \in Int : i < HASH_BITS - hash_shift =>
        (i \in two(h) <=> i \in two({}))
  <2> HIDE DEF one
  <2>1. TAKE i \in Int
  <2>2. HAVE i < HASH_BITS - hash_shift
  <2>3. i - hash_shift \in one(h) <=> i - hash_shift \in one({})
    BY <1>1, <2>2, HashSizes
  <2>4. QED
    BY <2>3 DEF UPDATE_HASH
<1>3. \A i \in 0 .. HASH_BITS - 1 :
        i - hash_shift \in two(h) <=> i - hash_shift \in two({})
  <2> HIDE DEF two
  <2>1. QED
    BY <1>2, HashSizes
<1>4. UPDATE_HASH(two(h), z) = UPDATE_HASH(two({}), z)
  <2> HIDE DEF two
  <2>1. QED
    BY <1>3 DEF UPDATE_HASH
<1>5. QED
  BY <1>4

\* The two bytes fill_window() starts the running key with.
LEMMA KeyStarts ==
  ASSUME NEW x \in Byte, NEW y, NEW z
  PROVE  UPDATE_HASH(UPDATE_HASH(x, y), z)
           = UPDATE_HASH(UPDATE_HASH(UPDATE_HASH({}, x), y), z)
<1>1. UPDATE_HASH({}, x) = x
  <2>1. UPDATE_HASH({}, x) \subseteq x
    BY DEF UPDATE_HASH
  <2>2. x \subseteq UPDATE_HASH({}, x)
    BY HashSizes DEF UPDATE_HASH, Byte
  <2>3. QED
    BY <2>1, <2>2
<1>2. QED
  BY <1>1

\* With the same key and the same first two bytes the third is the same.
LEMMA ThirdByte ==
  ASSUME NEW g, NEW x \in Byte, NEW y \in Byte,
         UPDATE_HASH(g, x) = UPDATE_HASH(g, y)
  PROVE  x = y
<1>1. ASSUME NEW i \in 0 .. BYTE_BITS - 1
      PROVE  i \in x <=> i \in y
  <2>1. i \in 0 .. HASH_BITS - 1
    BY HashSizes
  <2>2. i \in UPDATE_HASH(g, x) <=> i \in UPDATE_HASH(g, y)
    OBVIOUS
  <2>3. QED
    BY <2>1, <2>2 DEF UPDATE_HASH
<1>2. QED
  BY <1>1 DEF Byte

----------------------------------------------------------------------------
(***************************************************************************)
(* The chains, as tables of given contents: hd and pv are head[] and       *)
(* prev[], w the window, n the string to be inserted next, s the current   *)
(* position and e the end of the data.                                     *)
(***************************************************************************)

\* The strings inserted so far that a search from s may still reach.
Reach(n, s, e) == {p \in 1 .. n - 1 : s - p <= MAX_DIST /\ p + MIN_MATCH <= e}

\* The head of a chain is its latest string.
Heads(hd, w, n, s, e) ==
  \A h \in HashKey :
    /\ hd[h] = 0 \/ (hd[h] < n /\ hd[h] + MIN_MATCH <= e)
    /\ hd[h] \in Reach(n, s, e) => Key(w, hd[h]) = h
    /\ \A p \in Reach(n, s, e) : Key(w, p) = h => p <= hd[h]

\* The entry of a string in prev[] is the latest one before it with its key.
Links(pv, w, n, s, e) ==
  \A p \in Reach(n, s, e) :
    /\ pv[p % W_SIZE] < p
    /\ pv[p % W_SIZE] \in Reach(n, s, e) => Key(w, pv[p % W_SIZE]) = Key(w, p)
    /\ \A q \in Reach(n, s, e) :
         q < p /\ Key(w, q) = Key(w, p) => q <= pv[p % W_SIZE]

Dictionary(hd, pv, w, n, s, e) == Heads(hd, w, n, s, e) /\ Links(pv, w, n, s, e)

\* Strings that fall out of reach, that do not join for want of a third byte,
\* and data behind the end, leave the dictionary exact.
LEMMA DictionaryNarrows ==
  ASSUME NEW hd \in [HashKey -> Pos], NEW pv, NEW w,
         NEW n \in Nat, NEW s \in Nat, NEW e \in Nat,
         NEW n2 \in Nat, NEW s2 \in Nat, NEW e2 \in Nat,
         n <= n2, e <= e2,
         Dictionary(hd, pv, w, n, s, e),
         Reach(n2, s2, e2) \subseteq Reach(n, s, e)
  PROVE  Dictionary(hd, pv, w, n2, s2, e2)
<1>1. Heads(hd, w, n2, s2, e2)
  <2>1. SUFFICES ASSUME NEW h \in HashKey
                 PROVE  /\ hd[h] = 0 \/ (hd[h] < n2 /\ hd[h] + MIN_MATCH <= e2)
                        /\ hd[h] \in Reach(n2, s2, e2) => Key(w, hd[h]) = h
                        /\ \A p \in Reach(n2, s2, e2) : Key(w, p) = h => p <= hd[h]
    BY DEF Heads
  <2>2. /\ hd[h] = 0 \/ (hd[h] < n /\ hd[h] + MIN_MATCH <= e)
        /\ hd[h] \in Reach(n, s, e) => Key(w, hd[h]) = h
        /\ \A p \in Reach(n, s, e) : Key(w, p) = h => p <= hd[h]
    BY DEF Dictionary, Heads
  <2>3. hd[h] = 0 \/ (hd[h] < n2 /\ hd[h] + MIN_MATCH <= e2)
    <3>1. hd[h] \in Nat
      BY Sizes DEF Pos
    <3>2. QED
      BY <2>2, <3>1, Sizes
  <2>4. QED
    BY <2>2, <2>3
<1>2. Links(pv, w, n2, s2, e2)
  BY DEF Dictionary, Links
<1>3. QED
  BY <1>1, <1>2 DEF Dictionary

\* Inserting a string.
LEMMA DictionaryGrows ==
  ASSUME NEW hd \in [HashKey -> Pos], NEW pv \in [0 .. W_SIZE - 1 -> Pos], NEW w,
         NEW n \in Pos, NEW s \in Nat, NEW e \in Nat,
         Dictionary(hd, pv, w, n, s, e),
         n <= s + 1, n + MIN_MATCH <= e, e <= window_size
  PROVE  Dictionary([hd EXCEPT ![Key(w, n)] = n],
                    [pv EXCEPT ![n % W_SIZE] = hd[Key(w, n)]], w, n + 1, s, e)
<1> DEFINE h == Key(w, n)
           hd2 == [hd EXCEPT ![h] = n]
           pv2 == [pv EXCEPT ![n % W_SIZE] = hd[h]]
           old == Reach(n, s, e)
           new == Reach(n + 1, s, e)
<1>1. h \in HashKey
  BY KeysAreKeys
<1>2. n \in Nat /\ \A p \in new : p \in old \/ p = n
  BY Sizes DEF Reach, Pos
<1>3. \A p \in old : p \in new /\ p < n /\ p \in Nat /\ s - p <= MAX_DIST
  BY <1>2 DEF Reach
<1>4. /\ hd2[h] = n
      /\ \A k \in HashKey : k # h => hd2[k] = hd[k]
  BY <1>1
<1>5. \A p \in old : p % W_SIZE # n % W_SIZE /\ p % W_SIZE \in 0 .. W_SIZE - 1
  <2>1. TAKE p \in old
  <2>2. p \in 0 .. W_SIZE + W_SIZE - 1 /\ n \in 0 .. W_SIZE + W_SIZE - 1
    BY <1>2, <1>3, Sizes DEF Pos
  <2>3. p < n /\ n - p < W_SIZE
    BY <1>2, <1>3, Sizes
  <2>4. /\ p % W_SIZE = IF p < W_SIZE THEN p ELSE p - W_SIZE
        /\ n % W_SIZE = IF n < W_SIZE THEN n ELSE n - W_SIZE
    BY <2>2, Wrap
  <2>5. p % W_SIZE # n % W_SIZE
    BY <2>2, <2>3, <2>4, Sizes
  <2>6. QED
    BY <2>2, <2>5, Wrap
<1>6. n % W_SIZE \in 0 .. W_SIZE - 1
  BY Wrap, Sizes DEF Pos
<1>7. /\ pv2[n % W_SIZE] = hd[h]
      /\ \A p \in old : pv2[p % W_SIZE] = pv[p % W_SIZE]
  BY <1>5, <1>6
<1>8. \A k \in HashKey : hd[k] \in Nat /\ (hd[k] = 0 \/ hd[k] < n)
  BY Sizes DEF Dictionary, Heads, Pos
<1>9. Heads(hd2, w, n + 1, s, e)
  <2>1. SUFFICES ASSUME NEW k \in HashKey
                 PROVE  /\ hd2[k] = 0 \/ (hd2[k] < n + 1 /\ hd2[k] + MIN_MATCH <= e)
                        /\ hd2[k] \in new => Key(w, hd2[k]) = k
                        /\ \A p \in new : Key(w, p) = k => p <= hd2[k]
    BY DEF Heads
  <2>2. CASE k = h
    <3>1. hd2[k] = n
      BY <2>2, <1>4
    <3>2. \A p \in new : p <= n
      BY <1>2, <1>3
    <3>3. QED
      BY <2>2, <3>1, <3>2, <1>2
  <2>3. CASE k # h
    <3>1. hd2[k] = hd[k]
      BY <2>3, <1>4
    <3>2. /\ hd[k] = 0 \/ (hd[k] < n /\ hd[k] + MIN_MATCH <= e)
          /\ hd[k] \in old => Key(w, hd[k]) = k
          /\ \A p \in old : Key(w, p) = k => p <= hd[k]
      BY DEF Dictionary, Heads
    <3>3. hd[k] \in new => hd[k] \in old
      <4>1. hd[k] # n \/ hd[k] \notin new
        BY <1>2, <1>8, <2>1 DEF Reach
      <4>2. QED
        BY <4>1, <1>2
    <3>4. \A p \in new : Key(w, p) = k => p \in old
      BY <1>2, <2>3
    <3>5. hd[k] = 0 \/ (hd[k] < n + 1 /\ hd[k] + MIN_MATCH <= e)
      BY <3>2, <1>2, <1>8
    <3>6. QED
      BY <3>1, <3>2, <3>3, <3>4, <3>5
  <2>4. QED
    BY <2>2, <2>3
<1>10. Links(pv2, w, n + 1, s, e)
  <2>1. SUFFICES ASSUME NEW p \in new
                 PROVE  /\ pv2[p % W_SIZE] < p
                        /\ pv2[p % W_SIZE] \in new => Key(w, pv2[p % W_SIZE]) = Key(w, p)
                        /\ \A q \in new : q < p /\ Key(w, q) = Key(w, p)
                                                 => q <= pv2[p % W_SIZE]
    BY DEF Links
  <2>2. CASE p = n
    <3>1. pv2[p % W_SIZE] = hd[h]
      BY <2>2, <1>7
    <3>2. /\ hd[h] = 0 \/ hd[h] < n
          /\ hd[h] \in old => Key(w, hd[h]) = h
          /\ \A q \in old : Key(w, q) = h => q <= hd[h]
      BY <1>1, <1>8 DEF Dictionary, Heads
    <3>3. hd[h] < n
      BY <2>2, <3>2, <1>1, <1>8, <1>2 DEF Reach
    <3>4. hd[h] \in new => hd[h] \in old
      BY <3>3, <1>2, <1>1, <1>8
    <3>5. \A q \in new : q < n => q \in old
      BY <1>2
    <3>6. QED
      BY <2>2, <3>1, <3>2, <3>3, <3>4, <3>5
  <2>3. CASE p # n
    <3>1. p \in old
      BY <2>3, <1>2
    <3>2. pv2[p % W_SIZE] = pv[p % W_SIZE]
      BY <3>1, <1>7
    <3>3. /\ pv[p % W_SIZE] < p
          /\ pv[p % W_SIZE] \in old => Key(w, pv[p % W_SIZE]) = Key(w, p)
          /\ \A q \in old : q < p /\ Key(w, q) = Key(w, p) => q <= pv[p % W_SIZE]
      BY <3>1 DEF Dictionary, Links
    <3>4. \A q \in new : q < p => q \in old
      BY <3>1, <1>2, <1>3
    <3>5. pv[p % W_SIZE] \in Nat
      BY <3>1, <1>5, Sizes DEF Pos
    <3>6. pv[p % W_SIZE] \in new => pv[p % W_SIZE] \in old
      BY <3>3, <3>4, <3>5
    <3>7. QED
      BY <3>2, <3>3, <3>4, <3>6
  <2>4. QED
    BY <2>2, <2>3
<1>11. QED
  BY <1>9, <1>10 DEF Dictionary

\* Sliding the window: what has slid out ends its chain.
LEMMA DictionarySlides ==
  ASSUME NEW hd \in [HashKey -> Pos], NEW pv \in [0 .. W_SIZE - 1 -> Pos],
         NEW w, NEW w2, NEW s \in Nat, NEW e \in Nat,
         Dictionary(hd, pv, w, s, s, e),
         s >= W_SIZE, e >= s, e <= window_size,
         \A i \in 0 .. e - W_SIZE - 1 : w2[i] = w[i + W_SIZE]
  PROVE  Dictionary([h \in HashKey |-> Slide(hd[h])],
                    [p \in 0 .. W_SIZE - 1 |-> Slide(pv[p])],
                    w2, s - W_SIZE, s - W_SIZE, e - W_SIZE)
<1> DEFINE hd2 == [h \in HashKey |-> Slide(hd[h])]
           pv2 == [p \in 0 .. W_SIZE - 1 |-> Slide(pv[p])]
           old == Reach(s, s, e)
           new == Reach(s - W_SIZE, s - W_SIZE, e - W_SIZE)
<1>1. \A p \in new : /\ p \in Nat /\ p >= 1 /\ p + W_SIZE \in old
                     /\ p < W_SIZE /\ p + 2 < e - W_SIZE
  BY Sizes DEF Reach
<1>2. \A p \in new : Key(w2, p) = Key(w, p + W_SIZE)
  <2>1. TAKE p \in new
  <2>2. /\ p \in 0 .. e - W_SIZE - 1 /\ p + 1 \in 0 .. e - W_SIZE - 1
        /\ p + 2 \in 0 .. e - W_SIZE - 1
    BY <1>1, Sizes
  <2>3. /\ w2[p] = w[p + W_SIZE] /\ w2[p + 1] = w[p + W_SIZE + 1]
        /\ w2[p + 2] = w[p + W_SIZE + 2]
    <3>1. /\ (p + 1) + W_SIZE = p + W_SIZE + 1
          /\ (p + 2) + W_SIZE = p + W_SIZE + 2
      <4>1. p \in Nat
        BY <1>1
      <4>2. QED
        BY <4>1, Sizes
    <3>2. QED
      BY <2>2, <3>1
  <2>4. QED
    BY <2>3 DEF Key
<1>3. \A p \in new : (p + W_SIZE) % W_SIZE = p /\ p % W_SIZE = p
  <2>1. TAKE p \in new
  <2>2. p \in 0 .. W_SIZE + W_SIZE - 1 /\ p + W_SIZE \in 0 .. W_SIZE + W_SIZE - 1
    BY <1>1, Sizes
  <2>3. QED
    BY <2>2, <1>1, Wrap, Sizes
<1>4. \A m \in Pos : /\ Slide(m) \in Nat
                     /\ Slide(m) \in new => m = Slide(m) + W_SIZE
                     /\ m > W_SIZE => m = Slide(m) + W_SIZE
  BY <1>1, Sizes DEF Slide, Pos
<1>5. Heads(hd2, w2, s - W_SIZE, s - W_SIZE, e - W_SIZE)
  <2>1. SUFFICES ASSUME NEW h \in HashKey
                 PROVE  /\ \/ hd2[h] = 0
                           \/ (hd2[h] < s - W_SIZE /\ hd2[h] + MIN_MATCH <= e - W_SIZE)
                        /\ hd2[h] \in new => Key(w2, hd2[h]) = h
                        /\ \A p \in new : Key(w2, p) = h => p <= hd2[h]
    BY DEF Heads
  <2>2. hd2[h] = Slide(hd[h]) /\ hd[h] \in Pos
    OBVIOUS
  <2>3. /\ hd[h] = 0 \/ (hd[h] < s /\ hd[h] + MIN_MATCH <= e)
        /\ hd[h] \in old => Key(w, hd[h]) = h
        /\ \A p \in old : Key(w, p) = h => p <= hd[h]
    BY DEF Dictionary, Heads
  <2>4. \/ hd2[h] = 0
        \/ (hd2[h] < s - W_SIZE /\ hd2[h] + MIN_MATCH <= e - W_SIZE)
    BY <2>2, <2>3, Sizes DEF Slide, Pos
  <2>5. ASSUME hd2[h] \in new
        PROVE  Key(w2, hd2[h]) = h
    <3>1. hd[h] = hd2[h] + W_SIZE
      BY <2>2, <2>5, <1>4
    <3>2. QED
      BY <3>1, <2>3, <2>5, <1>1, <1>2
  <2>6. ASSUME NEW p \in new, Key(w2, p) = h
        PROVE  p <= hd2[h]
    <3>1. p + W_SIZE <= hd[h]
      BY <2>6, <2>3, <1>1, <1>2
    <3>2. hd[h] > W_SIZE
      BY <3>1, <2>2, <1>1, Sizes DEF Pos
    <3>3. hd[h] = hd2[h] + W_SIZE /\ hd2[h] \in Nat
      BY <3>2, <2>2, <1>4
    <3>4. QED
      BY <3>1, <3>3, <1>1, Sizes
  <2>7. QED
    BY <2>4, <2>5, <2>6
<1>6. Links(pv2, w2, s - W_SIZE, s - W_SIZE, e - W_SIZE)
  <2>1. SUFFICES ASSUME NEW p \in new
                 PROVE  /\ pv2[p % W_SIZE] < p
                        /\ pv2[p % W_SIZE] \in new
                             => Key(w2, pv2[p % W_SIZE]) = Key(w2, p)
                        /\ \A q \in new : q < p /\ Key(w2, q) = Key(w2, p)
                                                 => q <= pv2[p % W_SIZE]
    BY DEF Links
  <2>2. p \in 0 .. W_SIZE - 1
    BY <1>1, Sizes
  <2>3. PICK m \in Pos : m = pv[p]
    BY <2>2
  <2>4. pv2[p % W_SIZE] = Slide(m)
    BY <2>2, <2>3, <1>3
  <2>5. /\ m < p + W_SIZE
        /\ m \in old => Key(w, m) = Key(w, p + W_SIZE)
        /\ \A q \in old : q < p + W_SIZE /\ Key(w, q) = Key(w, p + W_SIZE) => q <= m
    <3>1. p + W_SIZE \in old /\ pv[(p + W_SIZE) % W_SIZE] = m
      BY <2>3, <1>1, <1>3
    <3>2. QED
      BY <3>1 DEF Dictionary, Links
  <2>6. Slide(m) < p
    BY <2>5, <1>1, Sizes DEF Slide, Pos
  <2>7. ASSUME Slide(m) \in new
        PROVE  Key(w2, Slide(m)) = Key(w2, p)
    <3>1. m = Slide(m) + W_SIZE
      BY <2>7, <1>4
    <3>2. QED
      BY <3>1, <2>5, <2>7, <1>1, <1>2
  <2>8. ASSUME NEW q \in new, q < p, Key(w2, q) = Key(w2, p)
        PROVE  q <= Slide(m)
    <3>1. q + W_SIZE < p + W_SIZE
      BY <2>8, <1>1, Sizes
    <3>2. q + W_SIZE <= m
      BY <3>1, <2>8, <2>5, <1>1, <1>2
    <3>3. m > W_SIZE
      BY <3>2, <1>1, Sizes DEF Pos
    <3>4. m = Slide(m) + W_SIZE /\ Slide(m) \in Nat
      BY <3>3, <1>4
    <3>5. QED
      BY <3>2, <3>4, <1>1, Sizes
  <2>9. QED
    BY <2>4, <2>6, <2>7, <2>8
<1>7. QED
  BY <1>5, <1>6 DEF Dictionary

\* The dictionary only depends on the data.
LEMMA DictionaryReads ==
  ASSUME NEW hd \in [HashKey -> Pos], NEW pv \in [0 .. W_SIZE - 1 -> Pos],
         NEW w, NEW w2, NEW n \in Nat, NEW s \in Nat, NEW e \in Nat,
         Dictionary(hd, pv, w, n, s, e),
         \A i \in 0 .. e - 1 : w2[i] = w[i]
  PROVE  Dictionary(hd, pv, w2, n, s, e)
<1>1. ASSUME NEW p \in Reach(n, s, e)
      PROVE  Key(w2, p) = Key(w, p)
  <2>1. p \in 0 .. e - 1 /\ p + 1 \in 0 .. e - 1 /\ p + 2 \in 0 .. e - 1
    BY Sizes DEF Reach
  <2>2. QED
    BY <2>1 DEF Key
<1>2. Heads(hd, w2, n, s, e)
  BY <1>1 DEF Dictionary, Heads
<1>3. Links(pv, w2, n, s, e)
  BY <1>1 DEF Dictionary, Links
<1>4. QED
  BY <1>2, <1>3 DEF Dictionary

----------------------------------------------------------------------------
(***************************************************************************)
(* The inductive invariant.                                                *)
(***************************************************************************)

HistoryTyped ==
  /\ text \in Seq(Byte) /\ next_in \in Seq(Byte)
  /\ match_start \in Int /\ prev_match \in Int /\ max_insert \in Int
  /\ flush \in BOOLEAN /\ written \in Nat

\* Where a call stands.  A call without flush never leaves the strings at the
\* end of its data uninserted: it stops with lookahead to spare.
Control ==
  /\ flush => next_in = <<>>
  /\ pc = "idle" => ~ flush /\ next_in = <<>>
  /\ pc = "done" => flush /\ lookahead = 0 /\ match_available = 0
  /\ pc = "filled" =>
       /\ strstart + MIN_LOOKAHEAD <= window_size
       /\ lookahead < MIN_LOOKAHEAD => next_in = <<>>
  /\ pc \in {"search", "decide"} =>
       /\ strstart + MIN_LOOKAHEAD <= window_size
       /\ lookahead >= 1 /\ (~ flush => lookahead >= MIN_LOOKAHEAD)
  /\ ~ flush => lookahead >= MIN_MATCH \/ strstart = 0
  /\ pc = "skip" => /\ strstart >= 1 /\ prev_length >= 1
                  /\ max_insert = End - MIN_MATCH
  /\ match_available = 1 => strstart >= 1

\* The window is the end of the text, and the bytes behind it are set as far as
\* a comparison may read.
Data ==
  /\ End <= window_size /\ End <= Len(text)
  /\ \A i \in 0 .. End - 1 : window[i] = text[i + (Len(text) - End) + 1]
  /\ End > 0 => high_water >= window_size \/ high_water >= End + MAX_MATCH
  /\ written >= high_water

\* The string inserted next.
NextString == IF pc \in {"search", "decide", "skip"} THEN strstart + 1 ELSE strstart

Chains ==
  /\ Dictionary(head, prev, window, NextString, strstart, End)
  /\ NextString + MIN_MATCH <= End =>
       NextKey(NextString) = Key(window, NextString)

\* A match of length len found at the byte before strstart repeats the text.
Lazy(start, len) ==
  len >= MIN_MATCH =>
    /\ match_available = 1
    /\ strstart - 1 - start \in 1 .. MAX_DIST
    /\ L!Repeats(text, Len(text) - lookahead - 1, strstart - 1 - start, len)

\* A match of length len for the string at strstart.
Same(start, len) ==
  /\ start \in 1 .. strstart - 1 /\ strstart - start <= MAX_DIST
  /\ \A i \in 0 .. len - 1 : window[start + i] = window[strstart + i]

Matches ==
  /\ BetweenRounds => match_length >= MIN_MATCH - 1 /\ Lazy(match_start, match_length)
  /\ pc \in {"search", "decide"} =>
       /\ match_length >= MIN_MATCH - 1
       /\ prev_length >= MIN_MATCH - 1 /\ Lazy(prev_match, prev_length)
  /\ pc = "search" =>
       /\ lookahead >= MIN_MATCH /\ chain_length >= 1
       /\ match_length = MIN_MATCH - 1
       /\ cur_match \in Reach(strstart, strstart, End)
       /\ Key(window, cur_match) = Key(window, strstart)
       /\ best_len >= prev_length
       /\ best_len > prev_length => Same(match_start, best_len)
  /\ pc = "decide" /\ match_length >= MIN_MATCH /\ match_length > prev_length =>
       Same(match_start, match_length) /\ match_length <= lookahead

IndInv == TypeOK /\ HistoryTyped /\ Control /\ Data /\ Chains /\ Matches

----------------------------------------------------------------------------
(***************************************************************************)
(* Every action keeps the invariant.                                       *)
(***************************************************************************)

LEMMA InitInv == Init => IndInv
<1> SUFFICES ASSUME Init
             PROVE  IndInv
  OBVIOUS
<1> USE Sizes
<1>1. TypeOK
  BY HashSizes, TableAssumption DEF Init, TypeOK, Pos, Byte, HashKey
<1>2. HistoryTyped
  BY DEF Init, HistoryTyped
<1>3. End = 0 /\ Len(text) = 0
  BY DEF Init, End
<1>4. Control
  BY <1>3 DEF Init, Control
<1>5. Data
  BY <1>3 DEF Init, Data
<1>6. Chains
  <2>1. NextString = 0
    BY DEF Init, NextString
  <2>2. Reach(0, 0, 0) = {}
    BY DEF Reach
  <2>3. head \in [HashKey -> Pos] /\ \A h \in HashKey : head[h] = 0
    BY DEF Init, Pos
  <2>4. Dictionary(head, prev, window, 0, 0, 0)
    BY <2>2, <2>3 DEF Dictionary, Heads, Links
  <2>5. strstart = 0
    BY DEF Init
  <2>6. QED
    BY <2>1, <2>4, <2>5, <1>3 DEF Chains
<1>7. Matches
  BY DEF Init, Matches, Lazy, BetweenRounds
<1>8. QED
  BY <1>1, <1>2, <1>4, <1>5, <1>6, <1>7 DEF IndInv

LEMMA CompressInv == \A word \in Words : IndInv /\ Compress(word) => IndInv'
<1> SUFFICES ASSUME NEW word \in Words, IndInv, Compress(word)
             PROVE  IndInv'
  OBVIOUS
<1>1. word \in Seq(Byte)
  BY WordsAssumption
<1>2. TypeOK'
  BY DEF IndInv, TypeOK, Compress, hash, previous, search
<1>3. HistoryTyped'
  BY <1>1 DEF IndInv, HistoryTyped, Compress, previous
<1>4. End' = End /\ NextString' = NextString /\ BetweenRounds /\ BetweenRounds'
  BY DEF Compress, End, NextString, BetweenRounds
<1>5. Control'
  BY <1>4 DEF IndInv, Control, Compress, previous
<1>6. Data'
  BY <1>4 DEF IndInv, Data, Compress
<1>7. Chains'
  BY <1>4 DEF IndInv, Chains, Compress, hash, NextKey
<1>8. Matches'
  BY <1>4 DEF IndInv, Matches, Lazy, Compress, previous, search
<1>9. QED
  BY <1>2, <1>3, <1>5, <1>6, <1>7, <1>8 DEF IndInv

LEMMA FinishInv == IndInv /\ Finish => IndInv'
<1> SUFFICES ASSUME IndInv, Finish
             PROVE  IndInv'
  OBVIOUS
<1>1. TypeOK' /\ HistoryTyped'
  BY DEF IndInv, TypeOK, HistoryTyped, Finish, hash, previous, search
<1>2. End' = End /\ NextString' = NextString /\ BetweenRounds /\ BetweenRounds'
  BY DEF Finish, End, NextString, BetweenRounds
<1>3. Control'
  BY <1>2 DEF IndInv, Control, Finish, previous
<1>4. Data'
  BY <1>2 DEF IndInv, Data, Finish
<1>5. Chains'
  BY <1>2 DEF IndInv, Chains, Finish, hash, NextKey
<1>6. Matches'
  BY <1>2 DEF IndInv, Matches, Lazy, Finish, previous, search
<1>7. QED
  BY <1>1, <1>3, <1>4, <1>5, <1>6 DEF IndInv

LEMMA StarvedInv == IndInv /\ Starved => IndInv'
<1> SUFFICES ASSUME IndInv, Starved
             PROVE  IndInv'
  OBVIOUS
<1>1. TypeOK' /\ HistoryTyped'
  BY DEF IndInv, TypeOK, HistoryTyped, Starved, hash, previous, search
<1>2. End' = End /\ NextString' = NextString /\ BetweenRounds /\ BetweenRounds'
  BY DEF Starved, End, NextString, BetweenRounds
<1>3. Control'
  BY <1>2 DEF IndInv, Control, Starved, previous
<1>4. Data'
  BY <1>2 DEF IndInv, Data, Starved
<1>5. Chains'
  BY <1>2 DEF IndInv, Chains, Starved, hash, NextKey
<1>6. Matches'
  BY <1>2 DEF IndInv, Matches, Lazy, Starved, previous, search
<1>7. QED
  BY <1>1, <1>3, <1>4, <1>5, <1>6 DEF IndInv

\* A step that changes nothing the invariant speaks of.
LEMMA StutterInv == IndInv /\ UNCHANGED vars => IndInv'
<1> SUFFICES ASSUME IndInv, UNCHANGED vars
             PROVE  IndInv'
  OBVIOUS
<1>1. TypeOK' /\ HistoryTyped'
  BY DEF IndInv, TypeOK, HistoryTyped, vars, hash, previous, search
<1>2. End' = End /\ NextString' = NextString /\ (BetweenRounds' <=> BetweenRounds)
  BY DEF vars, End, NextString, BetweenRounds, previous
<1>3. Control' /\ Data'
  BY <1>2 DEF IndInv, Control, Data, vars, previous
<1>4. Chains'
  BY <1>2 DEF IndInv, Chains, vars, hash, NextKey
<1>5. Matches'
  BY <1>2 DEF IndInv, Matches, Lazy, Same, vars, previous, search
<1>6. QED
  BY <1>1, <1>3, <1>4, <1>5 DEF IndInv

LEMMA FinishBlockInv == IndInv /\ FinishBlock => IndInv'
<1> SUFFICES ASSUME IndInv, FinishBlock
             PROVE  IndInv'
  OBVIOUS
<1>1. TypeOK' /\ HistoryTyped'
  BY DEF IndInv, TypeOK, HistoryTyped, FinishBlock, hash, previous, search
<1>2. End' = End /\ NextString' = NextString /\ ~ BetweenRounds'
  BY DEF FinishBlock, End, NextString, BetweenRounds
<1>3. Control'
  BY <1>2 DEF IndInv, Control, FinishBlock, AllBehind, previous
<1>4. Data'
  BY <1>2 DEF IndInv, Data, FinishBlock
<1>5. Chains'
  BY <1>2 DEF IndInv, Chains, FinishBlock, hash, NextKey
<1>6. Matches'
  BY <1>2 DEF IndInv, Matches, FinishBlock
<1>7. QED
  BY <1>1, <1>3, <1>4, <1>5, <1>6 DEF IndInv

\* A match in the window is a match in the text.
LEMMA SameRepeats ==
  ASSUME IndInv, pc # "skip", NEW start \in Int, NEW len \in Nat,
         Same(start, len), len <= lookahead, len >= 1
  PROVE  L!Repeats(text, Len(text) - lookahead, strstart - start, len)
<1> DEFINE dist == strstart - start
           done == Len(text) - lookahead
<1>1. /\ strstart \in Nat /\ lookahead \in Nat /\ Len(text) \in Nat
      /\ End = strstart + lookahead
  BY Sizes DEF IndInv, TypeOK, HistoryTyped, End
<1>2. /\ End <= Len(text)
      /\ \A i \in 0 .. End - 1 : window[i] = text[i + (Len(text) - End) + 1]
  BY DEF IndInv, Data
<1>3. /\ start \in 1 .. strstart - 1
      /\ \A i \in 0 .. len - 1 : window[start + i] = window[strstart + i]
  BY DEF Same
<1>4. dist \in 1 .. done /\ done + len <= Len(text)
  BY <1>1, <1>2, <1>3
<1>5. ASSUME NEW j \in done + 1 .. done + len
      PROVE  text[j] = text[j - dist]
  <2>1. PICK i \in 0 .. len - 1 : j = done + 1 + i
    <3>1. j - done - 1 \in 0 .. len - 1 /\ j = done + 1 + (j - done - 1)
      BY <1>1
    <3>2. QED
      BY <3>1
  <2>2. window[start + i] = window[strstart + i]
    BY <1>3
  <2>3. /\ start + i \in 0 .. End - 1 /\ strstart + i \in 0 .. End - 1
        /\ (strstart + i) + (Len(text) - End) + 1 = j
        /\ (start + i) + (Len(text) - End) + 1 = j - dist
    BY <2>1, <1>1, <1>3
  <2>4. QED
    BY <2>2, <2>3, <1>2
<1>6. QED
  BY <1>4, <1>5 DEF L!Repeats

\* The next byte, after a round that codes no match.
LEMMA NextByte ==
  IndInv /\ pc = "decide" /\ NoBetterBefore /\ pc' = "body"
  /\ strstart' = strstart + 1 /\ lookahead' = lookahead - 1
  /\ match_available' = 1
  /\ UNCHANGED <<next_in, window, high_water, hash, match_start, match_length,
                 previous, search, max_insert, flush, text, written>>
  => IndInv'
<1> SUFFICES ASSUME IndInv, pc = "decide", NoBetterBefore, pc' = "body",
                    strstart' = strstart + 1, lookahead' = lookahead - 1,
                    match_available' = 1,
                    UNCHANGED <<next_in, window, high_water, hash, match_start,
                                match_length, previous, search, max_insert, flush,
                                text, written>>
             PROVE  IndInv'
  OBVIOUS
<1>1. /\ strstart \in Nat /\ lookahead \in Nat /\ lookahead >= 1
      /\ strstart + MIN_LOOKAHEAD <= window_size
      /\ ~ flush => lookahead >= MIN_LOOKAHEAD
      /\ Len(text) \in Nat
  BY Sizes DEF IndInv, TypeOK, Control, HistoryTyped
<1>2. TypeOK'
  <2>1. strstart + 1 \in 0 .. window_size /\ lookahead - 1 \in 0 .. window_size
    BY <1>1, Sizes DEF IndInv, TypeOK
  <2>2. QED
    BY <2>1 DEF IndInv, TypeOK, hash, previous, search
<1>3. HistoryTyped'
  BY DEF IndInv, HistoryTyped, previous
<1>4. /\ End' = End /\ End = strstart + lookahead
      /\ NextString' = strstart + 1 /\ NextString = strstart + 1
      /\ BetweenRounds'
  BY <1>1 DEF End, NextString, BetweenRounds
<1>5. Control'
  BY <1>1, <1>4, Sizes DEF IndInv, Control
<1>6. Data'
  BY <1>4 DEF IndInv, Data
<1>7. Chains'
  <2>1. Dictionary(head, prev, window, strstart + 1, strstart, End)
    BY <1>4 DEF IndInv, Chains
  <2>2. End \in Nat /\ strstart + 1 \in Nat
    BY <1>1, <1>4
  <2>3. Reach(strstart + 1, strstart + 1, End) \subseteq Reach(strstart + 1, strstart, End)
    BY <1>1, Sizes DEF Reach
  <2>4. Dictionary(head, prev, window, strstart + 1, strstart + 1, End)
    BY <2>1, <2>2, <2>3, <1>1, DictionaryNarrows DEF IndInv, TypeOK
  <2>5. QED
    BY <2>4, <1>4 DEF IndInv, Chains, NextKey, hash
<1>8. Matches'
  <2>1. /\ match_length \in Nat /\ prev_length \in Nat
        /\ match_length >= MIN_MATCH - 1 /\ match_start \in Int
    BY Sizes DEF IndInv, TypeOK, HistoryTyped, Matches
  <2>2. ASSUME match_length >= MIN_MATCH
        PROVE  /\ strstart - match_start \in 1 .. MAX_DIST
               /\ L!Repeats(text, Len(text) - lookahead, strstart - match_start,
                            match_length)
    <3>1. Same(match_start, match_length) /\ match_length <= lookahead
      BY <2>1, <2>2, Sizes DEF IndInv, Matches, NoBetterBefore
    <3>2. strstart - match_start \in 1 .. MAX_DIST
      BY <3>1, <2>1, <1>1, Sizes DEF Same
    <3>3. QED
      BY <3>1, <3>2, <2>1, <2>2, SameRepeats, Sizes
  <2>3. /\ Len(text) - lookahead = Len(text) - (lookahead - 1) - 1
        /\ strstart - match_start = (strstart + 1) - 1 - match_start
    BY <1>1, <2>1
  <2>4. Lazy(match_start, match_length)'
    BY <2>2, <2>3 DEF Lazy
  <2>5. QED
    BY <2>1, <2>4, <1>4 DEF Matches
<1>9. QED
  BY <1>2, <1>3, <1>5, <1>6, <1>7, <1>8 DEF IndInv

LEMMA EmitLiteralInv == IndInv /\ EmitLiteral => IndInv'
BY NextByte DEF EmitLiteral

LEMMA DeferLiteralInv == IndInv /\ DeferLiteral => IndInv'
BY NextByte DEF DeferLiteral

LEMMA EmitMatchInv == IndInv /\ EmitMatch => IndInv'
<1> SUFFICES ASSUME IndInv, EmitMatch
             PROVE  IndInv'
  OBVIOUS
<1> USE DEF EmitMatch
<1>1. /\ strstart \in Nat /\ lookahead \in Nat /\ prev_length \in Nat
      /\ prev_length >= 3 /\ prev_length <= MAX_MATCH
      /\ ~ flush => lookahead >= MIN_LOOKAHEAD
      /\ Len(text) \in Nat
  BY Sizes DEF IndInv, TypeOK, Control, HistoryTyped
<1>2. /\ match_available = 1 /\ strstart >= 1
      /\ prev_length <= lookahead + 1
  <2>1. Lazy(prev_match, prev_length)
    BY DEF IndInv, Matches
  <2>2. match_available = 1 /\ Len(text) - lookahead - 1 + prev_length <= Len(text)
    BY <2>1 DEF Lazy, L!Repeats
  <2>3. QED
    BY <2>2, <1>1 DEF IndInv, Control
<1>3. TypeOK'
  <2>1. /\ lookahead - (prev_length - 1) \in 0 .. window_size
        /\ prev_length - 2 \in 0 .. MAX_MATCH
    BY <1>1, <1>2, Sizes DEF IndInv, TypeOK
  <2>2. QED
    BY <2>1 DEF IndInv, TypeOK, hash, search
<1>4. HistoryTyped'
  BY <1>1, Sizes DEF IndInv, HistoryTyped, MaxInsert
<1>5. /\ End' = End /\ End = strstart + lookahead
      /\ NextString' = NextString /\ ~ BetweenRounds'
  BY <1>1 DEF End, NextString, BetweenRounds
<1>6. Control'
  BY <1>1, <1>2, <1>5, Sizes DEF IndInv, Control, MaxInsert
<1>7. Data'
  BY <1>5 DEF IndInv, Data
<1>8. Chains'
  BY <1>5 DEF IndInv, Chains, NextKey, hash
<1>9. Matches'
  BY <1>5 DEF Matches
<1>10. QED
  BY <1>3, <1>4, <1>6, <1>7, <1>8, <1>9 DEF IndInv

\* A string that joins the dictionary, while the data stays.
LEMMA StringJoins ==
  IndInv /\ NextString + MIN_MATCH <= End /\ INSERT_STRING(NextString)
  => /\ ins_h' \in HashKey /\ head' \in [HashKey -> Pos]
     /\ prev' \in [0 .. W_SIZE - 1 -> Pos]
     /\ Dictionary(head', prev', window, NextString + 1, strstart, End)
     /\ UPDATE_HASH(ins_h', window[NextString + 3]) = Key(window, NextString + 1)
<1> DEFINE n == NextString
           h == Key(window, n)
<1> SUFFICES ASSUME IndInv, n + MIN_MATCH <= End, INSERT_STRING(n)
             PROVE  /\ ins_h' \in HashKey /\ head' \in [HashKey -> Pos]
                    /\ prev' \in [0 .. W_SIZE - 1 -> Pos]
                    /\ Dictionary(head', prev', window, n + 1, strstart, End)
                    /\ UPDATE_HASH(ins_h', window[n + 3]) = Key(window, n + 1)
  OBVIOUS
<1>1. /\ NextKey(n) = h /\ h \in HashKey
      /\ ins_h \in HashKey
      /\ head \in [HashKey -> Pos] /\ prev \in [0 .. W_SIZE - 1 -> Pos]
  BY KeysAreKeys DEF IndInv, Chains, TypeOK
<1>2. /\ strstart \in Nat /\ n \in Nat /\ n <= strstart + 1
      /\ End \in Nat /\ End <= window_size
  BY Sizes DEF IndInv, TypeOK, NextString, End, Data
<1>3. n \in Pos
  BY <1>2, Sizes DEF Pos
<1>4. /\ ins_h' = h
      /\ prev' = [prev EXCEPT ![n % W_SIZE] = head[h]]
      /\ head' = [head EXCEPT ![h] = n]
  BY <1>1 DEF INSERT_STRING
<1>5. head[h] \in Pos
  BY <1>1
<1>6. head' \in [HashKey -> Pos] /\ prev' \in [0 .. W_SIZE - 1 -> Pos]
  BY <1>1, <1>3, <1>4, <1>5
<1>7. Dictionary(head', prev', window, n + 1, strstart, End)
  <2>1. Dictionary(head, prev, window, n, strstart, End)
    BY DEF IndInv, Chains
  <2>2. Dictionary([head EXCEPT ![h] = n], [prev EXCEPT ![n % W_SIZE] = head[h]],
                   window, n + 1, strstart, End)
    BY <2>1, <1>1, <1>2, <1>3, DictionaryGrows
  <2>3. QED
    BY <2>2, <1>4
<1>8. UPDATE_HASH(ins_h', window[n + 3]) = Key(window, n + 1)
  <2>1. UPDATE_HASH({}, window[n]) \in HashKey
    BY KeysAreKeys
  <2>2. n + 1 + 1 = n + 2 /\ n + 1 + 2 = n + 3
    BY <1>2
  <2>3. UPDATE_HASH(h, window[n + 3])
          = UPDATE_HASH(UPDATE_HASH(UPDATE_HASH({}, window[n + 1]), window[n + 2]),
                        window[n + 3])
    BY <2>1, KeyForgets DEF Key
  <2>4. QED
    BY <2>2, <2>3, <1>4 DEF Key
<1>9. QED
  BY <1>1, <1>4, <1>6, <1>7, <1>8

LEMMA SkipStringInv == IndInv /\ SkipString => IndInv'
<1> SUFFICES ASSUME IndInv, SkipString
             PROVE  IndInv'
  OBVIOUS
<1> DEFINE n == strstart + 1
<1>1. /\ pc = "skip" /\ NextString = n
      /\ strstart \in Nat /\ strstart >= 1 /\ lookahead \in Nat
      /\ prev_length \in Nat /\ prev_length >= 1
      /\ End = strstart + lookahead + prev_length + 1
      /\ End \in Nat /\ End <= window_size /\ Len(text) \in Nat
      /\ max_insert = End - 3
  BY Sizes DEF IndInv, TypeOK, HistoryTyped, Control, Data, SkipString, NextString, End
<1>2. /\ prev_length' = prev_length - 1
      /\ \/ /\ prev_length - 1 # 0 /\ strstart' = strstart + 1
            /\ pc' = "skip" /\ match_available' = match_available
            /\ match_length' = match_length
         \/ /\ prev_length - 1 = 0 /\ strstart' = strstart + 2
            /\ pc' = "body" /\ match_available' = 0
            /\ match_length' = 2
  BY <1>1, Sizes DEF SkipString
<1>3. /\ strstart' \in Nat /\ strstart' >= strstart + 1 /\ strstart' <= strstart + 2
      /\ End' = End /\ NextString' = n + 1
      /\ UNCHANGED <<next_in, window, high_water, lookahead, match_start, prev_match,
                     search, max_insert, flush, text, symbol, written>>
  BY <1>1, <1>2 DEF SkipString, End, NextString
<1>4. \/ n + 3 <= End /\ INSERT_STRING(n)
      \/ n + 3 > End /\ UNCHANGED hash
  BY <1>1 DEF SkipString
<1>5. /\ ins_h' \in HashKey /\ head' \in [HashKey -> Pos]
      /\ prev' \in [0 .. W_SIZE - 1 -> Pos]
      /\ Dictionary(head', prev', window, n + 1, strstart, End)
      /\ n + 4 <= End => UPDATE_HASH(ins_h', window[n + 3]) = Key(window, n + 1)
  <2>1. CASE n + 3 <= End /\ INSERT_STRING(n)
    BY <2>1, <1>1, StringJoins, Sizes
  <2>2. CASE n + 3 > End /\ UNCHANGED hash
    <3>1. Reach(n + 1, strstart, End) \subseteq Reach(n, strstart, End)
      BY <2>2, <1>1, Sizes DEF Reach
    <3>2. /\ head \in [HashKey -> Pos] /\ prev \in [0 .. W_SIZE - 1 -> Pos]
          /\ ins_h \in HashKey
      BY DEF IndInv, TypeOK
    <3>3. Dictionary(head, prev, window, n, strstart, End)
      BY <1>1 DEF IndInv, Chains
    <3>4. Dictionary(head, prev, window, n + 1, strstart, End)
      BY <3>1, <3>2, <3>3, <1>1, DictionaryNarrows
    <3>5. ~ (n + 4 <= End)
      BY <2>2, <1>1
    <3>6. QED
      BY <2>2, <3>2, <3>4, <3>5 DEF hash
  <2>3. QED
    BY <1>4, <2>1, <2>2
<1>6. TypeOK'
  <2>1. /\ strstart' \in 0 .. window_size /\ prev_length' \in 0 .. MAX_MATCH
        /\ match_length' \in 0 .. MAX_MATCH /\ match_available' \in {0, 1}
        /\ pc' \in {"skip", "body"}
    BY <1>1, <1>2, <1>3, Sizes DEF IndInv, TypeOK
  <2>2. QED
    BY <2>1, <1>3, <1>5 DEF IndInv, TypeOK, search
<1>7. HistoryTyped'
  BY <1>3 DEF IndInv, HistoryTyped
<1>8. Control'
  <2>1. /\ ~ flush => lookahead >= MIN_MATCH
        /\ flush => next_in = <<>>
    BY <1>1 DEF IndInv, Control
  <2>2. pc' = "skip" => prev_length' >= 1 /\ strstart' >= 1
    BY <1>1, <1>2
  <2>3. max_insert' = End' - MIN_MATCH /\ strstart' >= 1
    BY <1>1, <1>3, Sizes
  <2>4. pc' \in {"skip", "body"}
    BY <1>2
  <2>5. UNCHANGED <<flush, next_in, lookahead>>
    BY <1>3
  <2>6. QED
    BY <2>1, <2>2, <2>3, <2>4, <2>5 DEF Control
<1>9. Data'
  BY <1>3 DEF IndInv, Data
<1>10. Chains'
  <2>1. Reach(n + 1, strstart', End) \subseteq Reach(n + 1, strstart, End)
    BY <1>1, <1>3, Sizes DEF Reach
  <2>2. Dictionary(head', prev', window, n + 1, strstart', End)
    BY <2>1, <1>1, <1>3, <1>5, DictionaryNarrows
  <2>3. n + 1 + MIN_MATCH <= End => UPDATE_HASH(ins_h', window[n + 3]) = Key(window, n + 1)
    BY <1>1, <1>5, Sizes
  <2>4. n + 1 + MIN_MATCH - 1 = n + 3
    BY <1>1, Sizes
  <2>5. QED
    BY <2>2, <2>3, <2>4, <1>3 DEF Chains, NextKey
<1>11. Matches'
  <2>1. CASE pc' = "skip"
    BY <2>1 DEF Matches, BetweenRounds
  <2>2. CASE pc' = "body"
    <3>1. match_length' = 2
      BY <2>2, <1>2
    <3>2. QED
      BY <2>2, <3>1, Sizes DEF Matches, Lazy
  <2>3. QED
    BY <2>1, <2>2, <1>2
<1>12. QED
  BY <1>6, <1>7, <1>8, <1>9, <1>10, <1>11 DEF IndInv

LEMMA InsertInv == IndInv /\ Insert => IndInv'
<1> SUFFICES ASSUME IndInv, Insert
             PROVE  IndInv'
  OBVIOUS
<1> DEFINE n == strstart
           h == Key(window, n)
<1>1. /\ BetweenRounds /\ NextString = n
      /\ strstart \in Nat /\ lookahead \in Nat /\ End = n + lookahead
      /\ End \in Nat /\ End <= window_size /\ Len(text) \in Nat
      /\ match_length \in Nat /\ match_length >= 2 /\ match_length <= MAX_MATCH
      /\ match_start \in Int
  BY Sizes DEF IndInv, TypeOK, HistoryTyped, Data, Matches, Insert, Ready, End,
               NextString, BetweenRounds
<1>2. /\ lookahead >= 1 /\ (~ flush => lookahead >= MIN_LOOKAHEAD)
      /\ strstart + MIN_LOOKAHEAD <= window_size
  <2>1. CASE pc = "body" /\ lookahead >= MIN_LOOKAHEAD
    BY <2>1, <1>1, Sizes
  <2>2. CASE pc = "filled" /\ (lookahead >= MIN_LOOKAHEAD \/ flush) /\ lookahead # 0
    BY <2>2, <1>1, Sizes DEF IndInv, Control
  <2>3. QED
    BY <2>1, <2>2 DEF Insert, Ready
<1>3. /\ prev_length' = match_length /\ prev_match' = match_start
      /\ match_length' = 2 /\ pc' \in {"search", "decide"}
      /\ UNCHANGED <<next_in, window, high_water, strstart, lookahead, match_start,
                     match_available, max_insert, flush, text, symbol, written>>
  BY Sizes DEF Insert
<1>4. End' = End /\ NextString' = n + 1 /\ ~ BetweenRounds'
  BY <1>1, <1>3 DEF End, NextString, BetweenRounds
<1>5. \/ n + 3 <= End /\ lookahead >= 3 /\ INSERT_STRING(n)
      \/ n + 3 > End /\ lookahead < 3 /\ UNCHANGED hash
  BY <1>1, Sizes DEF Insert
<1>6. /\ ins_h' \in HashKey /\ head' \in [HashKey -> Pos]
      /\ prev' \in [0 .. W_SIZE - 1 -> Pos]
      /\ Dictionary(head', prev', window, n + 1, strstart, End)
      /\ n + 4 <= End => UPDATE_HASH(ins_h', window[n + 3]) = Key(window, n + 1)
  <2>1. CASE n + 3 <= End /\ INSERT_STRING(n)
    BY <2>1, <1>1, StringJoins, Sizes
  <2>2. CASE n + 3 > End /\ UNCHANGED hash
    <3>1. Reach(n + 1, strstart, End) \subseteq Reach(n, strstart, End)
      BY <2>2, <1>1, Sizes DEF Reach
    <3>2. /\ head \in [HashKey -> Pos] /\ prev \in [0 .. W_SIZE - 1 -> Pos]
          /\ ins_h \in HashKey
      BY DEF IndInv, TypeOK
    <3>3. Dictionary(head, prev, window, n, strstart, End)
      BY <1>1 DEF IndInv, Chains
    <3>4. Dictionary(head, prev, window, n + 1, strstart, End)
      BY <3>1, <3>2, <3>3, <1>1, DictionaryNarrows
    <3>5. ~ (n + 4 <= End)
      BY <2>2, <1>1
    <3>6. QED
      BY <2>2, <3>2, <3>4, <3>5 DEF hash
  <2>3. QED
    BY <1>5, <2>1, <2>2
<1>7. \* The chain a search starts on.
      \/ pc' = "decide" /\ UNCHANGED search
      \/ /\ pc' = "search" /\ lookahead >= 3
         /\ cur_match' \in Reach(n, n, End) /\ cur_match' \in Pos
         /\ Key(window, cur_match') = h
         /\ chain_length' \in 1 .. max_chain_length
         /\ best_len' = match_length
  <2>1. CASE ~ WorthSearching(HashHead)
    BY <2>1 DEF Insert
  <2>2. CASE WorthSearching(HashHead)
    <3>1. HashHead # 0 /\ strstart - HashHead <= MAX_DIST
      BY <2>2 DEF WorthSearching
    <3>2. lookahead >= 3 /\ HashHead = head[NextKey(n)]
      BY <3>1, Sizes DEF HashHead
    <3>3. NextKey(n) = h /\ h \in HashKey
      BY <3>2, <1>1, KeysAreKeys, Sizes DEF IndInv, Chains
    <3>4. HashHead \in Pos /\ HashHead \in Nat
      BY <3>2, <3>3, Sizes DEF IndInv, TypeOK, Pos
    <3>5. Dictionary(head, prev, window, n, n, End)
      BY <1>1 DEF IndInv, Chains
    <3>6. /\ HashHead < n /\ HashHead + MIN_MATCH <= End
          /\ HashHead \in Reach(n, n, End) => Key(window, HashHead) = h
      BY <3>1, <3>2, <3>3, <3>5 DEF Dictionary, Heads
    <3>7. HashHead \in Reach(n, n, End)
      BY <3>1, <3>4, <3>6, <1>1 DEF Reach
    <3>8. max_chain_length \in 1 .. max_chain_length
          /\ max_chain_length \div 4 \in 1 .. max_chain_length
      BY TableAssumption
    <3>9. /\ pc' = "search" /\ cur_match' = HashHead /\ best_len' = match_length
          /\ chain_length' \in {max_chain_length \div 4, max_chain_length}
      BY <2>2 DEF Insert
    <3>10. QED
      BY <3>2, <3>4, <3>6, <3>7, <3>8, <3>9
  <2>3. QED
    BY <2>1, <2>2
<1>8. TypeOK'
  <2>1. /\ cur_match' \in Pos /\ chain_length' \in 0 .. max_chain_length
        /\ best_len' \in 0 .. MAX_MATCH
    BY <1>7, <1>1, Sizes, TableAssumption DEF IndInv, TypeOK, search
  <2>2. /\ match_length' \in 0 .. MAX_MATCH /\ prev_length' \in 0 .. MAX_MATCH
    BY <1>1, <1>3, Sizes
  <2>3. QED
    BY <2>1, <2>2, <1>3, <1>6 DEF IndInv, TypeOK
<1>9. HistoryTyped'
  BY <1>3 DEF IndInv, HistoryTyped
<1>10. Control'
  BY <1>2, <1>3, <1>4 DEF IndInv, Control
<1>11. Data'
  BY <1>3, <1>4 DEF IndInv, Data
<1>12. Chains'
  <2>1. n + 1 + MIN_MATCH <= End => UPDATE_HASH(ins_h', window[n + 3]) = Key(window, n + 1)
    BY <1>1, <1>6, Sizes
  <2>2. n + 1 + MIN_MATCH - 1 = n + 3
    BY <1>1, Sizes
  <2>3. QED
    BY <2>1, <2>2, <1>3, <1>4, <1>6 DEF Chains, NextKey
<1>13. Matches'
  <2>1. Lazy(prev_match, prev_length)'
    BY <1>1, <1>3 DEF IndInv, Matches, Lazy
  <2>2. match_length' >= MIN_MATCH - 1 /\ prev_length' >= MIN_MATCH - 1
        /\ ~ (match_length' >= MIN_MATCH)
    BY <1>1, <1>3, Sizes
  <2>3. ASSUME pc' = "search"
        PROVE  /\ lookahead' >= MIN_MATCH /\ chain_length' >= 1
               /\ match_length' = MIN_MATCH - 1
               /\ cur_match' \in Reach(strstart', strstart', End')
               /\ Key(window', cur_match') = Key(window', strstart')
               /\ best_len' >= prev_length' /\ ~ (best_len' > prev_length')
    BY <2>3, <1>1, <1>3, <1>4, <1>7, Sizes, TableAssumption
  <2>4. QED
    BY <2>1, <2>2, <2>3, <1>4 DEF Matches
<1>14. QED
  BY <1>8, <1>9, <1>10, <1>11, <1>12, <1>13 DEF IndInv

----------------------------------------------------------------------------
(***************************************************************************)
(* The walk of longest_match.                                              *)
(***************************************************************************)

LEMMA SearchFacts ==
  ASSUME IndInv, pc = "search"
  PROVE  /\ strstart \in Nat /\ lookahead \in Nat /\ lookahead >= 3
         /\ strstart + MAX_MATCH + 4 <= window_size
         /\ End = strstart + lookahead /\ End \in Nat /\ NextString = strstart + 1
         /\ cur_match \in Nat /\ cur_match >= 1 /\ cur_match < strstart
         /\ strstart - cur_match <= MAX_DIST
         /\ cur_match \in Reach(strstart, strstart, End)
         /\ cur_match \in Reach(strstart + 1, strstart, End)
         /\ best_len \in Nat /\ best_len <= MAX_MATCH
         /\ prev_length \in Nat /\ prev_length >= 2 /\ best_len >= prev_length
         /\ chain_length \in Nat /\ chain_length >= 1
         /\ chain_length <= max_chain_length /\ max_chain_length \in Nat
<1>1. /\ strstart \in Nat /\ lookahead \in Nat /\ lookahead >= 3
      /\ strstart + MAX_MATCH + 4 <= window_size
      /\ End = strstart + lookahead /\ NextString = strstart + 1
  BY Sizes DEF IndInv, TypeOK, Control, Matches, End, NextString
<1>2. cur_match \in Reach(strstart, strstart, End)
  BY DEF IndInv, Matches
<1>3. /\ cur_match \in Nat /\ cur_match >= 1 /\ cur_match < strstart
      /\ strstart - cur_match <= MAX_DIST
      /\ cur_match \in Reach(strstart + 1, strstart, End)
  BY <1>1, <1>2 DEF Reach
<1>4. /\ best_len \in Nat /\ best_len <= MAX_MATCH
      /\ prev_length \in Nat /\ prev_length >= 2 /\ best_len >= prev_length
      /\ chain_length \in Nat /\ chain_length >= 1
      /\ chain_length <= max_chain_length /\ max_chain_length \in Nat
  BY Sizes, TableAssumption DEF IndInv, TypeOK, Matches
<1>5. QED
  BY <1>1, <1>2, <1>3, <1>4

\* The bytes that are not compared are equal all the same.
LEMMA CompareFinds ==
  ASSUME IndInv, pc = "search"
  PROVE  /\ Compare \in 0 .. MAX_MATCH
         /\ Compare > best_len => Same(cur_match, Compare)
<1> DEFINE differs(len) == window[cur_match + len] # window[strstart + len]
           found(len) == /\ \A i \in MIN_MATCH .. len - 1 :
                              window[cur_match + i] = window[strstart + i]
                         /\ len < MAX_MATCH =>
                              window[cur_match + len] # window[strstart + len]
<1>1. CASE ~ (/\ window[cur_match + best_len] = window[strstart + best_len]
              /\ window[cur_match + best_len - 1] = window[strstart + best_len - 1]
              /\ window[cur_match] = window[strstart]
              /\ window[cur_match + 1] = window[strstart + 1])
  <2>1. Compare = 0
    BY <1>1 DEF Compare
  <2>2. QED
    BY <2>1, SearchFacts, Sizes
<1>2. CASE /\ window[cur_match + best_len] = window[strstart + best_len]
           /\ window[cur_match + best_len - 1] = window[strstart + best_len - 1]
           /\ window[cur_match] = window[strstart]
           /\ window[cur_match + 1] = window[strstart + 1]
  <2>1. \E len \in MIN_MATCH .. MAX_MATCH : found(len)
    <3> DEFINE S == {len \in MIN_MATCH .. MAX_MATCH : len = MAX_MATCH \/ differs(len)}
    <3>1. S \subseteq Nat /\ MAX_MATCH \in S
      BY Sizes
    <3>2. PICK len \in S : \A m \in S : len <= m
      BY <3>1, LeastNatural
    <3>3. ASSUME NEW i \in MIN_MATCH .. len - 1
          PROVE  window[cur_match + i] = window[strstart + i]
      <4>1. i \in MIN_MATCH .. MAX_MATCH /\ ~ (len <= i)
        BY <3>2, Sizes
      <4>2. i \notin S
        BY <4>1, <3>2
      <4>3. QED
        BY <4>1, <4>2
    <3>4. len < MAX_MATCH => differs(len)
      BY <3>2, Sizes
    <3>5. len \in MIN_MATCH .. MAX_MATCH
      BY <3>2
    <3>6. QED
      BY <3>3, <3>4, <3>5
  <2>2. Compare = CHOOSE len \in MIN_MATCH .. MAX_MATCH : found(len)
    BY <1>2 DEF Compare
  <2>3. Compare \in MIN_MATCH .. MAX_MATCH /\ found(Compare)
    <3> HIDE DEF found
    <3>1. QED
      BY <2>1, <2>2
  <2>4. window[cur_match + 2] = window[strstart + 2]
    <3>1. Key(window, cur_match) = Key(window, strstart)
      BY DEF IndInv, Matches
    <3>2. /\ cur_match + 2 \in Pos /\ strstart + 2 \in Pos
      BY SearchFacts, Sizes DEF Pos
    <3>3. window[cur_match + 2] \in Byte /\ window[strstart + 2] \in Byte
      BY <3>2 DEF IndInv, TypeOK
    <3>4. QED
      BY <3>1, <3>3, <1>2, ThirdByte DEF Key
  <2>5. ASSUME NEW i \in 0 .. Compare - 1
        PROVE  window[cur_match + i] = window[strstart + i]
    <3>1. i = 0 \/ i = 1 \/ i = 2 \/ i \in MIN_MATCH .. Compare - 1
      BY <2>3, Sizes
    <3>2. cur_match + 0 = cur_match /\ strstart + 0 = strstart
      BY SearchFacts
    <3>3. QED
      BY <3>1, <3>2, <1>2, <2>3, <2>4
  <2>6. Compare \in 0 .. MAX_MATCH
    BY <2>3, Sizes
  <2>7. Same(cur_match, Compare)
    BY <2>5, SearchFacts DEF Same
  <2>8. QED
    BY <2>6, <2>7
<1>3. QED
  BY <1>1, <1>2

\* Where the walk goes next.
LEMMA NextLink ==
  ASSUME IndInv, pc = "search"
  PROVE  /\ prev[cur_match % W_SIZE] \in Pos
         /\ prev[cur_match % W_SIZE] < cur_match
         /\ InReach(prev[cur_match % W_SIZE]) =>
              /\ prev[cur_match % W_SIZE] \in Reach(strstart, strstart, End)
              /\ Key(window, prev[cur_match % W_SIZE]) = Key(window, strstart)
<1> DEFINE next == prev[cur_match % W_SIZE]
<1>1. next \in Pos /\ next \in Nat
  <2>1. cur_match % W_SIZE \in 0 .. W_SIZE - 1
    BY SearchFacts, Wrap, Sizes
  <2>2. QED
    BY <2>1, Sizes DEF IndInv, TypeOK, Pos
<1>2. Dictionary(head, prev, window, strstart + 1, strstart, End)
  BY SearchFacts DEF IndInv, Chains
<1>3. /\ next < cur_match
      /\ next \in Reach(strstart + 1, strstart, End) => Key(window, next) = Key(window, cur_match)
  BY <1>2, SearchFacts DEF Dictionary, Links
<1>4. Key(window, cur_match) = Key(window, strstart)
  BY DEF IndInv, Matches
<1>5. ASSUME InReach(next)
      PROVE  /\ next \in Reach(strstart, strstart, End)
             /\ next \in Reach(strstart + 1, strstart, End)
  <2>1. next >= 1 /\ strstart - next <= MAX_DIST
    BY <1>1, <1>5, SearchFacts, Sizes DEF InReach, limit
  <2>2. next + MIN_MATCH <= End /\ next < strstart
    BY <1>1, <1>3, SearchFacts, Sizes
  <2>3. QED
    BY <2>1, <2>2, <1>1, SearchFacts DEF Reach
<1>6. QED
  BY <1>1, <1>3, <1>4, <1>5

LEMMA ProbeInv == IndInv /\ Probe => IndInv'
<1> SUFFICES ASSUME IndInv, Probe
             PROVE  IndInv'
  OBVIOUS
<1> DEFINE len == Compare
           better == len > best_len
           next == prev[cur_match % W_SIZE]
           best == IF better THEN len ELSE best_len
           start == IF better THEN cur_match ELSE match_start
<1>1. pc = "search"
  BY DEF Probe
<1>2. /\ best_len' = best /\ match_start' = start
      /\ UNCHANGED <<next_in, window, high_water, strstart, lookahead, hash,
                     match_available, previous, max_insert, flush, text, symbol,
                     written>>
  BY DEF Probe
<1>3. \/ /\ match_length' = Found(best, start) /\ pc' = "decide"
         /\ UNCHANGED <<cur_match, chain_length>>
      \/ /\ InReach(next) /\ chain_length # 1
         /\ cur_match' = next /\ chain_length' = chain_length - 1
         /\ UNCHANGED <<match_length, pc>>
  BY <1>2 DEF Probe
<1>4. /\ strstart \in Nat /\ lookahead \in Nat /\ lookahead >= 3
      /\ prev_length \in Nat /\ prev_length >= 2
      /\ match_start \in Int /\ cur_match \in Nat
      /\ chain_length \in Nat /\ chain_length >= 1
      /\ chain_length <= max_chain_length /\ max_chain_length \in Nat
  BY <1>1, SearchFacts DEF IndInv, HistoryTyped
<1>5. /\ best \in Nat /\ best <= MAX_MATCH /\ best >= prev_length
      /\ start \in Int
      /\ best > prev_length => Same(start, best)
  <2>1. CASE better
    <3>1. len \in Nat /\ len <= MAX_MATCH /\ Same(cur_match, len)
      BY <2>1, <1>1, CompareFinds, Sizes
    <3>2. len >= prev_length
      BY <2>1, <3>1, <1>1, SearchFacts
    <3>3. QED
      BY <2>1, <3>1, <3>2, <1>4
  <2>2. CASE ~ better
    BY <2>2, <1>1, <1>4, SearchFacts DEF IndInv, Matches
  <2>3. QED
    BY <2>1, <2>2
<1> HIDE DEF len, better, best, start
<1>6. LET length == Found(best, start)
      IN  /\ length \in 2 .. MAX_MATCH
          /\ length > prev_length => Same(start, length) /\ length <= lookahead
  <2> DEFINE length == Found(best, start)
  <2>1. length \in Nat /\ length >= 2 /\ length <= best /\ length <= lookahead
    BY <1>4, <1>5, Sizes DEF Found, MIN
  <2>2. length > prev_length => Same(start, length)
    <3> HIDE DEF length
    <3>1. length > prev_length => Same(start, best)
      BY <2>1, <1>4, <1>5
    <3>2. QED
      BY <3>1, <2>1, <1>5 DEF Same
  <2>3. QED
    BY <2>1, <2>2, <1>5, Sizes
<1>7. /\ next \in Pos
      /\ InReach(next) => /\ next \in Reach(strstart, strstart, End)
                          /\ Key(window, next) = Key(window, strstart)
  BY <1>1, NextLink
<1>8. /\ End' = End /\ NextString' = NextString /\ ~ BetweenRounds'
      /\ pc' \in {"search", "decide"}
  BY <1>1, <1>2, <1>3 DEF End, NextString, BetweenRounds
<1>9. TypeOK'
  <2>1. /\ cur_match' \in Pos /\ chain_length' \in 0 .. max_chain_length
        /\ match_length' \in 0 .. MAX_MATCH
    BY <1>3, <1>4, <1>6, <1>7, Sizes DEF IndInv, TypeOK
  <2>2. best_len' \in 0 .. MAX_MATCH
    BY <1>2, <1>5, Sizes
  <2>3. QED
    BY <2>1, <2>2, <1>2, <1>8 DEF IndInv, TypeOK, hash, previous
<1>10. HistoryTyped'
  BY <1>2, <1>5 DEF IndInv, HistoryTyped, previous
<1>11. Control'
  BY <1>1, <1>2, <1>8 DEF IndInv, Control
<1>12. Data'
  BY <1>2, <1>8 DEF IndInv, Data
<1>13. Chains'
  BY <1>2, <1>8 DEF IndInv, Chains, NextKey, hash
<1>14. Matches'
  <2>1. /\ Lazy(prev_match, prev_length)' /\ prev_length' >= MIN_MATCH - 1
    BY <1>1, <1>2 DEF IndInv, Matches, Lazy, previous
  <2>2. CASE /\ match_length' = Found(best, start) /\ pc' = "decide"
    <3>1. match_length' >= MIN_MATCH - 1
      BY <2>2, <1>6, Sizes
    <3>2. match_length' > prev_length' =>
            Same(match_start, match_length)' /\ match_length' <= lookahead'
      BY <2>2, <1>2, <1>6 DEF Same, previous
    <3>3. QED
      BY <2>1, <2>2, <3>1, <3>2 DEF Matches, BetweenRounds
  <2>3. CASE /\ InReach(next) /\ chain_length # 1
             /\ cur_match' = next /\ chain_length' = chain_length - 1
             /\ UNCHANGED <<match_length, pc>>
    <3>1. match_length' = MIN_MATCH - 1 /\ match_length' >= MIN_MATCH - 1
      BY <2>3, <1>1, Sizes DEF IndInv, Matches
    <3>2. chain_length' >= 1
      BY <2>3, <1>4
    <3>3. /\ cur_match' \in Reach(strstart', strstart', End')
          /\ Key(window', cur_match') = Key(window', strstart')
      BY <2>3, <1>2, <1>7, <1>8
    <3>4. /\ best_len' >= prev_length'
          /\ best_len' > prev_length' => Same(match_start, best_len)'
      BY <1>2, <1>5 DEF Same, previous
    <3>5. lookahead' >= MIN_MATCH /\ pc' = "search"
      BY <2>3, <1>1, <1>2, <1>4, Sizes
    <3>6. QED
      BY <2>1, <3>1, <3>2, <3>3, <3>4, <3>5 DEF Matches, BetweenRounds
  <2>4. QED
    BY <1>3, <2>2, <2>3
<1>15. QED
  BY <1>9, <1>10, <1>11, <1>12, <1>13, <1>14 DEF IndInv

----------------------------------------------------------------------------
(***************************************************************************)
(* fill_window.                                                            *)
(***************************************************************************)

LEMMA FillWindowInv == IndInv /\ FillWindow => IndInv'
<1> SUFFICES ASSUME IndInv, FillWindow
             PROVE  IndInv'
  OBVIOUS
<1> DEFINE more == window_size - lookahead - strstart
           slide == IF WindowFull THEN W_SIZE ELSE 0
           kept == IF WindowFull THEN Moved(window, more) ELSE window
           start == strstart - slide
           n == MIN(Len(next_in), more + slide)
           bytes == SubSeq(next_in, 1, n)
           curr == start + lookahead + n
           old == start + lookahead
           full == Read(kept, start + lookahead, bytes)
<1>1. /\ pc = "body" /\ pc' = "filled" /\ lookahead < MIN_LOOKAHEAD
      /\ strstart' = start /\ match_start' = match_start - slide
      /\ head' = IF WindowFull THEN [h \in DOMAIN head |-> Slide(head[h])] ELSE head
      /\ prev' = IF WindowFull THEN [p \in DOMAIN prev |-> Slide(prev[p])] ELSE prev
      /\ lookahead' = lookahead + n
      /\ text' = text \o bytes
      /\ next_in' = SubSeq(next_in, n + 1, Len(next_in))
      /\ ins_h' = IF n > 0 /\ lookahead + n >= MIN_MATCH
                    THEN StartKey(full, start) ELSE ins_h
      /\ high_water' = HighWater(curr)
      /\ window' = IF high_water' > high_water
                     THEN Cleared(full, IF high_water < curr THEN curr ELSE high_water,
                                  high_water')
                     ELSE full
      /\ written' = IF high_water' > written THEN high_water'
                    ELSE IF curr > written THEN curr ELSE written
      /\ UNCHANGED <<match_length, match_available, previous, search, max_insert,
                     flush, symbol>>
  BY DEF FillWindow
<1>2. /\ strstart \in Nat /\ lookahead \in Nat /\ End = strstart + lookahead
      /\ End <= window_size /\ End \in Nat /\ more \in Nat
      /\ next_in \in Seq(Byte) /\ text \in Seq(Byte)
      /\ Len(next_in) \in Nat /\ Len(text) \in Nat /\ End <= Len(text)
      /\ match_start \in Int /\ match_length \in Nat
      /\ high_water \in Nat /\ high_water <= window_size /\ written \in Nat
      /\ written >= high_water
      /\ BetweenRounds /\ NextString = strstart
      /\ window \in [Pos -> Byte] /\ more = window_size - lookahead - strstart
  <2>1. /\ strstart \in Nat /\ lookahead \in Nat /\ End = strstart + lookahead
        /\ high_water \in Nat /\ high_water <= window_size
        /\ window \in [Pos -> Byte] /\ match_length \in Nat
    BY <1>1, Sizes DEF IndInv, TypeOK, End
  <2>2. End <= window_size /\ End <= Len(text) /\ written >= high_water
    BY DEF IndInv, Data
  <2>3. /\ next_in \in Seq(Byte) /\ text \in Seq(Byte)
        /\ Len(next_in) \in Nat /\ Len(text) \in Nat
        /\ match_start \in Int /\ written \in Nat
    BY DEF IndInv, HistoryTyped
  <2>4. BetweenRounds /\ NextString = strstart
    BY <1>1 DEF BetweenRounds, NextString
  <2>5. End \in Nat /\ more \in Nat
    BY <2>1, <2>2, Sizes
  <2>6. QED
    BY <2>1, <2>2, <2>3, <2>4, <2>5
<1> HIDE DEF more
<1>3. /\ slide \in Nat /\ start \in Nat /\ start = strstart - slide
      /\ start + MIN_LOOKAHEAD <= window_size
      /\ \/ WindowFull /\ slide = W_SIZE /\ strstart >= W_SIZE
         \/ ~ WindowFull /\ slide = 0
  BY <1>2, Sizes DEF WindowFull
<1> HIDE DEF slide, start
<1>4. /\ n \in Nat /\ n <= Len(next_in) /\ n <= more + slide
      /\ n < Len(next_in) => n = more + slide
  BY <1>2, <1>3 DEF MIN
<1> HIDE DEF n
<1>5. /\ old \in Nat /\ old = End - slide /\ old = start + lookahead /\ curr = old + n
      /\ curr \in Nat /\ curr <= window_size /\ curr = start + (lookahead + n)
  BY <1>2, <1>3, <1>4, Sizes
<1>6. /\ bytes \in Seq(Byte) /\ Len(bytes) = n
      /\ \A j \in 1 .. n : bytes[j] \in Byte
  <2>1. \A j \in 1 .. n : next_in[j] \in Byte
    BY <1>2, <1>4
  <2>2. /\ bytes \in Seq(Byte) /\ Len(bytes) = IF 1 <= n THEN n - 1 + 1 ELSE 0
    BY <2>1, <1>4, SubSeqProperties
  <2>3. Len(bytes) = n
    BY <2>2, <1>4
  <2>4. QED
    BY <2>2, <2>3
<1> HIDE DEF bytes, curr, old
<1>7. /\ kept \in [Pos -> Byte]
      /\ \A i \in 0 .. old - 1 : kept[i] = window[i + slide]
  <2>1. CASE WindowFull
    <3>1. /\ DOMAIN window = Pos
          /\ kept = [i \in Pos |-> IF i < W_SIZE - more THEN window[i + W_SIZE]
                                   ELSE window[i]]
      BY <2>1, <1>2 DEF Moved
    <3>2. ASSUME NEW i \in Pos
          PROVE  kept[i] \in Byte
      <4>1. i < W_SIZE - more => i + W_SIZE \in Pos
        BY <1>2, Sizes DEF Pos
      <4>2. QED
        BY <3>1, <4>1, <1>2
    <3>3. ASSUME NEW i \in 0 .. old - 1
          PROVE  kept[i] = window[i + slide]
      <4>1. i \in Pos /\ i < W_SIZE - more /\ slide = W_SIZE
        BY <2>1, <1>2, <1>3, <1>5, Sizes DEF Pos
      <4>2. QED
        BY <3>1, <4>1
    <3>4. QED
      BY <3>1, <3>2, <3>3
  <2>2. CASE ~ WindowFull
    <3>1. kept = window /\ slide = 0
      BY <2>2, <1>3
    <3>2. \A i \in 0 .. old - 1 : i + 0 = i
      BY <1>5
    <3>3. QED
      BY <3>1, <3>2, <1>2
  <2>3. QED
    BY <2>1, <2>2
<1> HIDE DEF kept
<1>8. /\ full \in [Pos -> Byte]
      /\ \A i \in 0 .. old - 1 : full[i] = window[i + slide]
      /\ \A i \in old .. curr - 1 : full[i] = bytes[i - old + 1]
  <2>1. full = [i \in Pos |-> IF i \in old .. curr - 1 THEN bytes[i - old + 1] ELSE kept[i]]
    BY <1>5, <1>6, <1>7 DEF Read, full
  <2>2. ASSUME NEW i \in Pos
        PROVE  full[i] \in Byte
    <3>1. i \in old .. curr - 1 => i - old + 1 \in 1 .. n
      BY <1>4, <1>5
    <3>2. QED
      BY <2>1, <3>1, <1>6, <1>7
  <2>3. \A i \in 0 .. curr - 1 : i \in Pos
    BY <1>5, Sizes DEF Pos
  <2>4. \A i \in 0 .. old - 1 : i \in 0 .. curr - 1 /\ i \notin old .. curr - 1
    BY <1>4, <1>5
  <2>5. \A i \in old .. curr - 1 : i \in 0 .. curr - 1
    BY <1>5
  <2>6. \A i \in 0 .. old - 1 : full[i] = window[i + slide]
    BY <2>1, <2>3, <2>4, <1>7
  <2>7. \A i \in old .. curr - 1 : full[i] = bytes[i - old + 1]
    BY <2>1, <2>3, <2>5
  <2>8. QED
    BY <2>1, <2>2, <2>6, <2>7
<1> HIDE DEF full
<1>9. /\ high_water' \in Nat /\ high_water' <= window_size
      /\ high_water' >= window_size \/ high_water' >= curr + MAX_MATCH
      /\ written' \in Nat /\ written' >= high_water'
  <2>1. LET hw == HighWater(curr)
        IN  /\ hw \in Nat /\ hw <= window_size
            /\ hw >= window_size \/ hw >= curr + MAX_MATCH
    <3>1. \A x \in Nat : MIN(x, window_size) \in {x, window_size}
                         /\ MIN(x, window_size) <= window_size
      BY Sizes DEF MIN
    <3>2. curr + MAX_MATCH \in Nat /\ window_size \in Nat
      BY <1>5, Sizes
    <3>3. QED
      BY <3>1, <3>2, <1>2, <1>5, Sizes DEF HighWater
  <2>2. PICK hw \in Nat : hw = high_water'
    BY <2>1, <1>1
  <2>3. /\ hw <= window_size /\ (hw >= window_size \/ hw >= curr + MAX_MATCH)
    BY <2>1, <2>2, <1>1
  <2>4. written' = IF hw > written THEN hw ELSE IF curr > written THEN curr ELSE written
    BY <2>2, <1>1
  <2>5. written' \in Nat /\ written' >= hw
    BY <2>4, <1>2, <1>5
  <2>6. QED
    BY <2>2, <2>3, <2>5
<1>10. /\ window' \in [Pos -> Byte]
       /\ \A i \in 0 .. curr - 1 : window'[i] = full[i]
  <2>1. PICK hw \in Nat : hw = high_water'
    BY <1>9
  <2>2. PICK from \in Nat : from = IF high_water < curr THEN curr ELSE high_water
    BY <1>2, <1>5
  <2>3. from >= curr
    BY <2>2, <1>2, <1>5
  <2>4. {} \in Byte
    BY DEF Byte
  <2>5. window' = IF hw > high_water THEN Cleared(full, from, hw) ELSE full
    BY <2>1, <2>2, <1>1
  <2>6. CASE hw > high_water
    <3>1. window' = [i \in Pos |-> IF i \in from .. hw - 1 THEN {} ELSE full[i]]
      BY <2>5, <2>6, <1>8 DEF Cleared
    <3>2. \A i \in 0 .. curr - 1 : i \in Pos /\ i \notin from .. hw - 1
      BY <2>2, <2>3, <1>5, Sizes DEF Pos
    <3>3. \A i \in 0 .. curr - 1 : window'[i] = full[i]
      BY <3>1, <3>2
    <3>4. QED
      BY <3>1, <3>3, <2>4, <1>8
  <2>7. CASE ~ (hw > high_water)
    BY <2>5, <2>7, <1>8
  <2>8. QED
    BY <2>6, <2>7
<1>11. /\ \A i \in 0 .. old - 1 : window'[i] = window[i + slide]
       /\ \A i \in old .. curr - 1 : window'[i] = bytes[i - old + 1]
  <2>1. \A i \in 0 .. old - 1 : i \in 0 .. curr - 1
    BY <1>4, <1>5
  <2>2. \A i \in old .. curr - 1 : i \in 0 .. curr - 1
    BY <1>5
  <2>3. QED
    BY <2>1, <2>2, <1>8, <1>10
<1>12. /\ text' \in Seq(Byte) /\ Len(text') = Len(text) + n
       /\ \A j \in 1 .. Len(text) : text'[j] = text[j]
       /\ \A j \in 1 .. n : text'[Len(text) + j] = bytes[j]
  <2>1. /\ text' \in Seq(Byte) /\ Len(text') = Len(text) + Len(bytes)
        /\ \A j \in 1 .. Len(text) + Len(bytes) :
             text'[j] = IF j <= Len(text) THEN text[j] ELSE bytes[j - Len(text)]
    BY <1>1, <1>2, <1>6, ConcatProperties
  <2>2. \A j \in 1 .. Len(text) : text'[j] = text[j]
    BY <2>1, <1>2, <1>4, <1>6
  <2>3. ASSUME NEW j \in 1 .. n
        PROVE  text'[Len(text) + j] = bytes[j]
    <3>1. /\ Len(text) + j \in 1 .. Len(text) + Len(bytes) /\ ~ (Len(text) + j <= Len(text))
          /\ Len(text) + j - Len(text) = j
      BY <1>2, <1>4, <1>6
    <3>2. QED
      BY <2>1, <3>1
  <2>4. QED
    BY <2>1, <2>2, <2>3, <1>6
<1>13. /\ next_in' \in Seq(Byte)
       /\ n = Len(next_in) => next_in' = <<>>
       /\ next_in = <<>> => n = 0
  <2>1. \A j \in n + 1 .. Len(next_in) : next_in[j] \in Byte
    BY <1>2, <1>4
  <2>2. next_in' \in Seq(Byte)
    <3>1. n + 1 \in Int /\ Len(next_in) \in Int
      BY <1>2, <1>4
    <3>2. SubSeq(next_in, n + 1, Len(next_in)) \in Seq(Byte)
      BY <2>1, <3>1, SubSeqProperties
    <3>3. QED
      BY <3>2, <1>1
  <2>3. n = Len(next_in) => next_in' = <<>>
    BY <1>1, <1>2, <1>4, SubSeqEmpty
  <2>4. next_in = <<>> => n = 0
    BY <1>4
  <2>5. QED
    BY <2>2, <2>3, <2>4
<1>14. /\ End' = curr /\ BetweenRounds' /\ NextString' = start
  <2>1. End' = start + (lookahead + n) + 0
    BY <1>1 DEF End
  <2>2. End' = curr
    BY <2>1, <1>2, <1>3, <1>4, <1>5
  <2>3. QED
    BY <2>2, <1>1 DEF BetweenRounds, NextString
<1>15. \A m \in Pos : Slide(m) \in Pos
  BY Sizes DEF Slide, Pos
<1>16. /\ head \in [HashKey -> Pos] /\ prev \in [0 .. W_SIZE - 1 -> Pos]
       /\ ins_h \in HashKey
  BY DEF IndInv, TypeOK
<1>17. /\ head' \in [HashKey -> Pos] /\ prev' \in [0 .. W_SIZE - 1 -> Pos]
       /\ ins_h' \in HashKey
  <2>1. CASE WindowFull
    BY <2>1, <1>1, <1>15, <1>16, KeysAreKeys DEF StartKey
  <2>2. CASE ~ WindowFull
    BY <2>2, <1>1, <1>16, KeysAreKeys DEF StartKey
  <2>3. QED
    BY <2>1, <2>2
<1>18. Dictionary(head', prev', window', start, start, curr)
  <2>1. Dictionary(head, prev, window, strstart, strstart, End)
    BY <1>2 DEF IndInv, Chains
  <2>2. Dictionary(head', prev', window', start, start, old)
    <3>1. CASE WindowFull
      <4>1. /\ slide = W_SIZE /\ strstart >= W_SIZE
            /\ start = strstart - W_SIZE /\ old = End - W_SIZE
        BY <3>1, <1>3, <1>5
      <4>2. /\ head' = [h \in HashKey |-> Slide(head[h])]
            /\ prev' = [p \in 0 .. W_SIZE - 1 |-> Slide(prev[p])]
        BY <3>1, <1>1, <1>16
      <4>3. \A i \in 0 .. End - W_SIZE - 1 : window'[i] = window[i + W_SIZE]
        BY <4>1, <1>11
      <4>4. End >= strstart
        BY <1>2
      <4>5. \A w2 : (\A i \in 0 .. End - W_SIZE - 1 : w2[i] = window[i + W_SIZE]) =>
              Dictionary([h \in HashKey |-> Slide(head[h])],
                         [p \in 0 .. W_SIZE - 1 |-> Slide(prev[p])],
                         w2, strstart - W_SIZE, strstart - W_SIZE, End - W_SIZE)
        BY <2>1, <4>1, <4>4, <1>2, <1>16, DictionarySlides
      <4>6. QED
        BY <4>1, <4>2, <4>3, <4>5
    <3>2. CASE ~ WindowFull
      <4>1. /\ slide = 0 /\ start = strstart /\ old = End
        BY <3>2, <1>2, <1>3, <1>5
      <4>2. head' = head /\ prev' = prev
        BY <3>2, <1>1
      <4>3. \A i \in 0 .. End - 1 : window'[i] = window[i]
        <5>1. \A i \in 0 .. End - 1 : i + 0 = i
          BY <1>2
        <5>2. QED
          BY <4>1, <5>1, <1>11
      <4>4. \A w2 : (\A i \in 0 .. End - 1 : w2[i] = window[i]) =>
              Dictionary(head, prev, w2, strstart, strstart, End)
        BY <2>1, <1>2, <1>16, DictionaryReads
      <4>5. QED
        BY <4>1, <4>2, <4>3, <4>4
    <3>3. QED
      BY <3>1, <3>2
  <2>3. Reach(start, start, curr) \subseteq Reach(start, start, old)
    <3>1. n = 0 \/ lookahead >= 3 \/ strstart = 0
      <4>1. n = 0 \/ ~ flush
        BY <1>13 DEF IndInv, Control
      <4>2. QED
        BY <4>1, Sizes DEF IndInv, Control
    <3>2. start <= strstart /\ start = strstart - slide /\ old = start + lookahead
      BY <1>2, <1>3, <1>5
    <3>3. CASE n = 0
      BY <3>3, <1>5
    <3>4. CASE lookahead >= 3
      BY <3>2, <3>4, <1>2, <1>3, <1>4, <1>5, Sizes DEF Reach
    <3>5. CASE strstart = 0
      BY <3>2, <3>5, <1>3 DEF Reach
    <3>6. QED
      BY <3>1, <3>3, <3>4, <3>5
  <2>4. old <= curr
    BY <1>4, <1>5
  <2>5. QED
    BY <2>2, <2>3, <2>4, <1>3, <1>5, <1>17, DictionaryNarrows
<1>19. start + MIN_MATCH <= curr =>
         UPDATE_HASH(ins_h', window'[start + 2]) = Key(window', start)
  <2>1. SUFFICES ASSUME start + MIN_MATCH <= curr
                 PROVE  UPDATE_HASH(ins_h', window'[start + 2]) = Key(window', start)
    OBVIOUS
  <2>2. /\ start \in 0 .. curr - 1 /\ start + 1 \in 0 .. curr - 1
        /\ lookahead + n >= MIN_MATCH /\ start \in Pos
    BY <2>1, <1>2, <1>3, <1>4, <1>5, Sizes DEF Pos
  <2>3. CASE n > 0
    <3>1. ins_h' = UPDATE_HASH(full[start], full[start + 1])
      BY <2>2, <2>3, <1>1 DEF StartKey
    <3>2. /\ full[start] = window'[start] /\ full[start + 1] = window'[start + 1]
          /\ window'[start] \in Byte
      BY <2>2, <1>10
    <3>3. QED
      BY <3>1, <3>2, KeyStarts DEF Key
  <2>4. CASE n = 0
    <3>1. /\ ins_h' = ins_h /\ lookahead >= 3 /\ curr = old
      BY <2>2, <2>4, <1>1, <1>2, <1>5, Sizes
    <3>2. NextKey(strstart) = Key(window, strstart)
      BY <3>1, <1>2, Sizes DEF IndInv, Chains
    <3>3. /\ start \in 0 .. old - 1 /\ start + 1 \in 0 .. old - 1
          /\ start + 2 \in 0 .. old - 1
          /\ start + slide = strstart /\ start + 1 + slide = strstart + 1
          /\ start + 2 + slide = strstart + 2
      BY <3>1, <1>2, <1>3, <1>5
    <3>4. /\ window'[start] = window[strstart] /\ window'[start + 1] = window[strstart + 1]
          /\ window'[start + 2] = window[strstart + 2]
      BY <3>3, <1>11
    <3>5. strstart + MIN_MATCH - 1 = strstart + 2
      BY <1>2, Sizes
    <3>6. QED
      BY <3>1, <3>2, <3>4, <3>5 DEF NextKey, Key
  <2>5. QED
    BY <2>3, <2>4, <1>4
<1>20. TypeOK'
  <2>1. /\ start \in 0 .. window_size /\ lookahead + n \in 0 .. window_size
    BY <1>2, <1>3, <1>4, <1>5, Sizes
  <2>2. high_water' \in 0 .. window_size
    BY <1>9, Sizes
  <2>3. QED
    BY <2>1, <2>2, <1>1, <1>10, <1>17 DEF IndInv, TypeOK, previous, search
<1>21. HistoryTyped'
  <2>1. match_start - slide \in Int
    BY <1>2, <1>3
  <2>2. match_start' \in Int /\ prev_match' \in Int
    BY <2>1, <1>1 DEF IndInv, HistoryTyped, previous
  <2>3. QED
    BY <2>2, <1>1, <1>9, <1>12, <1>13 DEF IndInv, HistoryTyped
<1>22. Control'
  <2>1. ASSUME lookahead + n < MIN_LOOKAHEAD
        PROVE  next_in' = <<>>
    <3>1. ~ (n = more + slide)
      BY <2>1, <1>2, <1>3, <1>4, Sizes DEF WindowFull
    <3>2. QED
      BY <3>1, <1>2, <1>4, <1>13
  <2>2. ~ flush => lookahead + n >= MIN_MATCH \/ start = 0
    BY <1>2, <1>3, <1>4, Sizes DEF IndInv, Control
  <2>3. flush => next_in' = <<>>
    BY <1>2, <1>4, <1>13 DEF IndInv, Control
  <2>4. match_available = 1 => start >= 1
    BY <1>2, <1>3, Sizes DEF IndInv, Control, WindowFull
  <2>5. QED
    BY <2>1, <2>2, <2>3, <2>4, <1>1, <1>3 DEF Control
<1>23. Data'
  <2>1. curr <= Len(text) + n
    BY <1>2, <1>3, <1>4, <1>5
  <2>2. ASSUME NEW i \in 0 .. curr - 1
        PROVE  window'[i] = text'[i + ((Len(text) + n) - curr) + 1]
    <3>1. CASE i < old
      <4>1. /\ i \in 0 .. old - 1 /\ i + slide \in 0 .. End - 1
            /\ (i + slide) + (Len(text) - End) + 1 = i + ((Len(text) + n) - curr) + 1
            /\ i + ((Len(text) + n) - curr) + 1 \in 1 .. Len(text)
        BY <3>1, <1>2, <1>3, <1>4, <1>5
      <4>2. window'[i] = window[i + slide]
        BY <4>1, <1>11
      <4>3. window[i + slide] = text[(i + slide) + (Len(text) - End) + 1]
        BY <4>1 DEF IndInv, Data
      <4>4. QED
        BY <4>1, <4>2, <4>3, <1>12
    <3>2. CASE ~ (i < old)
      <4>1. /\ i \in old .. curr - 1 /\ i - old + 1 \in 1 .. n
            /\ Len(text) + (i - old + 1) = i + ((Len(text) + n) - curr) + 1
        <5>1. i \in Nat /\ i >= old /\ i <= old + n - 1
          BY <3>2, <1>4, <1>5
        <5>2. i \in old .. curr - 1 /\ i - old + 1 \in 1 .. n
          BY <5>1, <1>4, <1>5
        <5>3. Len(text) + (i - old + 1) = i + ((Len(text) + n) - (old + n)) + 1
          <6>1. \A a, b, c, d \in Int : a + (b - c + 1) = b + ((a + d) - (c + d)) + 1
            OBVIOUS
          <6>2. Len(text) \in Int /\ i \in Int /\ old \in Int /\ n \in Int
            BY <5>1, <1>2, <1>4, <1>5
          <6>3. QED
            BY <6>1, <6>2
        <5>4. QED
          BY <5>2, <5>3, <1>5
      <4>2. QED
        BY <4>1, <1>11, <1>12
    <3>3. QED
      BY <3>1, <3>2
  <2>3. /\ End' = curr /\ Len(text') = Len(text) + n
        /\ high_water' >= window_size \/ high_water' >= curr + MAX_MATCH
        /\ written' >= high_water' /\ curr <= window_size
    BY <1>5, <1>9, <1>12, <1>14
  <2>4. \A i \in 0 .. End' - 1 : window'[i] = text'[i + (Len(text') - End') + 1]
    <3>1. SUFFICES ASSUME NEW i \in 0 .. End' - 1
                   PROVE  window'[i] = text'[i + (Len(text') - End') + 1]
      OBVIOUS
    <3>2. i \in 0 .. curr - 1
      BY <2>3
    <3>3. Len(text') - End' = (Len(text) + n) - curr
      BY <2>3
    <3>4. QED
      BY <3>2, <3>3, <2>2
  <2>5. End' <= window_size /\ End' <= Len(text')
    BY <2>1, <2>3
  <2>6. high_water' >= window_size \/ high_water' >= End' + MAX_MATCH
    BY <2>3
  <2>7. QED
    BY <2>3, <2>4, <2>5, <2>6 DEF Data
<1>24. Chains'
  <2>1. start + MIN_MATCH - 1 = start + 2
    BY <1>3, Sizes
  <2>2. QED
    BY <2>1, <1>1, <1>14, <1>18, <1>19 DEF Chains, NextKey
<1>25. Matches'
  <2>1. match_length' >= MIN_MATCH - 1
    BY <1>1, <1>2 DEF IndInv, Matches
  <2>2. Lazy(match_start, match_length)'
    <3>1. /\ (Len(text) + n) - (lookahead + n) - 1 = Len(text) - lookahead - 1
          /\ start - 1 - (match_start - slide) = strstart - 1 - match_start
      BY <1>2, <1>3, <1>4
    <3>2. ASSUME match_length >= MIN_MATCH
          PROVE  /\ match_available = 1
                 /\ strstart - 1 - match_start \in 1 .. MAX_DIST
                 /\ L!Repeats(text', Len(text) - lookahead - 1,
                              strstart - 1 - match_start, match_length)
      <4> DEFINE p == Len(text) - lookahead - 1
                 dist == strstart - 1 - match_start
      <4>1. /\ match_available = 1 /\ dist \in 1 .. MAX_DIST
            /\ dist \in 1 .. p /\ p + match_length <= Len(text)
            /\ \A j \in p + 1 .. p + match_length : text[j] = text[j - dist]
        BY <3>2, <1>2 DEF IndInv, Matches, Lazy, L!Repeats
      <4>2. p \in Int /\ dist \in Int
        BY <1>2
      <4>3. p + match_length <= Len(text')
        BY <4>1, <4>2, <1>2, <1>4, <1>12
      <4>4. ASSUME NEW j \in p + 1 .. p + match_length
            PROVE  text'[j] = text'[j - dist]
        <5>1. j \in 1 .. Len(text) /\ j - dist \in 1 .. Len(text)
          BY <4>1, <4>2, <1>2
        <5>2. QED
          BY <4>1, <5>1, <1>12
      <4>5. QED
        BY <4>1, <4>3, <4>4 DEF L!Repeats
    <3>3. /\ Len(text') - lookahead' - 1 = Len(text) - lookahead - 1
          /\ strstart' - 1 - match_start' = strstart - 1 - match_start
          /\ match_length' = match_length /\ match_available' = match_available
      <4>1. /\ Len(text') - lookahead' - 1 = (Len(text) + n) - (lookahead + n) - 1
            /\ strstart' - 1 - match_start' = start - 1 - (match_start - slide)
        <5>1. /\ Len(text') = Len(text) + n /\ lookahead' = lookahead + n
              /\ strstart' = start /\ match_start' = match_start - slide
          BY <1>1, <1>12
        <5>2. QED
          BY <5>1
      <4>2. QED
        BY <3>1, <4>1, <1>1
    <3>4. QED
      BY <3>2, <3>3 DEF Lazy
  <2>3. QED
    BY <2>1, <2>2, <1>1 DEF Matches
<1>26. QED
  BY <1>20, <1>21, <1>22, <1>23, <1>24, <1>25 DEF IndInv

----------------------------------------------------------------------------
(***************************************************************************)
(* The theorems.                                                           *)
(***************************************************************************)

LEMMA InvStep == IndInv /\ [Next]_vars => IndInv'
<1> SUFFICES ASSUME IndInv, [Next]_vars
             PROVE  IndInv'
  OBVIOUS
<1>1. CASE Caller
  BY <1>1, CompressInv, FinishInv DEF Caller
<1>2. CASE Engine
  BY <1>2, FillWindowInv, StarvedInv, InsertInv, ProbeInv, EmitMatchInv,
     SkipStringInv, EmitLiteralInv, DeferLiteralInv, FinishBlockInv DEF Engine
<1>3. CASE Done \/ UNCHANGED vars
  BY <1>3, StutterInv DEF Done
<1>4. QED
  BY <1>1, <1>2, <1>3 DEF Next

LEMMA IndInvHolds == Spec => []IndInv
BY InitInv, InvStep, PTL DEF Spec

\* Between two rounds every string a search may reach is on the chain of its
\* key, in order and on no other, and the running key is that of the string
\* inserted next: slide_hash, the reuse of prev[] and INSERT_STRING of
\* deflate.cpp keep the dictionary exact, for every input.
THEOREM DictionaryIsExact == Spec => []DictionaryExact
<1>1. ASSUME IndInv
      PROVE  DictionaryExact
  <2>1. TypeOK
    BY <1>1 DEF IndInv
  <2>2. ASSUME BetweenRounds, lookahead >= MIN_MATCH
        PROVE  /\ NextKey(strstart) = Key(window, strstart)
               /\ \A h \in HashKey : LeadsTo(head[h], Earlier(h, strstart))
               /\ \A p \in Live : LeadsTo(prev[p % W_SIZE], Earlier(Key(window, p), p))
    <3>1. /\ NextString = strstart /\ strstart \in Nat /\ lookahead \in Nat
          /\ End = strstart + lookahead /\ End \in Nat /\ End <= window_size
          /\ lookahead >= 3
      BY <1>1, <2>2, Sizes DEF IndInv, TypeOK, Data, NextString, End, BetweenRounds
    <3>2. NextKey(strstart) = Key(window, strstart)
      BY <1>1, <3>1, Sizes DEF IndInv, Chains
    <3>3. Dictionary(head, prev, window, strstart, strstart, End)
      BY <1>1, <3>1 DEF IndInv, Chains
    <3>4. Live = Reach(strstart, strstart, End)
      BY <3>1, Sizes DEF Live, Reach
    <3>5. \A p \in Live : p \in Nat /\ p >= 1 /\ p < strstart /\ strstart - p <= MAX_DIST
      BY <3>1 DEF Live
    <3>6. ASSUME NEW h \in HashKey
          PROVE  LeadsTo(head[h], Earlier(h, strstart))
      <4>1. head[h] \in Nat
        BY <2>1, Sizes DEF TypeOK, Pos
      <4>2. /\ head[h] = 0 \/ head[h] < strstart
            /\ head[h] \in Live => Key(window, head[h]) = h
            /\ \A p \in Live : Key(window, p) = h => p <= head[h]
        BY <3>3, <3>4 DEF Dictionary, Heads
      <4>3. head[h] # 0 /\ strstart - head[h] <= MAX_DIST => head[h] \in Earlier(h, strstart)
        BY <4>1, <4>2, <3>1 DEF Earlier, Live
      <4>4. ASSUME NEW q \in Earlier(h, strstart)
            PROVE  q <= head[h] /\ head[h] # 0 /\ strstart - head[h] <= MAX_DIST
        <5>1. q \in Live /\ q <= head[h]
          BY <4>2 DEF Earlier
        <5>2. QED
          BY <5>1, <4>1, <3>1, <3>5, Sizes
      <4>5. strstart - head[h] > MAX_DIST <=> ~ (strstart - head[h] <= MAX_DIST)
        BY <4>1, <3>1, Sizes
      <4>6. QED
        BY <4>3, <4>4, <4>5 DEF LeadsTo
    <3>7. ASSUME NEW p \in Live
          PROVE  LeadsTo(prev[p % W_SIZE], Earlier(Key(window, p), p))
      <4> DEFINE q == prev[p % W_SIZE]
      <4>1. q \in Nat
        <5>1. p % W_SIZE \in 0 .. W_SIZE - 1
          BY <3>1, <3>5, Wrap, Sizes
        <5>2. QED
          BY <5>1, <2>1, Sizes DEF TypeOK, Pos
      <4>2. /\ q < p
            /\ q \in Live => Key(window, q) = Key(window, p)
            /\ \A r \in Live : r < p /\ Key(window, r) = Key(window, p) => r <= q
        BY <3>3, <3>4 DEF Dictionary, Links
      <4> HIDE DEF q
      <4>3. q # 0 /\ strstart - q <= MAX_DIST => q \in Earlier(Key(window, p), p)
        BY <4>1, <4>2, <3>1, <3>5 DEF Earlier, Live
      <4>4. ASSUME NEW r \in Earlier(Key(window, p), p)
            PROVE  r <= q /\ q # 0 /\ strstart - q <= MAX_DIST
        <5>1. r \in Live /\ r <= q
          BY <4>2 DEF Earlier
        <5>2. QED
          BY <5>1, <4>1, <3>1, <3>5, Sizes
      <4>5. strstart - q > MAX_DIST <=> ~ (strstart - q <= MAX_DIST)
        BY <4>1, <3>1, Sizes
      <4>6. LeadsTo(q, Earlier(Key(window, p), p))
        BY <4>3, <4>4, <4>5 DEF LeadsTo
      <4>7. QED
        BY <4>6 DEF q
    <3>8. QED
      BY <3>2, <3>6, <3>7
  <2>3. QED
    BY <2>1, <2>2 DEF DictionaryExact, KeyIsRunning, ChainsExact
<1>2. QED
  BY <1>1, IndInvHolds, PTL

\* The walk of longest_match goes back with every link, reads no byte that was
\* never written, and what it returns is a match within the lookahead.
THEOREM SearchSound == Spec => []SearchIsSound
<1>1. ASSUME IndInv
      PROVE  SearchIsSound
  <2>1. WalkDescends
    BY <1>1, NextLink DEF WalkDescends
  <2>2. ReadsInitialised
    <3>1. SUFFICES ASSUME pc = "search"
                   PROVE  /\ strstart + MAX_MATCH < window_size
                          /\ strstart + MAX_MATCH < written
      BY DEF ReadsInitialised
    <3>2. /\ strstart \in Nat /\ lookahead \in Nat /\ lookahead >= 3
          /\ strstart + MAX_MATCH + 4 <= window_size
          /\ End = strstart + lookahead
      BY <1>1, <3>1, SearchFacts
    <3>3. /\ high_water >= window_size \/ high_water >= End + MAX_MATCH
          /\ written >= high_water /\ written \in Nat /\ high_water \in Nat
      BY <1>1, <3>2, Sizes DEF IndInv, Data, TypeOK, HistoryTyped
    <3>4. QED
      BY <3>2, <3>3, Sizes
  <2>3. MatchIsReal
    <3>1. SUFFICES ASSUME pc = "decide", match_length >= MIN_MATCH,
                          match_length > prev_length
                   PROVE  /\ match_length <= lookahead
                          /\ strstart - match_start \in 1 .. MAX_DIST
                          /\ \A i \in 0 .. match_length - 1 :
                               window[match_start + i] = window[strstart + i]
      BY DEF MatchIsReal
    <3>2. Same(match_start, match_length) /\ match_length <= lookahead
      BY <1>1, <3>1 DEF IndInv, Matches
    <3>3. strstart \in Nat
      BY <1>1, Sizes DEF IndInv, TypeOK
    <3>4. strstart - match_start \in 1 .. MAX_DIST
      BY <3>2, <3>3, Sizes DEF Same
    <3>5. QED
      BY <3>2, <3>4 DEF Same
  <2>4. QED
    BY <2>1, <2>2, <2>3 DEF SearchIsSound
<1>2. QED
  BY <1>1, IndInvHolds, PTL

\* No byte of the text is overwritten before it has slid out of the window, and
\* when the stream is finished all of it has been coded.
THEOREM TextKept == Spec => []TextIsKept
<1>1. ASSUME IndInv
      PROVE  TextIsKept
  <2>1. WindowHoldsText
    <3>1. /\ \A i \in 0 .. End - 1 : window[i] = text[i + (Len(text) - End) + 1]
          /\ Len(text) \in Int /\ End \in Int
      BY <1>1, Sizes DEF IndInv, Data, TypeOK, HistoryTyped, End
    <3>2. \A i \in 0 .. End - 1 : i + (Len(text) - End) + 1 = i + Len(text) - End + 1
      BY <3>1
    <3>3. QED
      BY <3>1, <3>2 DEF WindowHoldsText
  <2>2. AllCoded
    BY <1>1 DEF IndInv, Control, AllCoded
  <2>3. QED
    BY <2>1, <2>2 DEF TextIsKept
<1>2. QED
  BY <1>1, IndInvHolds, PTL

----------------------------------------------------------------------------
(***************************************************************************)
(* deflate_slow() implements the match finder of LZ77.                     *)
(***************************************************************************)

\* What FillWindow reads is appended to the text.
LEMMA FillReads ==
  IndInv /\ FillWindow =>
    \E k \in Nat : /\ lookahead' = lookahead + k
                   /\ Len(text') = Len(text) + k
                   /\ L!IsPrefix(text, text')
<1> SUFFICES ASSUME IndInv, FillWindow
             PROVE  \E k \in Nat : /\ lookahead' = lookahead + k
                                   /\ Len(text') = Len(text) + k
                                   /\ L!IsPrefix(text, text')
  OBVIOUS
<1> DEFINE slide == IF WindowFull THEN W_SIZE ELSE 0
           room == window_size - lookahead - strstart + slide
           k == MIN(Len(next_in), room)
           bytes == SubSeq(next_in, 1, k)
<1>1. /\ next_in \in Seq(Byte) /\ text \in Seq(Byte)
      /\ Len(next_in) \in Nat /\ Len(text) \in Nat /\ room \in Nat
  <2>1. /\ strstart \in Nat /\ lookahead \in Nat /\ strstart + lookahead <= window_size
    <3>1. strstart \in Nat /\ lookahead \in Nat /\ End = strstart + lookahead
      BY Sizes DEF IndInv, TypeOK, End, FillWindow
    <3>2. QED
      BY <3>1 DEF IndInv, Data
  <2>2. slide \in Nat
    BY Sizes
  <2>3. room \in Nat
    <3> HIDE DEF slide
    <3>1. QED
      BY <2>1, <2>2, Sizes
  <2>4. QED
    BY <2>3 DEF IndInv, HistoryTyped
<1>2. lookahead' = lookahead + k /\ text' = text \o bytes
  BY DEF FillWindow
<1> HIDE DEF room
<1>3. k \in Nat /\ k <= Len(next_in)
  BY <1>1 DEF MIN
<1> HIDE DEF k
<1>4. bytes \in Seq(Byte) /\ Len(bytes) = k
  <2>1. \A j \in 1 .. k : next_in[j] \in Byte
    BY <1>1, <1>3
  <2>2. bytes \in Seq(Byte) /\ Len(bytes) = IF 1 <= k THEN k - 1 + 1 ELSE 0
    BY <2>1, <1>3, SubSeqProperties
  <2>3. QED
    BY <2>2, <1>3
<1> HIDE DEF bytes
<1>5. /\ text \o bytes \in Seq(Byte)
      /\ Len(text \o bytes) = Len(text) + k
  BY <1>1, <1>4, ConcatProperties
<1>6. L!IsPrefix(text, text \o bytes)
  <2>1. SubSeq(text, 1, Len(text)) = SubSeq(text \o bytes, 1, Len(text))
    <3>1. CASE Len(text) = 0
      BY <3>1, SubSeqEmpty
    <3>2. CASE Len(text) # 0
      <4>1. 1 \in 1 .. Len(text) /\ Len(text) \in 1 .. Len(text)
        BY <3>2, <1>1
      <4>2. QED
        BY <4>1, <1>1, <1>4, SubSeqOfConcat1
    <3>3. QED
      BY <3>1, <3>2
  <2>2. Len(text) <= Len(text \o bytes)
    BY <1>1, <1>3, <1>5
  <2>3. QED
    BY <2>1, <2>2 DEF L!IsPrefix
<1>7. QED
  BY <1>2, <1>3, <1>5, <1>6

\* The byte before strstart is the first one not coded.
LEMMA WaitingByte ==
  ASSUME IndInv, pc # "skip", match_available = 1
  PROVE  /\ Len(text) - lookahead - 1 < Len(text)
         /\ window[strstart - 1] = text[(Len(text) - lookahead - 1) + 1]
<1>1. /\ strstart \in Nat /\ strstart >= 1 /\ lookahead \in Nat
      /\ End = strstart + lookahead /\ Len(text) \in Nat
  BY Sizes DEF IndInv, TypeOK, HistoryTyped, Control, End
<1>2. strstart - 1 \in 0 .. End - 1
  BY <1>1
<1>3. window[strstart - 1] = text[(strstart - 1) + (Len(text) - End) + 1]
  BY <1>2 DEF IndInv, Data
<1>4. (strstart - 1) + (Len(text) - End) + 1 = (Len(text) - lookahead - 1) + 1
  BY <1>1
<1>5. QED
  BY <1>1, <1>3, <1>4

\* A step that reads, codes and forgets nothing.
LEMMA LeavesSymbols ==
  IndInv /\ UNCHANGED <<text, symbol, lookahead>> /\ Waiting' = Waiting
    => UNCHANGED L!vars
BY DEF L!vars

LEMMA LZ77Step == IndInv /\ [Next]_vars => [L!Next]_(L!vars)
<1> SUFFICES ASSUME IndInv, [Next]_vars
             PROVE  L!Next \/ UNCHANGED L!vars
  OBVIOUS
<1> DEFINE coded == Len(text) - lookahead - Waiting
<1>1. /\ lookahead \in Nat /\ Len(text) \in Nat /\ match_available \in {0, 1}
      /\ coded \in Int
  BY Sizes DEF IndInv, TypeOK, HistoryTyped, Waiting
<1>2. ASSUME NEW word \in Words, Compress(word)
      PROVE  UNCHANGED L!vars
  BY <1>2, LeavesSymbols DEF Compress, Waiting
<1>3. CASE Finish \/ Starved \/ Done \/ UNCHANGED vars
  BY <1>3, LeavesSymbols DEF Finish, Starved, Done, vars, Waiting
<1>4. CASE FillWindow
  <2>1. PICK k \in Nat : /\ lookahead' = lookahead + k
                         /\ Len(text') = Len(text) + k
                         /\ L!IsPrefix(text, text')
    BY <1>4, FillReads
  <2>2. Waiting' = Waiting /\ symbol' = symbol /\ Waiting \in {0, 1}
    BY <1>1, <1>4 DEF FillWindow, Waiting
  <2>3. (Len(text) + k) - (lookahead + k) - Waiting = Len(text) - lookahead - Waiting
    BY <1>1, <2>2
  <2>4. Len(text') - lookahead' - Waiting' = Len(text) - lookahead - Waiting
    BY <2>1, <2>2, <2>3
  <2>5. L!Extend
    BY <2>1, <2>2, <2>4 DEF L!Extend
  <2>6. QED
    BY <2>5 DEF L!Next
<1>5. CASE Insert \/ Probe
  <2>1. /\ UNCHANGED <<text, symbol, lookahead, match_available>>
        /\ pc # "skip" /\ pc' # "skip"
    BY <1>5 DEF Insert, Ready, Probe
  <2>2. QED
    BY <2>1, LeavesSymbols DEF Waiting
<1>6. CASE EmitMatch
  <2>1. /\ pc = "decide" /\ prev_length >= 3 /\ prev_length \in Nat
        /\ prev_length <= MAX_MATCH
        /\ symbol' = L!Match(Distance, prev_length)
        /\ lookahead' = lookahead - (prev_length - 1) /\ text' = text
        /\ pc' = "skip"
    BY <1>6, Sizes DEF EmitMatch, IndInv, TypeOK
  <2>2. /\ match_available = 1 /\ Distance \in 1 .. MAX_DIST
        /\ L!Repeats(text, Len(text) - lookahead - 1, Distance, prev_length)
    BY <2>1, Sizes DEF IndInv, Matches, Lazy, Distance
  <2>3. /\ Waiting = 1 /\ Waiting' = 0
    BY <2>1, <2>2 DEF Waiting
  <2>4. Len(text) - (lookahead - (prev_length - 1)) - 0
          = (Len(text) - lookahead - 1) + prev_length
    BY <1>1, <2>1
  <2>5. Len(text') - lookahead' - Waiting'
          = (Len(text) - lookahead - Waiting) + prev_length
    BY <2>1, <2>3, <2>4
  <2>6. Distance \in 1 .. MAX_DIST /\ prev_length \in MIN_MATCH .. MAX_MATCH
    BY <2>1, <2>2, Sizes
  <2>7. L!CodeMatch
    BY <2>1, <2>2, <2>3, <2>5, <2>6 DEF L!CodeMatch
  <2>8. QED
    BY <2>7 DEF L!Next
<1>7. CASE SkipString
  <2>1. /\ UNCHANGED <<text, symbol, lookahead>> /\ pc = "skip"
        /\ pc' = "skip" \/ (pc' = "body" /\ match_available' = 0)
    BY <1>7 DEF SkipString
  <2>2. QED
    BY <2>1, LeavesSymbols DEF Waiting
<1>8. CASE EmitLiteral
  <2>1. /\ pc = "decide" /\ pc' = "body" /\ text' = text
        /\ match_available = 1 /\ match_available' = 1
        /\ symbol' = L!Literal(window[strstart - 1])
        /\ lookahead' = lookahead - 1
    BY <1>8 DEF EmitLiteral
  <2>2. /\ Len(text) - lookahead - 1 < Len(text)
        /\ window[strstart - 1] = text[(Len(text) - lookahead - 1) + 1]
    BY <2>1, WaitingByte
  <2>3. Waiting = 1 /\ Waiting' = 1
    BY <2>1 DEF Waiting
  <2>4. Len(text) - (lookahead - 1) - 1 = (Len(text) - lookahead - 1) + 1
    BY <1>1
  <2>5. Len(text') - lookahead' - Waiting' = (Len(text) - lookahead - Waiting) + 1
    BY <2>1, <2>3, <2>4
  <2>6. L!CodeLiteral
    BY <2>1, <2>2, <2>3, <2>5 DEF L!CodeLiteral
  <2>7. QED
    BY <2>6 DEF L!Next
<1>9. CASE DeferLiteral
  <2>1. /\ pc = "decide" /\ pc' = "body" /\ text' = text /\ symbol' = symbol
        /\ match_available = 0 /\ match_available' = 1
        /\ lookahead' = lookahead - 1
    BY <1>9 DEF DeferLiteral
  <2>2. Waiting = 0 /\ Waiting' = 1
    BY <2>1 DEF Waiting
  <2>3. Len(text) - (lookahead - 1) - 1 = Len(text) - lookahead - 0
    BY <1>1
  <2>4. Len(text') - lookahead' - Waiting' = Len(text) - lookahead - Waiting
    BY <2>1, <2>2, <2>3
  <2>5. QED
    BY <2>1, <2>4 DEF L!vars
<1>10. CASE FinishBlock
  <2>1. /\ pc = "filled" /\ pc' = "done" /\ text' = text /\ lookahead' = lookahead
        /\ match_available' = 0 /\ lookahead = 0
        /\ symbol' = IF match_available = 1 THEN L!Literal(window[strstart - 1])
                     ELSE symbol
    BY <1>10 DEF FinishBlock, AllBehind
  <2>2. Waiting = match_available /\ Waiting' = 0
    BY <2>1 DEF Waiting
  <2>3. CASE match_available = 1
    <3>1. /\ Len(text) - lookahead - 1 < Len(text)
          /\ window[strstart - 1] = text[(Len(text) - lookahead - 1) + 1]
      BY <2>1, <2>3, WaitingByte
    <3>2. Len(text) - lookahead - 0 = (Len(text) - lookahead - 1) + 1
      BY <1>1
    <3>3. Len(text') - lookahead' - Waiting' = (Len(text) - lookahead - Waiting) + 1
      BY <2>1, <2>2, <2>3, <3>2
    <3>4. L!CodeLiteral
      BY <2>1, <2>2, <2>3, <3>1, <3>3 DEF L!CodeLiteral
    <3>5. QED
      BY <3>4 DEF L!Next
  <2>4. CASE match_available = 0
    BY <2>1, <2>2, <2>4, LeavesSymbols
  <2>5. QED
    BY <1>1, <2>3, <2>4
<1>11. QED
  BY <1>2, <1>3, <1>4, <1>5, <1>6, <1>7, <1>8, <1>9, <1>10
  DEF Next, Caller, Engine

\* The symbols spell the text: every literal is the next byte, every match a
\* copy of text at most MAX_DIST back, from where the last symbol ended.
THEOREM SymbolsSpellTheText == Spec => SymbolsSpellText
<1>1. Init => L!Init
  BY DEF Init, L!Init, Waiting
<1>2. QED
  BY <1>1, LZ77Step, IndInvHolds, PTL DEF Spec, SymbolsSpellText, L!Spec

=============================================================================
