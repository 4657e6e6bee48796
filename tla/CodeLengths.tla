---------------------------- MODULE CodeLengths ----------------------------
(***************************************************************************)
(* The head of a dynamic block: the lengths of the literal and distance    *)
(* codes, with runs of equal lengths cut into repeat codes.  The encoder   *)
(* is scan_tree(), build_bl_tree(), send_tree() and send_all_trees() of    *)
(* src/zlib/trees.cpp, the decoder the modes TABLE, LENLENS and CODELENS   *)
(* of inflate().  The decoder is also run on streams no encoder sends.     *)
(***************************************************************************)
EXTENDS Integers, FiniteSets, SequencesExt

CONSTANTS
  Lens,                    \* code lengths (0 .. 15)
  L_CODES, D_CODES,        \* most literal/length and distance codes (286, 30)
  EndCode,                 \* the symbol every literal code has (256)
  REP, REPZ, REPZ_LONG,    \* symbols REP_3_6, REPZ_3_10, REPZ_11_138
  RepBits, ZBits, LongBits,  \* their extra bits (2, 3, 7)
  bl_order                 \* all symbols, the likely ones first

\* The longest runs of the three repeat codes (6, 10, 138).
RepMax == 2 + 2 ^ RepBits
ZMax == 2 + 2 ^ ZBits
LongMax == ZMax + 2 ^ LongBits

BlSymbols == Lens \cup {REP, REPZ, REPZ_LONG}
BL_CODES == Len(bl_order)

LensAssumption == 0 \in Lens /\ Lens \subseteq Nat
OrderAssumption ==
  /\ bl_order \in Seq(BlSymbols) /\ BL_CODES > 4
  /\ ToSet(bl_order) = BlSymbols /\ IsInjective(bl_order)
SymbolsAssumption ==
  /\ L_CODES \in Nat /\ D_CODES \in Nat /\ EndCode \in 0 .. L_CODES - 1
  /\ {REP, REPZ, REPZ_LONG} \cap Lens = {}
  /\ REP # REPZ /\ REP # REPZ_LONG /\ REPZ # REPZ_LONG
  /\ {RepBits, ZBits, LongBits} \subseteq 1 .. 7

VARIABLES
  ltree, dtree,      \* the lengths of the encoder's two codes, from symbol 0
  freq,              \* bl_tree[].Freq: how often each symbol is to be sent
  sent,              \* the symbols sent: [code, extra]
  bl_sent,           \* the lengths of their codes, as many as are sent
  honest,            \* the stream is the encoder's
  mode,
  nlen, ndist,
  bl_lens,           \* the lengths of the symbols' codes, as received
  lens, have         \* the lengths received

enc == <<ltree, dtree, freq, sent, bl_sent, honest>>
dec == <<nlen, ndist, bl_lens, lens, have>>
vars == <<enc, mode, dec>>

----------------------------------------------------------------------------
(***************************************************************************)
(* The encoder.                                                            *)
(***************************************************************************)

\* Limits for the next run, after one of cur: how long it may be, and how
\* long to be coded as a repeat.
Limits(cur, next) ==
  IF next = 0 THEN [max |-> LongMax, min |-> 3]
  ELSE IF cur = next THEN [max |-> RepMax, min |-> 3]
  ELSE [max |-> RepMax + 1, min |-> 4]

\* After the last length comes a guard.
nextlen(tree, n) == IF n = Len(tree) THEN -1 ELSE tree[n + 1]

\* The loop of scan_tree() and send_tree(), n lengths on: how many are waiting
\* to be coded, the one coded before them, and the limits for their run.
Continues(tree, s, n) == s.count + 1 < s.lim.max /\ tree[n] = nextlen(tree, n)

Walk(tree) ==
  LET walk[n \in 0 .. Len(tree)] ==
        IF n = 0 THEN [count |-> 0, prevlen |-> -1, lim |-> Limits(-1, tree[1])]
        ELSE LET s == walk[n - 1]
             IN  IF Continues(tree, s, n) THEN [s EXCEPT !.count = s.count + 1]
                 ELSE [count |-> 0, prevlen |-> tree[n],
                       lim |-> Limits(tree[n], nextlen(tree, n))]
  IN  walk

\* The run that ends with length n.
RunTo(tree, s, n) ==
  [len |-> tree[n], count |-> s.count + 1, min |-> s.lim.min, prevlen |-> s.prevlen]

\* scan_tree(): what one run adds to the frequency of symbol c.
Scanned(run, c) ==
  IF run.count < run.min THEN IF c = run.len THEN run.count ELSE 0
  ELSE IF run.len # 0
    THEN IF c = REP \/ (c = run.len /\ run.len # run.prevlen) THEN 1 ELSE 0
  ELSE IF run.count <= ZMax THEN IF c = REPZ THEN 1 ELSE 0
  ELSE IF c = REPZ_LONG THEN 1 ELSE 0

Counted(freqs, run) == [c \in BlSymbols |-> freqs[c] + Scanned(run, c)]

Code(c) == [code |-> c, extra |-> 0]
Repeat(c, extra) == [code |-> c, extra |-> extra]

SentRun_CountKept(run) ==
  IF run.count < run.min THEN [i \in 1 .. run.count |-> Code(run.len)]
  ELSE IF run.len # 0
    THEN IF run.len # run.prevlen THEN <<Code(run.len), Repeat(REP, run.count - 3)>>
         ELSE <<Repeat(REP, run.count - 3)>>
  ELSE IF run.count <= ZMax THEN <<Repeat(REPZ, run.count - 3)>>
  ELSE <<Repeat(REPZ_LONG, run.count - ZMax - 1)>>

\* send_tree(): what is sent for one run.
SentRun(run) ==
  IF run.count < run.min THEN [i \in 1 .. run.count |-> Code(run.len)]
  ELSE IF run.len # 0
    THEN IF run.len # run.prevlen THEN <<Code(run.len), Repeat(REP, run.count - 4)>>
         ELSE <<Repeat(REP, run.count - 3)>>
  ELSE IF run.count <= ZMax THEN <<Repeat(REPZ, run.count - 3)>>
  ELSE <<Repeat(REPZ_LONG, run.count - ZMax - 1)>>

\* The frequencies with those of a tree's lengths added.
scan_tree(freqs, tree) ==
  LET walk == Walk(tree)
      scanned[n \in 0 .. Len(tree)] ==
        IF n = 0 THEN freqs
        ELSE LET s == walk[n - 1]
             IN  IF Continues(tree, s, n) THEN scanned[n - 1]
                 ELSE Counted(scanned[n - 1], RunTo(tree, s, n))
  IN  scanned[Len(tree)]

\* The symbols with those of a tree's lengths behind them.
send_tree(symbols, tree) ==
  LET walk == Walk(tree)
      out[n \in 0 .. Len(tree)] ==
        IF n = 0 THEN symbols
        ELSE LET s == walk[n - 1]
             IN  IF Continues(tree, s, n) THEN out[n - 1]
                 ELSE out[n - 1] \o SentRun(RunTo(tree, s, n))
  IN  out[Len(tree)]

\* The trees an encoder has: the last symbol of each occurs, and EndCode.
Trees(least, most) ==
  UNION {{t \in [1 .. n -> Lens] : t[n] # 0} : n \in least .. most}

LiteralTrees == {t \in Trees(EndCode + 1, L_CODES) : t[EndCode + 1] # 0}

\* The code lengths of the symbols themselves: only whether they have a code
\* matters here.
BlLen(c) == IF freq[c] # 0 THEN 1 ELSE 0

\* The last symbol whose length is sent; four are sent at least.
max_blindex(len) == CHOOSE i \in 4 .. BL_CODES :
  /\ i = 4 \/ len[bl_order[i]] # 0
  /\ \A k \in i + 1 .. BL_CODES : len[bl_order[k]] = 0

Zeros == [c \in BlSymbols |-> 0]
NoLens == [n \in 0 .. L_CODES + D_CODES - 1 |-> -1]

Init ==
  /\ \/ honest = TRUE /\ ltree \in LiteralTrees /\ dtree \in Trees(1, D_CODES)
     \/ honest = FALSE /\ ltree = <<>> /\ dtree = <<>>
  /\ freq = Zeros /\ sent = <<>> /\ bl_sent = <<>>
  /\ mode = "encode"
  /\ nlen = 0 /\ ndist = 0 /\ bl_lens = Zeros /\ lens = NoLens /\ have = 0

build_bl_tree ==
  /\ mode = "encode" /\ honest
  /\ freq' = scan_tree(scan_tree(freq, ltree), dtree)
  /\ mode' = "send"
  /\ UNCHANGED <<ltree, dtree, sent, bl_sent, honest, dec>>

send_all_trees ==
  /\ mode = "send"
  /\ nlen' = Len(ltree) /\ ndist' = Len(dtree)
  /\ bl_sent' = [i \in 1 .. max_blindex([c \in BlSymbols |-> BlLen(c)]) |->
                   BlLen(bl_order[i])]
  /\ sent' = send_tree(send_tree(<<>>, ltree), dtree)
  /\ mode' = "TABLE"
  /\ UNCHANGED <<ltree, dtree, freq, honest, bl_lens, lens, have>>

\* Another stream: any counts, and symbols chosen as they are read.
Arbitrary ==
  /\ mode = "encode" /\ ~honest
  /\ nlen' \in EndCode + 1 .. L_CODES + 1 /\ ndist' \in 1 .. D_CODES + 1
  /\ bl_sent' = [i \in 1 .. BL_CODES |-> 1]
  /\ mode' = "TABLE"
  /\ UNCHANGED <<ltree, dtree, freq, sent, honest, bl_lens, lens, have>>

----------------------------------------------------------------------------
(***************************************************************************)
(* The decoder.                                                            *)
(***************************************************************************)

TooMany == nlen > L_CODES \/ ndist > D_CODES

Table ==
  /\ mode = "TABLE"
  /\ have' = 0
  /\ mode' = IF TooMany THEN "BAD" ELSE "LENLENS"
  /\ UNCHANGED <<enc, nlen, ndist, bl_lens, lens>>

\* Lengths not sent are 0.
LenLens ==
  /\ mode = "LENLENS"
  /\ bl_lens' = [c \in BlSymbols |->
                   LET i == CHOOSE k \in 1 .. BL_CODES : bl_order[k] = c
                   IN  IF i <= Len(bl_sent) THEN bl_sent[i] ELSE 0]
  /\ have' = 0
  /\ mode' = "CODELENS"
  /\ UNCHANGED <<enc, nlen, ndist, lens>>

\* The symbols that can be read: one with a code.
Readable ==
  IF honest THEN IF sent = <<>> THEN {} ELSE {Head(sent)}
  ELSE {Code(c) : c \in Lens}
         \cup {Repeat(REP, e) : e \in 0 .. 2 ^ RepBits - 1}
         \cup {Repeat(REPZ, e) : e \in 0 .. 2 ^ ZBits - 1}
         \cup {Repeat(REPZ_LONG, e) : e \in 0 .. 2 ^ LongBits - 1}

Count(s) ==
  CASE s.code \in Lens -> 1
    [] s.code \in {REP, REPZ} -> 3 + s.extra
    [] s.code = REPZ_LONG -> ZMax + 1 + s.extra

InvalidRepeat_Unchecked(s) == s.code = REP /\ have = 0

\* A repeat of nothing, or past the end of both codes.
InvalidRepeat(s) ==
  \/ s.code = REP /\ have = 0
  \/ s.code \notin Lens /\ have + Count(s) > nlen + ndist

Repeated(s) ==
  CASE s.code \in Lens -> s.code
    [] s.code = REP -> lens[have - 1]
    [] s.code \in {REPZ, REPZ_LONG} -> 0

CodeLen(s) ==
  /\ mode = "CODELENS" /\ have < nlen + ndist
  /\ IF InvalidRepeat(s)
       THEN mode' = "BAD" /\ UNCHANGED <<lens, have>>
       ELSE /\ lens' = [n \in DOMAIN lens |->
                          IF n \in have .. have + Count(s) - 1 THEN Repeated(s)
                          ELSE lens[n]]
            /\ have' = have + Count(s)
            /\ mode' = mode
  /\ sent' = IF honest THEN Tail(sent) ELSE sent
  /\ UNCHANGED <<ltree, dtree, freq, bl_sent, honest, nlen, ndist, bl_lens>>

\* There must be an end-of-block code.
CodeLens ==
  /\ mode = "CODELENS" /\ have >= nlen + ndist
  /\ mode' = IF lens[EndCode] = 0 THEN "BAD" ELSE "done"
  /\ UNCHANGED <<enc, dec>>

Done == mode \in {"done", "BAD"} /\ UNCHANGED vars

Next ==
  \/ build_bl_tree \/ send_all_trees \/ Arbitrary
  \/ Table \/ LenLens \/ (\E s \in Readable : CodeLen(s)) \/ CodeLens
  \/ Done

Spec == Init /\ [][Next]_vars

----------------------------------------------------------------------------
(***************************************************************************)
(* Properties.                                                             *)
(***************************************************************************)

TypeOK ==
  /\ mode \in {"encode", "send", "TABLE", "LENLENS", "CODELENS", "done", "BAD"}
  /\ have \in 0 .. L_CODES + D_CODES
  /\ nlen \in 0 .. L_CODES + 1 /\ ndist \in 0 .. D_CODES + 1
  /\ \A n \in DOMAIN lens : lens[n] \in Lens \cup {-1}

\* What an encoder sends is received: both codes, in full and no more of the
\* stream, though the decoder does not know where the first one ends.
RoundTrip ==
  mode = "done" /\ honest =>
    /\ sent = <<>>
    /\ \A n \in 0 .. nlen - 1 : lens[n] = ltree[n + 1]
    /\ \A n \in 0 .. ndist - 1 : lens[nlen + n] = dtree[n + 1]

\* What an encoder sends is accepted.
NeverRejected == honest => mode # "BAD"

\* scan_tree() and send_tree() walk the lengths apart, but what is counted is
\* what is sent: a symbol sent without having been counted has no code.
CountsMatch ==
  mode = "TABLE" /\ honest =>
    \A c \in BlSymbols :
      freq[c] = Cardinality({i \in DOMAIN sent : sent[i].code = c})

\* The count of a repeat fits the bits it is sent in.
ExtraFits ==
  \A i \in DOMAIN sent :
    sent[i].extra \in 0 .. (CASE sent[i].code \in Lens -> 0
                              [] sent[i].code = REP -> 2 ^ RepBits - 1
                              [] sent[i].code = REPZ -> 2 ^ ZBits - 1
                              [] sent[i].code = REPZ_LONG -> 2 ^ LongBits - 1)

\* The lengths of the symbols' codes arrive, those left out at the end of
\* the order included.
BlLensArrive ==
  mode = "CODELENS" /\ honest => \A c \in BlSymbols : bl_lens[c] = BlLen(c)

\* No stream makes the decoder fill more or less than the lengths announced,
\* or accept a code without an end of block.
ExactlyFilled ==
  /\ \A n \in DOMAIN lens : lens[n] # -1 <=> n < have
  /\ mode = "CODELENS" => have <= nlen + ndist
  /\ mode = "done" => have = nlen + ndist /\ lens[EndCode] # 0

=============================================================================
