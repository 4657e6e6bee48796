----------------------------- MODULE HashChains -----------------------------
(***************************************************************************)
(* How deflate_slow() of src/zlib/deflate.cpp finds its matches: the       *)
(* window with its bytes, the hash table head[] with the chains prev[],    *)
(* INSERT_STRING, fill_window() with slide_hash(), and the walk along one  *)
(* chain in longest_match().  It is the data that module Deflate leaves    *)
(* out; the call protocol and the output are left out here, where a call   *)
(* always finds room for its output.                                       *)
(*                                                                         *)
(* Positions in the window are 0 .. 2 * W_SIZE - 1 as in the code, bytes   *)
(* of the text are 1 .. Len(text).  A byte and a hash key are the set of   *)
(* their one bits, so that a shift adds to the members, ^ is the symmetric *)
(* difference and & an intersection.                                       *)
(***************************************************************************)
EXTENDS Integers, Sequences

CONSTANTS
  Words,             \* pieces of input the caller passes
  MaxIn,             \* bound on the input
  W_SIZE,            \* window size (32768 in the code)
  MAX_MATCH,         \* longest match (258)
  BYTE_BITS,         \* bits in a byte (8)
  HASH_BITS,         \* bits of a hash key (15)
  TOO_FAR,           \* a shortest match further back is dropped (4096)
  max_lazy_match, good_match, nice_match, max_chain_length  \* a table row

MIN_MATCH == 3
MIN_LOOKAHEAD == MAX_MATCH + MIN_MATCH + 1
MAX_DIST == W_SIZE - MIN_LOOKAHEAD
window_size == 2 * W_SIZE
Byte == SUBSET (0 .. BYTE_BITS - 1)
HashKey == SUBSET (0 .. HASH_BITS - 1)
hash_shift == (HASH_BITS + MIN_MATCH - 1) \div MIN_MATCH

ASSUME SizeAssumption ==
  /\ MAX_MATCH \in Nat /\ MAX_MATCH >= MIN_MATCH
  /\ W_SIZE \in Nat /\ W_SIZE > MIN_LOOKAHEAD
ASSUME HashAssumption ==
  BYTE_BITS \in Nat /\ HASH_BITS \in Nat /\ HASH_BITS >= BYTE_BITS
ASSUME WordsAssumption == Words \subseteq Seq(Byte)
\* "the deflate() code requires max_lazy >= MIN_MATCH and max_chain >= 4"
ASSUME TableAssumption ==
  /\ {max_lazy_match, good_match, nice_match, max_chain_length, TOO_FAR} \subseteq Nat
  /\ max_lazy_match >= MIN_MATCH /\ max_chain_length >= 4

VARIABLES
  next_in,           \* input the caller has passed, not yet read
  window,            \* the bytes
  high_water,        \* the window is initialised up to here
  strstart, lookahead,
  ins_h, head, prev, \* the hash of the string to be inserted, the chains
  match_start, match_length, match_available,
  prev_length, prev_match,
  cur_match, chain_length, best_len,   \* locals of longest_match
  max_insert,        \* local of deflate_slow: strings after it are not inserted
  flush,             \* the running call finishes the stream
  pc,
  text, symbol,      \* history: all bytes read, the last symbol coded
  written            \* history: window bytes written since construction

hash == <<ins_h, head, prev>>
search == <<cur_match, chain_length, best_len>>
previous == <<prev_length, prev_match>>
vars == <<next_in, window, high_water, strstart, lookahead, hash, match_start,
          match_length, match_available, previous, search, max_insert, flush,
          pc, text, symbol, written>>

MIN(a, b) == IF a > b THEN b ELSE a

\* The byte before strstart that is not coded yet: none while the strings
\* under a match just coded are inserted.
Waiting == IF pc = "skip" THEN 0 ELSE match_available

L == INSTANCE LZ77 WITH coded <- Len(text) - lookahead - Waiting

----------------------------------------------------------------------------
(***************************************************************************)
(* The dictionary.                                                         *)
(***************************************************************************)

UPDATE_HASH(h, c) ==
  {i \in 0 .. HASH_BITS - 1 : ~ (i - hash_shift \in h <=> i \in c)}

\* The hash key of a string, from nothing.
Key(w, str) ==
  UPDATE_HASH(UPDATE_HASH(UPDATE_HASH({}, w[str]), w[str + 1]), w[str + 2])

\* The running key, once the third byte of the string str has entered it.
NextKey(str) == UPDATE_HASH(ins_h, window[str + MIN_MATCH - 1])

\* The string joins the head of its chain.
INSERT_STRING(str) ==
  /\ ins_h' = NextKey(str)
  /\ prev' = [prev EXCEPT ![str % W_SIZE] = head[NextKey(str)]]
  /\ head' = [head EXCEPT ![NextKey(str)] = str]

Slide_KeptStale(m) == m % W_SIZE

\* One entry of the tables when the window slides; 0 ends a chain.
Slide(m) == IF m >= W_SIZE THEN m - W_SIZE ELSE 0

----------------------------------------------------------------------------
(***************************************************************************)
(* Construction (deflateInit2, lm_init) and the caller.                    *)
(***************************************************************************)

Init ==
  /\ next_in = <<>>
  /\ window = [i \in 0 .. window_size - 1 |-> {}] /\ high_water = 0
  /\ strstart = 0 /\ lookahead = 0
  /\ ins_h = {}
  /\ head = [h \in HashKey |-> 0]
  /\ prev = [i \in 0 .. W_SIZE - 1 |-> 0]
  /\ match_start = 0 /\ match_length = MIN_MATCH - 1 /\ match_available = 0
  /\ prev_length = MIN_MATCH - 1 /\ prev_match = 0
  /\ cur_match = 0 /\ chain_length = 0 /\ best_len = 0 /\ max_insert = 0
  /\ flush = FALSE /\ pc = "idle"
  /\ text = <<>> /\ symbol = L!NoSymbol /\ written = 0

\* deflate(Z_NO_FLUSH) with a piece of input.
Compress(word) ==
  /\ pc = "idle"
  /\ next_in' = word
  /\ pc' = "body"
  /\ UNCHANGED <<window, high_water, strstart, lookahead, hash, match_start,
                 match_length, match_available, previous, search, max_insert, flush,
                 text, symbol, written>>

\* deflate(Z_FINISH)
Finish ==
  /\ pc = "idle"
  /\ flush' = TRUE
  /\ pc' = "body"
  /\ UNCHANGED <<next_in, window, high_water, strstart, lookahead, hash,
                 match_start, match_length, match_available, previous, search,
                 max_insert, text, symbol, written>>

----------------------------------------------------------------------------
(***************************************************************************)
(* fill_window                                                             *)
(***************************************************************************)

WindowFull == strstart >= W_SIZE + MAX_DIST

Moved_Short(w, more) ==
  [i \in DOMAIN w |-> IF i < W_SIZE - more - 1 THEN w[i + W_SIZE] ELSE w[i]]

\* memcpy: the upper half moves down, less the room at its end.
Moved(w, more) ==
  [i \in DOMAIN w |-> IF i < W_SIZE - more THEN w[i + W_SIZE] ELSE w[i]]

Read(w, at, bytes) ==
  [i \in DOMAIN w |-> IF i \in at .. at + Len(bytes) - 1 THEN bytes[i - at + 1]
                      ELSE w[i]]

Cleared(w, from, to) ==
  [i \in DOMAIN w |-> IF i \in from .. to - 1 THEN {} ELSE w[i]]

HighWater_Short(curr) ==
  IF high_water < curr THEN MIN(curr + MAX_MATCH - MIN_MATCH, window_size)
  ELSE high_water

StartKey_Short(w, str) == w[str]

\* The key of a string's first two bytes; its third comes with INSERT_STRING.
StartKey(w, str) == UPDATE_HASH(w[str], w[str + 1])

\* How far the window is initialised once curr bytes hold data.
HighWater(curr) ==
  IF high_water >= window_size THEN high_water
  ELSE IF high_water < curr + MAX_MATCH THEN MIN(curr + MAX_MATCH, window_size)
  ELSE high_water

\* The strings left to insert by an earlier call are none: a call that ends
\* with the window empty is the last one (Z_FINISH).
FillWindow ==
  /\ pc = "body" /\ lookahead < MIN_LOOKAHEAD
  /\ LET more == window_size - lookahead - strstart
         slide == IF WindowFull THEN W_SIZE ELSE 0
         kept == IF WindowFull THEN Moved(window, more) ELSE window
         start == strstart - slide
         n == MIN(Len(next_in), more + slide)
         curr == start + lookahead + n
         full == Read(kept, start + lookahead, SubSeq(next_in, 1, n))
     IN  /\ strstart' = start
         /\ match_start' = match_start - slide
         /\ head' = IF WindowFull THEN [h \in DOMAIN head |-> Slide(head[h])] ELSE head
         /\ prev' = IF WindowFull THEN [p \in DOMAIN prev |-> Slide(prev[p])] ELSE prev
         /\ lookahead' = lookahead + n
         /\ text' = text \o SubSeq(next_in, 1, n)
         /\ next_in' = SubSeq(next_in, n + 1, Len(next_in))
         /\ ins_h' = IF n > 0 /\ lookahead + n >= MIN_MATCH
                       THEN StartKey(full, start) ELSE ins_h
         /\ high_water' = HighWater(curr)
         /\ window' = IF high_water' > high_water
                        THEN Cleared(full, IF high_water < curr THEN curr ELSE high_water,
                                     high_water')
                        ELSE full
         /\ written' = IF high_water' > written THEN high_water'
                       ELSE IF curr > written THEN curr ELSE written
  /\ pc' = "filled"
  /\ UNCHANGED <<match_length, match_available, previous, search, max_insert,
                 flush, symbol>>

----------------------------------------------------------------------------
(***************************************************************************)
(* deflate_slow: one round of its loop.                                    *)
(***************************************************************************)

\* Too little lookahead, and the caller may pass more.
Starved ==
  /\ pc = "filled" /\ lookahead < MIN_LOOKAHEAD /\ ~flush
  /\ pc' = "idle"
  /\ UNCHANGED <<next_in, window, high_water, strstart, lookahead, hash,
                 match_start, match_length, match_available, previous, search,
                 max_insert, flush, text, symbol, written>>

Ready ==
  \/ pc = "body" /\ lookahead >= MIN_LOOKAHEAD
  \/ pc = "filled" /\ (lookahead >= MIN_LOOKAHEAD \/ flush) /\ lookahead # 0

\* The head of the chain the current string joins.
HashHead == IF lookahead >= MIN_MATCH THEN head[NextKey(strstart)] ELSE 0

WorthSearching(hash_head) ==
  /\ hash_head # 0
  /\ match_length < max_lazy_match
  /\ strstart - hash_head <= MAX_DIST

\* Insert the string at strstart, and start longest_match on its chain.
Insert ==
  /\ Ready
  /\ IF lookahead >= MIN_MATCH THEN INSERT_STRING(strstart) ELSE UNCHANGED hash
  /\ prev_length' = match_length /\ prev_match' = match_start
  /\ match_length' = MIN_MATCH - 1
  /\ IF WorthSearching(HashHead)
       THEN /\ cur_match' = HashHead
            /\ chain_length' = IF match_length >= good_match
                                 THEN max_chain_length \div 4 ELSE max_chain_length
            /\ best_len' = match_length
            /\ pc' = "search"
       ELSE pc' = "decide" /\ UNCHANGED search
  /\ UNCHANGED <<next_in, window, high_water, strstart, lookahead, match_start,
                 match_available, max_insert, flush, text, symbol, written>>

limit == IF strstart > MAX_DIST THEN strstart - MAX_DIST ELSE 0

\* The comparison skips byte 2: with bytes 0 and 1 equal, and the same hash
\* key, it is the same.
Compare ==
  IF /\ window[cur_match + best_len] = window[strstart + best_len]
     /\ window[cur_match + best_len - 1] = window[strstart + best_len - 1]
     /\ window[cur_match] = window[strstart]
     /\ window[cur_match + 1] = window[strstart + 1]
    THEN CHOOSE len \in MIN_MATCH .. MAX_MATCH :
           /\ \A i \in MIN_MATCH .. len - 1 :
                window[cur_match + i] = window[strstart + i]
           /\ len < MAX_MATCH =>
                window[cur_match + len] # window[strstart + len]
    ELSE 0

Found_PastInput(len, start) ==
  IF len = MIN_MATCH /\ strstart - start > TOO_FAR THEN MIN_MATCH - 1 ELSE len

\* What longest_match returns, and the rule for far matches of length 3.
Found(len, start) ==
  LET length == MIN(len, lookahead)
  IN  IF length = MIN_MATCH /\ strstart - start > TOO_FAR
        THEN MIN_MATCH - 1 ELSE length

InReach_Unlimited(next) == next > 0

\* The walk goes on to entries after limit only.
InReach(next) == next > limit

\* One round of the walk along the chain.
Probe ==
  /\ pc = "search"
  /\ LET len == Compare
         better == len > best_len
         next == prev[cur_match % W_SIZE]
         stop == \/ better /\ len >= MIN(nice_match, lookahead)
                 \/ ~InReach(next)
                 \/ chain_length = 1
     IN  /\ best_len' = IF better THEN len ELSE best_len
         /\ match_start' = IF better THEN cur_match ELSE match_start
         /\ IF stop
              THEN /\ match_length' = Found(best_len', match_start')
                   /\ pc' = "decide"
                   /\ UNCHANGED <<cur_match, chain_length>>
              ELSE /\ cur_match' = next
                   /\ chain_length' = chain_length - 1
                   /\ UNCHANGED <<match_length, pc>>
  /\ UNCHANGED <<next_in, window, high_water, strstart, lookahead, hash,
                 match_available, previous, max_insert, flush, text, symbol,
                 written>>

\* Strings after this one reach past the data.
MaxInsert == strstart + lookahead - MIN_MATCH

Distance_OfNew == strstart - 1 - match_start

Distance == strstart - 1 - prev_match

\* The match found one round ago is coded.
EmitMatch ==
  /\ pc = "decide"
  /\ prev_length >= MIN_MATCH /\ match_length <= prev_length
  /\ max_insert' = MaxInsert
  /\ symbol' = L!Match(Distance, prev_length)
  /\ lookahead' = lookahead - (prev_length - 1)
  /\ prev_length' = prev_length - 2
  /\ pc' = "skip"
  /\ UNCHANGED <<next_in, window, high_water, strstart, hash, match_start,
                 match_length, match_available, prev_match, search, flush, text,
                 written>>

\* One round of the loop that inserts the strings a match covers.
SkipString ==
  /\ pc = "skip"
  /\ IF strstart + 1 <= max_insert THEN INSERT_STRING(strstart + 1)
                                   ELSE UNCHANGED hash
  /\ prev_length' = prev_length - 1
  /\ IF prev_length' # 0
       THEN /\ strstart' = strstart + 1
            /\ UNCHANGED <<match_available, match_length, pc>>
       ELSE /\ strstart' = strstart + 2
            /\ match_available' = 0
            /\ match_length' = MIN_MATCH - 1
            /\ pc' = "body"
  /\ UNCHANGED <<next_in, window, high_water, lookahead, match_start, prev_match,
                 search, max_insert, flush, text, symbol, written>>

NoBetterBefore == ~(prev_length >= MIN_MATCH /\ match_length <= prev_length)

\* The byte before strstart is coded as a literal.
EmitLiteral ==
  /\ pc = "decide" /\ NoBetterBefore /\ match_available = 1
  /\ symbol' = L!Literal(window[strstart - 1])
  /\ strstart' = strstart + 1 /\ lookahead' = lookahead - 1
  /\ pc' = "body"
  /\ UNCHANGED <<next_in, window, high_water, hash, match_start, match_length,
                 match_available, previous, search, max_insert, flush, text,
                 written>>

\* The byte at strstart waits for the next round.
DeferLiteral ==
  /\ pc = "decide" /\ NoBetterBefore /\ match_available = 0
  /\ match_available' = 1
  /\ strstart' = strstart + 1 /\ lookahead' = lookahead - 1
  /\ pc' = "body"
  /\ UNCHANGED <<next_in, window, high_water, hash, match_start, match_length,
                 previous, search, max_insert, flush, text, symbol, written>>

AllBehind_Short == lookahead < MIN_MATCH

AllBehind == lookahead = 0

\* All input is coded but the byte that waits.
FinishBlock ==
  /\ pc = "filled" /\ flush /\ AllBehind
  /\ symbol' = IF match_available = 1 THEN L!Literal(window[strstart - 1]) ELSE symbol
  /\ match_available' = 0
  /\ pc' = "done"
  /\ UNCHANGED <<next_in, window, high_water, strstart, lookahead, hash,
                 match_start, match_length, previous, search, max_insert, flush,
                 text, written>>

Done == pc = "done" /\ UNCHANGED vars

\* MaxIn bounds the run: the code has no such limit.
Caller ==
  \/ \E word \in Words : Len(text) + Len(word) <= MaxIn /\ Compress(word)
  \/ Finish

Engine ==
  \/ FillWindow \/ Starved \/ Insert \/ Probe \/ EmitMatch \/ SkipString
  \/ EmitLiteral \/ DeferLiteral \/ FinishBlock

Next == Caller \/ Engine \/ Done

Spec == Init /\ [][Next]_vars

----------------------------------------------------------------------------
(***************************************************************************)
(* Properties.                                                             *)
(***************************************************************************)

Pos == 0 .. window_size - 1

TypeOK ==
  /\ window \in [Pos -> Byte]
  /\ high_water \in 0 .. window_size
  /\ strstart \in 0 .. window_size /\ lookahead \in 0 .. window_size
  /\ ins_h \in HashKey
  /\ head \in [HashKey -> Pos]
  /\ prev \in [0 .. W_SIZE - 1 -> Pos]
  /\ match_length \in 0 .. MAX_MATCH /\ match_available \in {0, 1}
  /\ prev_length \in 0 .. MAX_MATCH
  /\ cur_match \in Pos /\ chain_length \in 0 .. max_chain_length
  /\ best_len \in 0 .. MAX_MATCH
  /\ pc \in {"idle", "body", "filled", "search", "decide", "skip", "done"}

BetweenRounds == pc \in {"body", "filled", "idle"}

\* The end of the data in the window.  lookahead runs ahead of strstart while
\* the strings under a match are inserted.
End == strstart + lookahead + (IF pc = "skip" THEN prev_length + 1 ELSE 0)

\* The window holds the end of the text: what has slid out is gone, what is
\* left is at its place.
WindowHoldsText ==
  \A i \in 0 .. End - 1 :
    i + Len(text) - End >= 0 => window[i] = text[i + Len(text) - End + 1]

\* Positions a search may still reach from the string inserted next: not 0,
\* at most MAX_DIST back, and already inserted.
Live == {p \in 1 .. strstart - 1 : strstart - p <= MAX_DIST}

\* The strings before position p with the hash key h.
Earlier(h, p) == {q \in Live : q < p /\ Key(window, q) = h}

\* A link leads to the latest of these strings, and ends the chain if there is
\* none: it is NIL, or too far back to be followed.
LeadsTo(link, strings) ==
  IF strings = {} THEN link = 0 \/ strstart - link > MAX_DIST
  ELSE link \in strings /\ \A q \in strings : q <= link

\* Between two rounds every string a match may start at is on the chain of
\* its key, after the next later one, and on no other chain: sliding the
\* window, wrapping prev[], skipping over a match and starting a new call
\* neither lose one nor leave a stale one behind.  longest_match() relies on
\* the key: it does not compare the third byte.
ChainsExact ==
  BetweenRounds /\ lookahead >= MIN_MATCH =>
    /\ \A h \in HashKey : LeadsTo(head[h], Earlier(h, strstart))
    /\ \A p \in Live : LeadsTo(prev[p % W_SIZE], Earlier(Key(window, p), p))

\* The hash key is that of the first two bytes of the string inserted next.
KeyIsRunning ==
  BetweenRounds /\ lookahead >= MIN_MATCH =>
    NextKey(strstart) = Key(window, strstart)

\* longest_match() compares up to MAX_MATCH bytes whatever the lookahead is:
\* it stays in the window and reads no byte that was never written.
ReadsInitialised ==
  pc = "search" => /\ strstart + MAX_MATCH < window_size
                   /\ strstart + MAX_MATCH < written

\* A match found by the walk is a match, however many bytes were not
\* compared, and it lies within the lookahead.
MatchIsReal ==
  pc = "decide" /\ match_length >= MIN_MATCH /\ match_length > prev_length =>
    /\ match_length <= lookahead
    /\ strstart - match_start \in 1 .. MAX_DIST
    /\ \A i \in 0 .. match_length - 1 :
         window[match_start + i] = window[strstart + i]

\* The next round of the walk would go further back, so that stale links
\* cannot make it turn in a circle.
WalkDescends ==
  pc = "search" /\ InReach(prev[cur_match % W_SIZE]) =>
    prev[cur_match % W_SIZE] < cur_match

\* Literals and matches spell the text: the abstract specification.
SymbolsSpellText == L!Spec

\* When the stream is finished, all of it has been coded.
AllCoded == pc = "done" => lookahead = 0 /\ match_available = 0 /\ next_in = <<>>

\* The dictionary: the hash key and the chains are those of the text in the
\* window, between any two rounds.
DictionaryExact == TypeOK /\ KeyIsRunning /\ ChainsExact

\* The search: longest_match() ends, reads nothing but data, and what it finds
\* is a match.
SearchIsSound == WalkDescends /\ ReadsInitialised /\ MatchIsReal

\* The text: none of it is overwritten before it has slid out of the window,
\* and all of it is coded in the end.
TextIsKept == WindowHoldsText /\ AllCoded

=============================================================================
