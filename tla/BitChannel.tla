----------------------------- MODULE BitChannel -----------------------------
(***************************************************************************)
(* The bits between the two engines: send_bits() and its kin in trees.cpp  *)
(* pack values of any length into bytes; the accumulator of inflate(), and *)
(* that of inflate_fast(), which reads ahead and gives back, unpack them.  *)
(* What the values mean is in other modules: the decoder here knows what   *)
(* to ask for next.                                                        *)
(*                                                                         *)
(* A number is the set of its one bits, bit 0 the lowest.                  *)
(***************************************************************************)
EXTENDS Integers, Sequences

CONSTANTS
  BYTE,      \* bits in a byte (8)
  TypeBits,  \* bits in a block's header (3)
  Values,    \* the values sent: for a length, a set of numbers
  Raw,       \* the contents of stored blocks: sequences of bytes
  MaxItems   \* bound on the items sent

Buf_size == 2 * BYTE

SizeAssumption ==
  BYTE \in Nat \ {0} /\ TypeBits \in 1 .. Buf_size - 1 /\ MaxItems \in Nat

\* send_bits() is given no bit beyond the length; the length of a stored block
\* fits its field.
ItemsAssumption ==
  /\ \A n \in 1 .. Buf_size - 1 : \A v \in Values[n] : v \subseteq 0 .. n - 1
  /\ \A raw \in Raw : /\ raw \in Seq(SUBSET (0 .. BYTE - 1))
                     /\ Len(raw) <= Buf_size

Shl(v, n) == {i + n : i \in v}
Shr(v, n) == {i - n : i \in {j \in v : j >= n}}
Low(v, n) == v \cap (0 .. n - 1)

VARIABLES
  bi_buf, bi_valid,      \* encoder: bits not yet in a byte
  pending_buf,           \* the bytes sent
  next, hold, bits,      \* decoder: bytes read, and the bits of them not used
  fast,                  \* inflate_fast is running
  length,                \* bytes of a stored block still to be copied
  entry,                 \* history: next and taken when inflate_fast was entered
  sent, taken            \* history: items sent, items read

encoder == <<bi_buf, bi_valid, pending_buf, sent>>
decoder == <<next, hold, bits, fast, length, entry, taken>>
vars == <<encoder, decoder>>

Init ==
  /\ bi_buf = {} /\ bi_valid = 0 /\ pending_buf = <<>>
  /\ next = 0 /\ hold = {} /\ bits = 0 /\ fast = FALSE /\ length = 0
  /\ entry = [next |-> 0, taken |-> 0]
  /\ sent = <<>> /\ taken = <<>>

----------------------------------------------------------------------------
(***************************************************************************)
(* The encoder.  Its operators map the bit buffer and the bytes sent,      *)
(* [buf, valid, out], to what they become.                                 *)
(***************************************************************************)

Now == [buf |-> bi_buf, valid |-> bi_valid, out |-> pending_buf]

put_byte(out, w) == Append(out, Low(w, BYTE))
put_short(out, w) == Append(Append(out, Low(w, BYTE)), Low(Shr(w, BYTE), BYTE))

Spills(b, n) == b.valid > Buf_size - n

\* What of v did not fit.
Carried(b, v) == Shr(v, Buf_size - b.valid)

send_bits(b, v, n) ==
  LET filled == Low(b.buf \cup Shl(v, b.valid), Buf_size)
  IN  IF Spills(b, n)
        THEN [buf   |-> Carried(b, v),
              valid |-> b.valid + n - Buf_size,
              out   |-> put_short(b.out, filled)]
        ELSE [buf |-> filled, valid |-> b.valid + n, out |-> b.out]

Empty(out) == [buf |-> {}, valid |-> 0, out |-> out]

bi_flush_KeepsBuf(b) ==
  CASE b.valid = Buf_size -> Empty(put_short(b.out, b.buf))
    [] b.valid >= BYTE /\ b.valid < Buf_size ->
         [buf   |-> b.buf,
          valid |-> b.valid - BYTE,
          out   |-> put_byte(b.out, b.buf)]
    [] OTHER -> b

bi_flush(b) ==
  CASE b.valid = Buf_size -> Empty(put_short(b.out, b.buf))
    [] b.valid >= BYTE /\ b.valid < Buf_size ->
         [buf   |-> Shr(b.buf, BYTE),
          valid |-> b.valid - BYTE,
          out   |-> put_byte(b.out, b.buf)]
    [] OTHER -> b

bi_windup(b) ==
  Empty(CASE b.valid > BYTE -> put_short(b.out, b.buf)
          [] b.valid \in 1 .. BYTE -> put_byte(b.out, b.buf)
          [] OTHER -> b.out)

\* The type, the length and its complement, the bytes.
_tr_stored_block(b, type, raw) ==
  LET w   == bi_windup(send_bits(b, type, TypeBits))
      len == IF raw = <<>> THEN {} ELSE {Len(raw) - 1}
  IN  Empty(put_short(put_short(w.out, len), (0 .. Buf_size - 1) \ len) \o raw)

Becomes(b) == bi_buf' = b.buf /\ bi_valid' = b.valid /\ pending_buf' = b.out

Send ==
  /\ Len(sent) < MaxItems
  /\ \E n \in 1 .. Buf_size - 1 : \E v \in Values[n] :
       /\ Becomes(send_bits(Now, v, n))
       /\ sent' = Append(sent, [kind |-> "bits", n |-> n, v |-> v])
  /\ UNCHANGED decoder

SendStored ==
  /\ Len(sent) + 1 < MaxItems
  /\ \E type \in Values[TypeBits], raw \in Raw :
       /\ Becomes(_tr_stored_block(Now, type, raw))
       /\ sent' = sent \o <<[kind |-> "bits", n |-> TypeBits, v |-> type],
                            [kind |-> "stored", raw |-> raw]>>
  /\ UNCHANGED decoder

\* flush_pending() begins with it.
Flush ==
  /\ bi_valid >= BYTE
  /\ Becomes(bi_flush(Now))
  /\ UNCHANGED <<sent, decoder>>

\* The last block is over.
Finish ==
  /\ bi_valid > 0 /\ Len(sent) = MaxItems
  /\ Becomes(bi_windup(Now))
  /\ UNCHANGED <<sent, decoder>>

----------------------------------------------------------------------------
(***************************************************************************)
(* The decoder.                                                            *)
(***************************************************************************)

\* What is read next.
Wanted == sent[Len(taken) + 1]
Wants(kind) == Len(taken) < Len(sent) /\ Wanted.kind = kind

Available(n) == next + n <= Len(pending_buf)

\* PULLBYTE, n times over.
Pull(n) ==
  /\ Available(n)
  /\ next' = next + n
  /\ hold' = hold \cup UNION {Shl(pending_buf[next + i], bits + (i - 1) * BYTE) :
                                  i \in 1 .. n}
  /\ bits' = bits + n * BYTE

Bits(n) == Low(hold, n)

Drop(n) == hold' = Shr(hold, n) /\ bits' = bits - n

\* NEEDBITS(n): a byte at a time, leaving inflate() when there is none; the
\* bits of a byte read stay for the next call.
NEEDBITS ==
  /\ ~fast /\ Wants("bits") /\ bits < Wanted.n
  /\ Pull(1)
  /\ UNCHANGED <<encoder, fast, length, entry, taken>>

Take ==
  /\ Wants("bits") /\ bits >= Wanted.n
  /\ taken' = Append(taken, [kind |-> "bits", n |-> Wanted.n, v |-> Bits(Wanted.n)])
  /\ Drop(Wanted.n)
  /\ UNCHANGED <<encoder, next, fast, length, entry>>

\* BYTEBITS at the header of a stored block, then a byte at a time.
Padding == bits % BYTE

AlignStored ==
  /\ ~fast /\ Wants("stored") /\ length = 0 /\ Padding # 0
  /\ Drop(Padding)
  /\ UNCHANGED <<encoder, next, fast, length, entry, taken>>

HeaderBits == 2 * Buf_size

NeedHeader ==
  /\ ~fast /\ Wants("stored") /\ length = 0 /\ Padding = 0 /\ bits < HeaderBits
  /\ Pull(1)
  /\ UNCHANGED <<encoder, fast, length, entry, taken>>

\* The lengths agree; INITBITS.  Only the bytes, of which there may be none,
\* are still to come.
LengthOf(v) == IF v = {} THEN 0 ELSE 1 + CHOOSE i \in v : v = {i}

Header ==
  /\ ~fast /\ Wants("stored") /\ length = 0 /\ bits >= HeaderBits
  /\ Low(hold, Buf_size) = (0 .. Buf_size - 1) \ Low(Shr(hold, Buf_size), Buf_size)
  /\ hold' = {} /\ bits' = 0
  /\ LET len == LengthOf(Low(hold, Buf_size))
     IN  IF len = 0
           THEN /\ taken' = Append(taken, [kind |-> "stored", raw |-> <<>>])
                /\ UNCHANGED length
           ELSE length' = len /\ UNCHANGED taken
  /\ UNCHANGED <<encoder, next, fast, entry>>

\* memcpy from the input, whatever the accumulator holds.
COPY ==
  /\ ~fast /\ Wants("stored") /\ length > 0 /\ Available(length)
  /\ taken' = Append(taken, [kind |-> "stored",
                             raw |-> SubSeq(pending_buf, next + 1, next + length)])
  /\ next' = next + length
  /\ length' = 0
  /\ UNCHANGED <<encoder, hold, bits, fast, entry>>

\* inflate_fast: enough input for a symbol.  inflate() may have read part of
\* its code before it last ran out of input.
FastEntry ==
  /\ ~fast /\ Wants("bits") /\ Available(2)
  /\ bits < BYTE \/ bits < Wanted.n
  /\ fast' = TRUE
  /\ entry' = [next |-> next, taken |-> Len(taken)]
  /\ UNCHANGED <<encoder, next, hold, bits, length, taken>>

\* Two bytes whenever the longest code might not be there.
FastPull ==
  /\ fast /\ bits < Buf_size - 1
  /\ Pull(2)
  /\ UNCHANGED <<encoder, fast, length, entry, taken>>

\* One byte for the extra bits that are not.
FastPullExtra ==
  /\ fast /\ Wants("bits") /\ bits < Wanted.n
  /\ Pull(1)
  /\ UNCHANGED <<encoder, fast, length, entry, taken>>

\* "return unused bytes (on entry, bits < 8, so in won't go too far back)".
Unused == bits \div BYTE

Left_Unmasked(n) == hold

Left(n) == Low(hold, n)

\* do .. while: the loop has run at least once.
HasRun_While == TRUE

HasRun == Len(taken) > entry.taken

FastReturn ==
  /\ fast /\ HasRun
  /\ next' = next - Unused
  /\ bits' = bits - Unused * BYTE
  /\ hold' = Left(bits - Unused * BYTE)
  /\ fast' = FALSE
  /\ UNCHANGED <<encoder, length, entry, taken>>

Done == Len(sent) = MaxItems /\ taken = sent /\ UNCHANGED vars

Encoder == Send \/ SendStored \/ Flush \/ Finish

Decoder == NEEDBITS \/ Take \/ AlignStored \/ NeedHeader \/ Header \/ COPY
           \/ FastEntry \/ FastPull \/ FastPullExtra \/ FastReturn

Next == Encoder \/ Decoder \/ Done

Spec == Init /\ [][Next]_vars

----------------------------------------------------------------------------
\* A run of bits: how many, and which of them are one.
Nothing == [len |-> 0, ones |-> {}]

\* v, of n bits, behind s.
Then(s, v, n) == [len |-> s.len + n, ones |-> s.ones \cup Shl(v, s.len)]

\* Bytes as one number.
OfBytes(bytes) == UNION {Shl(bytes[i], (i - 1) * BYTE) : i \in DOMAIN bytes}

\* Zeros up to a whole byte.
Padded(s) == [s EXCEPT !.len = @ + ((BYTE - (@ % BYTE)) % BYTE)]

LengthField(raw) == IF raw = <<>> THEN {} ELSE {Len(raw) - 1}

StoredHeader(s, raw) ==
  Then(Then(Padded(s), LengthField(raw), Buf_size),
       (0 .. Buf_size - 1) \ LengthField(raw), Buf_size)

\* An item as the format has it: stored blocks start on a byte.
WithItem(s, item) ==
  IF item.kind = "bits" THEN Then(s, item.v, item.n)
  ELSE Then(StoredHeader(s, item.raw), OfBytes(item.raw), Len(item.raw) * BYTE)

\* The bits of the items in order, those of the first k.
Layout(items) ==
  LET l[k \in 0 .. Len(items)] == IF k = 0 THEN Nothing ELSE WithItem(l[k - 1], items[k])
  IN  l

\* Nothing sent is lost or doubled on the way into bytes: those sent and the
\* bit buffer hold the items' bits, the last byte perhaps filled with zeros.
WholeOut == [len |-> Len(pending_buf) * BYTE, ones |-> OfBytes(pending_buf)]

Written == Then(WholeOut, bi_buf, bi_valid)

Packed == LET all == Layout(sent)[Len(sent)] IN Written \in {all, Padded(all)}

\* The decoder reads the values that were sent.
Arrives == Len(taken) <= Len(sent) /\ taken = SubSeq(sent, 1, Len(taken))

\* The accumulator is the last bits of the bytes read: none was skipped, and
\* none given back that is still held.
HoldsWhatWasRead ==
  LET read == next * BYTE
  IN  /\ bits <= read
      /\ hold = Shr(Low(OfBytes(pending_buf), read), read - bits)

\* When inflate_fast() can end, it gives back no byte that was read before it
\* was entered: that byte may be of a buffer the caller has taken away.
NotTooFarBack == fast /\ HasRun => next - Unused >= entry.next

\* INITBITS at the lengths of a stored block drops nothing but them: the
\* accumulator has no byte of the block's contents.
HeaderIsAll == Wants("stored") => bits <= 2 * Buf_size

TypeOK ==
  /\ bi_valid \in 0 .. Buf_size /\ bi_buf \subseteq 0 .. bi_valid - 1
  /\ \A i \in DOMAIN pending_buf : pending_buf[i] \subseteq 0 .. BYTE - 1
  /\ next \in 0 .. Len(pending_buf) /\ bits \in Nat
  /\ fast \in BOOLEAN /\ length \in Nat /\ Len(sent) <= MaxItems

=============================================================================
