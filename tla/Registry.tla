------------------------------ MODULE Registry ------------------------------
(***************************************************************************)
(* SniffDecompressor() of src/any.cpp: the decompressor chosen from the    *)
(* first bytes of a stream, as more and more of them are at hand.          *)
(***************************************************************************)
EXTENDS Integers, Sequences

CONSTANT Any  \* bytes that stand for those the formats leave open

VARIABLES
  format, stream,  \* what the file is, and its first four bytes
  file             \* the sample: how many of them the caller has

vars == <<format, stream, file>>

Formats == {"gzip", "bzip2", "lzma", "zstd", "zlib", "deflate"}

\* Low three bits of a raw deflate stream: BFINAL and a type that is not 3; the
\* rest of a stored block's first byte is the zeros of bi_windup().
DeflateStart(b) == (b % 8) \div 2 # 3 /\ ((b % 8) \div 2 = 0 => b < 8)

\* CMF is method 8 and a window of up to 32 KiB, and CMF * 256 + FLG is a
\* multiple of 31.
ZlibStart(cmf, flg) == cmf % 16 = 8 /\ cmf \div 16 <= 7 /\ (cmf * 256 + flg) % 31 = 0

\* The first bytes of a stream of each format.  The libraries' magic numbers
\* are external; those of gzip and zlib are written by deflate().
Starts(f) ==
  CASE f = "gzip"    -> {<<31, 139, 8, x>> : x \in Any}
    [] f = "bzip2"   -> {<<66, 90, 104, x>> : x \in 49 .. 57}
    [] f = "lzma"    -> {<<253, 55, 122, 88>>}
    [] f = "zstd"    -> {<<40, 181, 47, 253>>}
    [] f = "zlib"    -> {<<h[1], h[2], x, y>> :
                           h \in {g \in (0 .. 255) \X (0 .. 255) : ZlibStart(g[1], g[2])},
                           x \in Any, y \in Any}
    [] f = "deflate" -> {<<b, x, y, z>> : b \in {n \in 0 .. 255 : DeflateStart(n)},
                                          x \in Any, y \in Any, z \in Any}

Init ==
  /\ format \in Formats
  /\ stream \in Starts(format)
  /\ file = <<>>

\* The caller has one more byte.
Read ==
  /\ Len(file) < 4
  /\ file' = Append(file, stream[Len(file) + 1])
  /\ UNCHANGED <<format, stream>>

Over == Len(file) = 4 /\ UNCHANGED vars

Next == Read \/ Over

Spec == Init /\ [][Next]_vars

----------------------------------------------------------------------------
Begins(magic) == Len(file) >= Len(magic) /\ SubSeq(file, 1, Len(magic)) = magic

\* (file[0] & 0xF) == 0x08 && (file[0] >> 4) <= 7
HasZlibMethod(b) == b % 16 = 8 /\ b \div 16 <= 7

LooksZlib == Len(file) >= 2 /\ HasZlibMethod(file[1])

Magic ==
  CASE Begins(<<31, 139>>)          -> "gzip"
    [] Begins(<<66, 90, 104>>)      -> "bzip2"
    [] Begins(<<253, 55, 122, 88>>) -> "lzma"
    [] Begins(<<40, 181, 47, 253>>) -> "zstd"
    [] OTHER                        -> "none"

SniffDecompressor_ZlibFirst == IF LooksZlib THEN "zlib" ELSE Magic

\* The test for zlib is the last.
SniffDecompressor == IF Magic = "none" /\ LooksZlib THEN "zlib" ELSE Magic

----------------------------------------------------------------------------
\* With four bytes, each format that has a header is told from all others.
HeadersAreTold ==
  Len(file) >= 4 /\ format # "deflate" => SniffDecompressor = format

\* With fewer, an answer is given early or not at all, but it is wrong for just
\* the samples of two and three bytes of a zstd stream, which are taken for
\* zlib's: the test for zlib looks at half of one byte, and the test for zstd,
\* which comes before it, needs four.
ZstdNeedsFour ==
  format # "deflate" =>
    (SniffDecompressor \notin {format, "none"}
       <=> format = "zstd" /\ Len(file) \in 2 .. 3)

\* What decides on zlib, CMF, is never the first byte of a raw stream as
\* deflate() writes it.
DeflateIsNotZlib == format = "deflate" => SniffDecompressor # "zlib"

=============================================================================
