# decoco: verification project

decoco is a C++ library with one interface over several compression libraries.
A codec is an object with a *span* interface (`compress(in, out)`, `flush(out)`,
`decompress(in, out)`: one call into the engine, the result is the part of `out`
that was filled) and a *vector* interface in `src/src/shared.cpp` that loops over
the span calls until a call leaves room in its chunk. The gzip, zlib and deflate
codecs run a C++ port of zlib that is part of the repository
(`src/src/zlib/`); bzip2, lzma, zstd and brotli wrap external libraries.

The modules here model the zlib-based codecs from the user's calls down to the
bits and bytes in the engines, and the other codecs from the user's calls down to
the libraries. TLC checks them on small instances. For every value of the constants
TLAPS proves the deflate engine and its match finder, the accounting of the
decompression engine, the copies into output and window, both checksums, the loops
over both engines, and the other codecs' wrappers and their choice.

## Inventory

| Component | State | Operations | What is hard | What makes it correct |
|---|---|---|---|---|
| deflate engine (`zlib/deflate.cpp`) | `z_stream` counts, `status`, `wrap`, `last_flush`, pending buffer, sliding window positions, lazy match, symbol buffer | `deflate()` called by the wrappers with `Z_NO_FLUSH` and `Z_FINISH`; inside it `fill_window`, `deflate_slow`, `flush_pending` | a call may return at almost any point because the output span is full, and the next call, with other spans and maybe the other flush value, resumes | every byte coded exactly once; header, blocks, last block, trailer in order; positions inside the window; the result codes mean what the loops take them to mean |
| block encoder (`zlib/trees.cpp`) | symbol buffer, trees, bit buffer | `_tr_tally`, `_tr_flush_block`, `_tr_stored_block` | limits of the buffers, choice between stored and compressed blocks, bit alignment | what a block codes does not depend on how it is coded |
| inflate engine (`zlib/inflate.cpp`, `inffast.cpp`) | mode, bit accumulator, lengths in progress, circular window, totals | `inflate()` with `Z_NO_FLUSH`, `inflate_fast`, `updatewindow` | a call may end inside any element because input or output ran out; the fast path reads ahead and gives back | no bit lost or read twice; the window holds what later matches refer to; the result does not depend on how the input is cut |
| decoding tables (`zlib/inftrees.cpp`), checksums (`adler32.cpp`, `crc32.cpp`) | none (pure) | `inflate_table`, `adler32`, `crc32` | boundaries: incomplete codes, sums reduced late | agree with their definitions |
| wrappers (`gzip.cpp`, `zlib.cpp`, `deflate.cpp`) | a `z_stream`, `bytesUsed_` | the constructors and the span methods | a second call before the first one's input was taken; assertions on the engine's result codes | no assertion fails, no input is dropped |
| vector interface (`shared.cpp`) | the loop in progress | `compress`, `flush`, `decompress` | one more call when the chunk came back full | everything offered is coded, the methods end |
| one-shot functions (`short.cpp`) | the loop in progress | `compress`, `decompress` | as above, with a different loop | as above |
| bzip2, lzma, zstd, brotli wrappers | the library's stream object | the same interface | each library has its own rules on progress and on full output | as for the zlib wrappers |
| registry (`any.cpp`) | none | find a codec by name, sniff one by magic bytes | overlapping or short magic | the codec found is the one named |

The program starts no threads and stores nothing: the library's README only asks
that one object is not used by two threads at once. What is hard is sequential:
long sequences of legal calls, each of which may be cut short anywhere, and the
arithmetic of tables and buffers at their limits. The full list of hazards, each
at its line and with the properties that would catch it, is in `PROJECT.json`.

How the parts interact: a vector or one-shot method calls a span method of a
wrapper; the wrapper sets the spans of a `z_stream` and calls `deflate()` or
`inflate()`; the engine keeps everything that must survive the call in its state.
Inside the compressor, the match finder hands symbols to the block encoder, which
hands bits to the pending buffer; inside the decompressor, the accumulator hands
bits to the tables, which hand symbols to the copy loops. Both feed the checksums.

## Modules

| Module | Models | Composes |
|---|---|---|
| `Deflate` | the deflate engine under the wrappers' span methods, bytes counted | - |
| `HashChains` | its match finder, with the bytes: `fill_window`, `slide_hash`, `insert_string`, `longest_match`, `deflate_slow` | implements `LZ77` |
| `LZ77` | abstract: what a match finder promises | - |
| `HuffmanCode` | `gen_codes`, `bi_reverse`: the code that lengths stand for | - |
| `Huffman` | `build_tree`, `gen_bitlen` | `HuffmanCode` |
| `CodeLengths` | `scan_tree`, `send_tree`, `send_all_trees`; modes TABLE, LENLENS, CODELENS of `inflate()` | - |
| `InflateTable` | `inflate_table` and the lookups in its tables | `HuffmanCode` |
| `SymbolCodes` | `_tr_tally`, `compress_block`; modes LEN .. DISTEXT with the tables of both sides | - |
| `BitChannel` | `send_bits`, `bi_flush`, `bi_windup`, `_tr_stored_block`; the accumulators of `inflate()` and `inflate_fast()` | - |
| `Inflate` | the inflate engine under the wrappers' span method, bits and bytes counted | - |
| `WindowCopy` | how literals and matches become output, with the bytes | - |
| `Adler32`, `Crc32` | the checksums | - |
| `Compressor` | `Compressor::compress`, `::flush`, `Decoco::compress` | `Deflate`, implements `CompressionContract` |
| `Decompressor` | `Decompressor::decompress`, `Decoco::decompress` | `Inflate`, implements `DecompressionContract` |
| `CompressionContract`, `DecompressionContract` | abstract: what the vector interface promises | - |
| `SpanProtocol` | the README's compression sample | `Deflate` |
| `ExternalCompressors`, `ExternalDecompressors` | the bzip2, lzma, zstd, brotli wrappers under the vector loops | - |
| `Registry` | `SniffDecompressor` | - |
| `Blocks` | a block's code, from frequencies to decoded symbols; `MCBlock` gives it values | `Huffman`, `CodeLengths`, `InflateTable`, `SymbolCodes` |
| `Streams` | what runs beneath both engines; `MCStream` gives it values | `Adler32`, `Crc32`, `BitChannel`, `WindowCopy` |
| `OtherCodecs` | the codecs other than zlib's | `ExternalCompressors`, `ExternalDecompressors`, `Registry` |
| `CompressorProofs`, `DecompressorProofs`, `HashChainsProofs`, `BlocksProofs`, `BitChannelProofs`, `WindowCopyProofs`, `StreamsProofs`, `OtherCodecsProofs` | theorems | the modules they are named after; those about `Deflate` are in `CompressorProofs`, those about `Inflate` in `DecompressorProofs` |

Two views of each engine are kept apart on purpose. `Deflate` and `Inflate` follow
the calls with bytes and bits *counted*, where every interleaving of full and empty
spans is explored; `HashChains`, `SymbolCodes`, `BitChannel` and `WindowCopy` follow
the *values*, where calls matter only as far as the code's own state does. What one
leaves to choice (which match is found, which code comes next) the other computes.

### Deflate

Bytes are counted, not represented. A source byte is first in the caller's span
(`avail_in`), then in the window ahead of `strstart` (`lookahead`), then behind it
in the current block (`strstart - block_start`, and as symbols: `tallied`, the
history of what the `last_lit` buffered symbols stand for), then in a finished
block (`coded`). A block becomes a number of pending bytes, which go to the
caller's output span as they fit. `format` records which element of the stream
was last put into the pending buffer and becomes `"bad"` when the order is wrong.

`pc` is the position in the running call; between calls it is `"idle"`. The
actions follow `deflate()` from top to bottom: the checks on entry
(`RejectFinished`, `RejectNoRoom`, `DrainPending`, `RejectUseless`, `Begin`), the
header (`WriteHeader`), the choice to compress (`Start`), one action for each kind
of round of `deflate_slow`'s loop (`FillWindow`, `Starved`, `EmitMatch`,
`EmitLiteral`, `DeferLiteral`), its end (`FinishBlock`), and the trailer (`End`,
`WriteTrailer`). The environment calls `Compress(n, m)` and `Flush(m)` in any order
with spans of any of the given sizes, including zero.

What `longest_match` finds is any match its guards permit (never position 0,
never further back than `MAX_DIST`, cut to the lookahead); a block of *n* bytes
takes between 1 and *n* + `BlockOverhead` bytes, and may be stored when its start
is still in the window. `flush_pending` of the code also flushes the bit buffer;
the model does not hold back single bits.

The `Inputs`, `Outputs` and `MaxIn` constants bound the caller. The code's sizes
(`W_SIZE`, `MAX_MATCH`, `LIT_BUFSIZE`, `MAX_LAZY`) are constants of the model.

### HashChains

The same loop with the window's bytes, `head`, `prev` and the running hash `ins_h`.
A byte and a key are the sets of their one bits: `<<` adds to the elements and `^` is
the symmetric difference. Skipping the strings under a match, one by one, is the action
`SkipString`. Window positions are the code's; `window` is read beyond the input read so far,
where the code reads the zeros that `fill_window` keeps there (`high_water`). A
slide moves the tables entry by entry, as `slide_hash` does. `longest_match` walks
the chain and compares as the code does, first the two bytes at the end of the best
match so far, then the first two, then from the fourth on. The refinement to `LZ77`
(`SymbolsSpellText`) is the statement that the symbols of every input spell it.

### Huffman, CodeLengths, InflateTable, SymbolCodes

Each is one pass of the code, a step of a loop per action where the order matters
(`pqdownheap`, the repair in `gen_bitlen`, the sub-tables of `inflate_table`) and one
action where it does not. `Huffman` keeps `asked`, the frequencies before codes are
forced, and `repaired`, whether lengths were limited, as histories; `CodeLengths`
also runs the decoder on streams no encoder sends (`honest` = FALSE). In
`SymbolCodes` the tables have the format's sizes and every length and distance is
tried.

### Inflate

Input is followed bit by bit: `bits` is the number of bits held, `pos` counts the
bits of finished elements, and `Pulled`, `TakeBits`, `TakeField` and `Aligned` are
the code's NEEDBITS, DROPBITS and INITBITS macros. `mode` is the code's mode; each
mode (or run of modes that differ only in a field's name) is an action, `Starve`
is the shared exit for missing input, `NoRoom` for missing output, `Leave` is
`inf_leave` with the call to `updatewindow`. What the stream holds is
nondeterministic, chosen when the previous element is done, so that a call that
gave up half-way finds the same element again. `due` is the number of bytes the
elements read so far stand for. `window` is a history of which output byte each
place of the circular window holds, by its position in the output. With `Corrupt`
any check may fail. `wrap` is the format, chosen when the object is constructed.

`EnterFast`, `FastRound` and `FastReturn` are `inflate_fast`: it fills the
accumulator without checking (it is entered only with enough input left) and
gives whole bytes back on leaving.

### BitChannel, WindowCopy, Adler32, Crc32

`BitChannel` has a 2-bit byte and hence a 4-bit buffer in the encoder, so that every
value can straddle every boundary; the decoder asks for the items in the order they
were sent, through `inflate()`'s accumulator or `inflate_fast`'s, which the model may
enter and leave between any two items. `WindowCopy` gives each literal a value of its
own, so that a byte copied from a wrong place always shows; it copies a byte a step
(`CopyByte`), and `FastNextPart` is where `inflate_fast` goes on from the window's end to
its start and from there to the output; the slow path and `updatewindow` are the rest.
`Adler32` and `Crc32` have the code's loops, and beside them the definitions: recursive
functions over the text (`Sums`) and over single bits (`Register`). In `Crc32` a
number is the set of its one bits, the tables come from the rule that generates them
(all 4 * 256 entries of `crc32.cpp` agree with that rule for its polynomial, and were
compared once by computation), and every polynomial of the width may be chosen.

### Compressor, Decompressor

`op` says which vector method is running. Each loop is an action for its first
span call, one for "again, because the chunk came back full" and one for its
return. The user follows the documented protocol; `fed` and `closed` record what
the user has done. The refinement mapping to the contract is at the end of each
module (`Contract == INSTANCE ... WITH`).

### ExternalCompressors, ExternalDecompressors, Registry

The libraries are not part of the repository: what a call into one of them may do
(marked external in `PROJECT.json`) is any amount of reading and
writing its documentation permits, and the result code is the one the wrapper's
assertions are written for. The wrappers' own code, the sizes they compute and the
loops over them are translated. `collected` says that the vector of the running method
holds output, so that `Lost` can tell when a method that fails takes output with it.
`Beyond` is the number of bytes that follow the stream in what the user passes. `Registry`
gives `SniffDecompressor` growing samples
of a file of each format.

### Composed modules

`Blocks`, `Streams` and `OtherCodecs` each check several small components under one
configuration. The components of one such module hand each other finished values and
share no state while they run, so a behaviour is one of them, chosen in `Init` by
`part`, and its properties are conjunctions of the component's named properties.

### Definitions named `X_Bug`

Next to some definitions there is a variant with a plausible mistake in it (a
window position not moved on a slide, an off-by-one in the symbol buffer's limit,
a repeat code not checked). No specification uses them; each one, put in the place of
the definition it is a variant of, makes TLC find one of the properties violated,
and so shows that the property watches that code.

## Runs

| Run | Module, configuration | Question |
|---|---|---|
| `deflate` | `Deflate`, `MCDeflate.cfg` | Does the engine keep every property, whatever the span calls? |
| `compressor` | `Compressor`, `MCCompressor.cfg` | Does the vector and one-shot interface keep the compression contract, and do the loops end? |
| `inflate` | `Inflate`, `MCInflate.cfg` | Do the counts stay right however a stream, valid or not, is cut into calls? |
| `decompressor` | `Decompressor`, `MCDecompressor.cfg` | Is every valid gzip and zlib stream accepted, is the decompression contract kept, and what can abort it? |
| `hash_chains` | `MCHashChains`, `MCHashChains.cfg` | Do the symbols of every input spell it, with stale chains, slides and late inserts? |
| `block_coding` | `MCBlock`, `MCBlock.cfg` | Is every block's code complete, cheapest, and understood by the decoder? |
| `stream` | `MCStream`, `MCStream.cfg` | Are bits, copies and checksums exact over every cutting? |
| `other_codecs` | `OtherCodecs`, `OtherCodecs.cfg` | Over bzip2, lzma and zstd, is what a method returns whole, when is output lost, and do the loops end? When is the codec sniffed the right one? |
| `span_repeated_calls` | `SpanProtocol` | a statement of the documentation, refuted |
| `extra_call` | `Decompressor` | the wrapper's assertion, refuted for a valid stream |
| `brotli_compress` | `ExternalCompressors` | the size of the span returned, refuted for brotli |
| `zstd_flush` | `ExternalCompressors` | that all output reaches the user, refuted for zstd's `flush()` |

Bounds, and why they are enough:

- *deflate*: the window is 9 bytes with matches of 3, so that `MAX_DIST` is 2 and
  the window slides after 11 bytes; with 20 bytes of input it slides, a block can
  begin in the half that is dropped, and matches span a slide. The symbol buffer
  holds two symbols, so blocks end both on a match and on a literal. Output spans
  of 0, 1, 2 and 6 bytes cut every element of the stream (a header of 2 bytes, a
  trailer of 4) in the middle; input spans of 0, 3 and 7 leave the lookahead both
  above and below `MIN_LOOKAHEAD`.
- *compressor*: the gzip framing has a 10-byte header and an 8-byte trailer; with
  chunks of 5 bytes each of them takes several calls, and fills a chunk exactly.
- *inflate*: both formats, for gzip with the field EXTRA, the only one whose length is
  read from the stream; a window of 3 bytes wraps with the second match; codes of 3 and 14
  bits, distances of 9 + 13 bits keep the accumulator between 0 and its limit and
  cross byte boundaries; 3 elements (blocks or symbols) are enough for a match after a
  stored block after a wrap. Input spans of 7 bytes enter the fast path, spans of
  1 byte cut every element.
- *decompressor*: gzip with the fields EXTRA, NAME and HCRC, one of each kind of
  field, and zlib with and without a preset dictionary; chunks of 3 bytes and a one-shot buffer of 4 against matches of 3, so that a
  call's output is below, at and above the chunk size.
- *hash_chains*: a window of 13 with matches of 5 slides once in 23 bytes; bytes of
  one bit and a hash of 2 bits make different strings share a chain, which the code
  must tell apart; chains of 4 are walked to their limit.
- *block_coding*: six symbols of frequencies 0, 1, 2 and 4 under a limit of 3 bits: the
  unlimited code can be deeper than that, so that the repair has codes to move.
  Code length lists of eight literal and two distance codes, with all three repeat
  codes, including runs that cross from one to the other. Tables of all lists of six
  lengths up to 4 with root tables of 1, 2 and 3 bits, so that there are up to two
  levels. Symbols at full size: all 32768 distances, all 256 lengths.
- *stream*: `BASE` 13 and `NMAX` 6 keep the relation of the real ones to the width
  (one more byte would overflow); CRC bytes of two bits, calls of up to 5 bytes, so
  with and without the four-byte loop; four items in the bit channel fill the
  accumulators past each limit; a window of 4 with spans up to 9 wraps, is replaced as
  a whole, and serves matches from either part and from the output.
- *other_codecs*: chunks of 1, 2 and 3, below, at and above the size of an empty zstd
  frame, here 2; a library call yields up to 7 bytes, so a method needs many span calls
  and ends with a full, a part full or an empty span.

`MaxIn`, `MaxText`, `MaxItems` and `MaxElements` bound the state space only; the code
has no such limits. No run switches deadlock checking off: a stream that is finished,
or a program ended by an assertion, is an explicit stuttering action.

Fairness: `Compressor`, `Decompressor` and `OtherCodecs` assume weak fairness of the
action that is the code between the user's call and its return. The code is
sequential and blocks on nothing, so a method that was called runs. Nothing is
assumed of the user: no property says that a user calls `flush()`. The engine modules
on their own have safety properties only.

### What the properties say

A property of a run is often a conjunction of named parts, so that a reader can find
which part fails.

For the deflate engine: `InputConserved` (`NoByteLost`: every byte read is in exactly
one place; `BlockMatchesWindow`: symbols and window agree, so a stored and a compressed
block code the same bytes), `WindowSafe` (`WindowHasRoom`, `PendingMatchInWindow`: a
match found in one call and coded in another still refers to the same data),
`StreamWellFormed` (order of the stream's elements), `StreamComplete` (what the trailer
covers, and what `Z_STREAM_END` means), `LoopsMayStop` (what a partly filled span
means, and the `last_flush` protocol) and `RejectedOnlyIfUseless`.

For the match finder: `DictionaryExact` (every string whose hash was due is on its
chain, and nothing else is), `SearchIsSound` (what is found is a match, within reach
and within the input, although bytes beyond it are read), `TextIsKept`, and
`SymbolsSpellText`, the refinement.

For a block: `CodeIsComplete`, `CodeIsCheapest`, `LengthsArrive`, `TablesDecode`,
`SymbolsArrive`; beneath the engines `ChecksAreExact`, `NeverWraps`, `BitsArrive`,
`CopiesAreExact`: see the comments above them in `Blocks` and `Streams`.

For the inflate engine: `InputAccounted` (no bit lost or read twice; `bytesUsed()` is
exactly the stream's length), `OutputAccounted`, `ValidAccepted`, `WindowServesMatches`
(the circular window keeps the output in order over wraps and calls, and a match
copies the bytes it refers to), `FastStaysInInput`.

For the vector interface: of the compressor `NoInputDropped`, `NoAbort`,
`FlushDeliversAll`, `MethodsReturn`, `KeepsContract`; of the decompressor `InputTaken`,
`AbortsForTwoReasons`, `MethodsReturn`, `KeepsContract`; of the other codecs
`DeliveredIsWritten`, `OnlyKnownLosses` (what a method that returns has read and delivered;
which output a method that fails takes with it, and when) and `CallsReturn` (which excepts
by name, `Endless`, the chunk size with which zstd's `flush()` does not return); for sniffing
`HeadersAreTold`, whose part `ZstdNeedsFour` says exactly which samples are misjudged.

## Findings

Each is a run that TLC refutes; `PROJECT.json` has the quotations.

1. `RepeatedCallsKeepData`: `compress(in, out)` replaces the input that an earlier
   call did not read because `out` was full. The documented loop, with buffers of
   equal size, can do that. The vector interface does not (`NoInputDropped`).
2. `OutputReachesUser` (run `zstd_flush`): when the rest of a zstd frame is longer than
   the chunk, `flush(out)` throws after it has written the first part of it. The loop of
   `flush()`, which would ask for the rest, is never gone on with, and the part written is
   lost too.
3. `NoAbort` (run `extra_call`): when the output of the input passed so far fills
   the chunk exactly, the decompression loop calls once more with nothing to do,
   `inflate()` answers `Z_BUF_ERROR`, and the wrapper's assertion fails on a valid
   stream. The documented loop over `decompress(in, out)` makes such a call in the
   ordinary course.
4. `DeliveredIsWritten` (run `brotli_compress`): the brotli compressor returns a span
   as long as all output so far, from the second call on longer than what was written.
   The brotli decompressor computes its sizes the same way.

Observed while modelling, consistent with the models, and not separate runs:

- One `flush(out)`, as in the README's sample, may leave the stream incomplete when
  the rest of it does not fit in `out`, and its caller is not told.
- `DeflateCompressor` passes `windowBits` = -1, which `deflateInit2` refuses: the
  constructor's assertion fails, and no raw deflate object can be made.
- bzip2 and lzma: an extra call after the stream's end or without progress is answered
  with an error code and the wrapper's assertion fails, as for zlib. With bzip2 this can
  be the loop's call after a full chunk, in `compress()`, `flush()` and `decompress()`
  alike, and the output that the method has collected is lost. With lzma it is never a
  loop's call, and nothing is lost (`OnlyKnownLosses`).
- zstd's `decompress()` throws when bytes follow the stream: on the next call, or, when
  the end of the stream filled a chunk, within the call, whose output is then lost.
- zstd's `flush()`, asked again after a chunk that the end of the frame has filled, appends
  an empty frame (ZSTD_endStream begins another one). With a chunk of exactly that size
  (13 bytes with the checksum the wrapper asks for) it does so for ever (`Endless`).
- bzip2 cuts the sizes of spans to 32 bits; `inflate_fast` does the same with
  `avail_in` and `avail_out` on leaving (inffast.cpp:258-259). `UINT32` and `UNSIGNED`
  are constants of the models; the runs keep spans below them.
- A zlib stream with a preset dictionary makes `inflate()` answer `Z_NEED_DICT`, which
  the wrapper's assertion does not allow for (`AbortsForTwoReasons`).
- `inflate_fast` documents that it is entered with fewer than 8 bits held; after a
  call that ended inside a code it can be entered with up to 14. What the assumption
  is for still holds (`FastStaysInInput`, `BitsArrive`).
- Sniffing needs four bytes: the first two or three of a zstd stream are taken for zlib's,
  because the test for zlib looks at half of the first byte (any.cpp:33-35) and the test for
  zstd needs all four. Of every other format fewer bytes are answered rightly or not at all.
  A raw deflate stream has no header and is never recognised as such. The README's own
  sample (README.md:22) passes `data.subspan(4)`, which leaves the first four bytes out.

## Proofs

The theorems hold for every value of the constants that satisfies the named
assumptions of the modules:

- compression: a window larger than `MIN_LOOKAHEAD`, a symbol buffer of at least 3
  entries, natural numbers as span sizes, a chunk of at least one byte; for the match
  finder also keys at least as wide as a byte, and the `max_lazy` of at least `MIN_MATCH`
  and `max_chain` of at least 4 that a comment in `deflate.cpp` asks for.
- decompression: any window size, codes of at most 15 bits with at most 5 and 13 extra
  bits, matches no longer than what `inflate_fast` asks for as room, natural numbers as
  span sizes, a chunk of at least one byte, and streams that are valid or not unless a
  theorem says so; for the copies, that spans are below 2^32 bytes (`SpansFit`), without
  which `inflate_fast` does truncate.
- bits: a byte of at least one bit and a buffer of two; values shorter than the buffer
  (`MAX_BITS` is 15, and no count or extra value is longer) without bits beyond their
  length; stored blocks whose length fits its field, in which the model sets one bit for
  each length.
- checksums: for `adler32` a width that the sums of `NMAX` bytes fit in; for `crc32` a
  byte of at least one bit and any polynomial of the register's width.
- a block's symbols: any literals and matches within the format's lengths and distances,
  a symbol buffer of any size (the tables have the format's sizes in the model itself).
- a block's code lengths: any set of lengths, any sizes of the two codes, any three codes
  for repeats that are not lengths, with 1 to 7 bits for their counts (the code has 2, 3
  and 7), and any order of the bit lengths that names each once.
- other codecs: bzip2, lzma and zstd, not brotli; chunks of at least one byte, an empty
  frame of any size, and chunks and pieces below 4 GiB (`SpansFit` again), without which
  the bzip2 wrapper does cut them.

| Module | Theorem | States |
|---|---|---|
| `CompressorProofs` | `Invariance` | `Spec => []IndInv` |
| | `TypeCorrect` | `TypeOK`: buffers never overrun |
| | `InputIsConserved` | `InputConserved` |
| | `WindowIsSafe` | `WindowSafe` |
| | `StreamIsWellFormed` | `StreamWellFormed` |
| | `StreamIsComplete` | `StreamComplete` |
| | `ShortSpansEndLoops` | `LoopsMayStop` |
| | `RefusalsJustified` | the action property `RejectedOnlyIfUseless` |
| | `CInvariance` | `CSpec => []CIndInv` |
| | `InputNeverDropped` | `NoInputDropped` |
| | `CTypeCorrect` | `CTypeOK` |
| | `FlushDelivers` | `FlushDeliversAll` |
| | `AssertionsHold` | `NoAbort`, for gzip and zlib (for deflate it is false: no object can be made) |
| | `ImplementsContract` | every behaviour of the vector interface is one of `CompressionContract`'s safety part |
| `DecompressorProofs` | `Invariance` | `Spec => []IndInv` |
| | `TypeCorrect` | `TypeOK`: the accumulator holds at most 47 bits, the window's positions stay in it |
| | `InputIsAccounted` | `InputAccounted` |
| | `OutputIsAccounted` | `OutputAccounted` |
| | `ValidIsAccepted` | `ValidAccepted` |
| | `WindowIsRight` | `WindowServesMatches` |
| | `FastIsInInput` | `FastStaysInInput` |
| | `DInvariance` | `DSpec => []DIndInv` |
| | `InputIsTaken` | `InputTaken` |
| | `TwoReasons` | `AbortsForTwoReasons` |
| | `ImplementsDecompressionContract` | `KeepsContract`, for valid streams |
| `HashChainsProofs` | `DictionaryIsExact` | `DictionaryExact` |
| | `SearchSound` | `SearchIsSound` |
| | `TextKept` | `TextIsKept` |
| | `SymbolsSpellTheText` | `SymbolsSpellText`: the engine implements `LZ77` |
| `BlocksProofs` | `SymbolsAreExact` | `SymbolsArrive`: the decoder gets the symbols tallied, sent as often as they were counted |
| | `LengthsAreExact` | `LengthsArrive`: it gets the encoder's code lengths; no stream fills more than it announced |
| `WindowCopyProofs` | `OutputIsRight` | what is written is what the symbols mean, and the window keeps its tail |
| `BitChannelProofs` | `WhatIsReadWasSent` | the parts of `BitsArrive`, for a byte and a buffer of any size |
| `StreamsProofs` | `BitsAreExact` | `BitsArrive`: the same of the component as it is run |
| | `CopyingIsExact` | `CopiesAreExact`: the same of the component as it is run |
| | `SumsInRange` | between batches both sums of `adler32` are below `BASE` |
| | `SumsNeverWrap` | `NeverWraps`: inside a batch they stay below the width |
| | `AdlerIsExact` | `adler32` returns its definition's value |
| | `ChecksumsAreExact` | `ChecksAreExact`: so does `crc32` |
| | `SourceSizes` | the source's `BASE`, `NMAX` and 32 bits are such constants |
| `OtherCodecsProofs` | `PartsInvariance` | `Spec => []PartsInv`, for spans that fit |
| | `DeliversWhatIsWritten` | `DeliveredIsWritten`, for bzip2, lzma and zstd (for brotli it is false, see finding 4) |
| | `LossesAreKnown` | `OnlyKnownLosses`: what returns is whole, what fails loses output only in the cases listed |
| | `SniffsRight` | `HeadersAreTold`, with the two and three bytes of zstd that are misjudged |

The argument for the deflate engine. None of its properties is inductive alone. That
no byte is lost when a match is coded needs the match to be no longer than the
lookahead (`PendingMatchInWindow`), which after a slide needs the room in the window
(`WindowHasRoom`); that the trailer covers the input needs an empty lookahead when
the stream is finished; that a call is not wrongly refused needs `HeldBackIsShort`;
and most need to know which stream status goes with which position in a call,
which is what `Phases` says. `IndInv` is their conjunction; the run `deflate` checks
all of it but `Phases`, which is there for the proof only. The proof has one lemma per group of actions
(`EntryKeepsInv`, `HeaderKeepsInv`, `TrailerKeepsInv`, `FillWindowKeepsInv`,
`MatchingKeepsInv`, `CallerKeepsInv`) and under it one step per action and group
of conjuncts. `FlushPending` and `FoundMatch` are the facts about the helpers.

For the vector interface `CallsInOrder` adds what the methods rely on from each
other: between calls no input is left over, only `flush()` finishes the stream,
and it returns only after the stream's end was reported. `EngineFrame` and
`EngineAborts` say what a step of the engine may change, `CallerKeepsInv` is reused
for the span calls the loops make.

The argument for the inflate engine. What a call takes from the input is in finished
elements or held (`BitsAccounted`); that this survives the accumulator being cleared
after a field needs that no more was held than the field needed (`HeldIsLess`) and that
fields start at whole bytes (`FieldsAreWhole`). `SymbolFits` says which part of an
element is still to come in each mode, so that output is accounted for. That a valid
stream is accepted combines both halves of the engine: a match reaches back no further
than the output (`ReachesOutput`), and the window holds the end of that output, in order
and as much as fits (`WindowInOrder`); what `MatchReadsOutput` says of one copy follows.
`CallInProgress` says that what `inflate_fast` holds was taken in this call once it has
been through a round, so giving back whole bytes never gives back more than was offered.
`Taken`, `TakenField`, `TakenAll`, `Refilled` are the arithmetic of whole bytes and bits,
`WindowUpdated` that of the circular window, `CallEnds` what `inf_leave` keeps; then there
is one lemma per group of actions, as for the deflate engine.

For the loops `LoopsInOrder` adds why a call ended: for want of input, for want of room,
or at the end, and with a literal or match in hand only for want of room. So a chunk that
is not filled means that the input is taken and all it stands for is delivered, which is
the contract's `Return`. `Balance` relates the contract's two counts to the engine's state,
`OutputGrows` and `DecodedKept` that no step takes back either.

The argument for the match finder. `DictionaryExact` says which strings a chain links.
For the proof it becomes a statement about links alone (`Dictionary`): `head` of a key is
its last string and `prev` of a string the one before it with its key, as far as a search
may reach; older links may be stale. The lemmas `DictionaryNarrows`, `DictionaryGrows`,
`DictionarySlides` and `DictionaryReads` say that this survives a window that moves on, a
string inserted, a slide, and new data behind it. `KeyForgets` is the reason the running
key is right: three shifts push a byte out of it. `ThirdByte` is the reason the third byte
need not be compared: with the same key and the same first two bytes it is the same.
`Control` holds what a call leaves behind, above all that a call without flush never
leaves strings at the end of its data uninserted, and `Matches` says that the match in
progress, the best one and the one waiting repeat the text. `LZ77Step` maps each action
to a symbol of `LZ77` or a stutter.

The argument for a block's symbols. What `compress_block` sends is a sequence of pieces,
one for each symbol tallied (`Made` is what the first ones make, `PieceIs` what the next
adds). `SymInv` says that the decoder, in each of its four modes, is at a known place of
the piece of the symbol it has not decoded yet (`Inside`), and that its `length`, `offset`
and `extra` are what that place leaves to be added. So each mode reads a code or a field
that the encoder put there for it, and the two sides' tables need agree on one symbol only:
`_length_code` with `base_length` against `lbase` and `lext`, and `_dist_code`, whose upper
half is shared by 128 distances, against `dbase` and `dext`. `FrequenciesExact` is about sums: a
symbol's piece holds exactly the codes that `_tr_tally` counted for it.

The argument for the code lengths. `scan_tree` and `send_tree` make the same walk over
the lengths; `Waits` says what holds between two steps of it: how many equal lengths are
waiting to be coded, which one was coded before them, and that no more wait than the limits
allow. So every run the walk ends is one that one code or one repeat can tell (`RunCases`),
with a count that fits its bits, and what is sent for a run (`RunSpells`) is what is counted
for it (`RunCounts`). For the decoder, `LenInv` says that what is left of the stream tells
(`Spells`) exactly those lengths of the two trees that have not been read: a repeat that
crosses from one tree to the other is nothing special in it. For streams that no encoder
sends only the bound remains, that no more lengths are filled than were announced.

The argument for the copies. The loop's place in the window or output is an address in
the text (`OutputIsText`, `HoldsTail`): what is at that address is the byte of the match
one distance back, because the text so far is what the window's parts and the output hold
together. `Wrapped` and `Advanced` are the arithmetic of the circular window,
`ExpandedGrows` says that a match longer than its distance repeats itself, `UpdateRight`
that `updatewindow` keeps the tail in all its cases.

The argument for the bits. All streams are runs of bits, a length and the ones, and the
items' bits are laid out by a recursive function. Every operation of the encoder puts
something behind the run that the bytes sent and the bit buffer are together (`SendBits`,
`Flushes`, `Winds`, `StoresBlock`), and never changes a byte sent before (`Grows`). So the
bytes are always the first of the items' bits (`BytesSent`), and the decoder's position in
those, `At`, is the bits of the bytes read less those held. `Position` says where it can
be: at the end of an item, behind the padding before a stored block, or behind that
block's header, with nothing held. What it takes is then the item there (`ReadsSent`,
`CopiesRaw`). `Entered` is what replaces the claim that fewer than 8 bits are held when
`inflate_fast` is entered: what is held is less than a byte or less than the first item
still needs, and after that item `At` is no more than a byte before the entry. So the
bytes given back, which are whole, were read since (`GivesBackItsOwn`). The run `stream`
does not check `Position` and `Entered`, which are there for the proof only.

The argument for the checksums. For `adler32` the invariant bounds both sums by how many
bytes of the batch have been added since they were last reduced: the first by `BASE` and
`MaxByte` for each of them, the second by their triangular number. `SourceSizes` is the
arithmetic that zlib states in a comment next to `NMAX`. The value is exact because both
sums are congruent to the definition's modulo `BASE` at every step. For `crc32` a bit out
of the register is linear over `Xor` (`BitsXor`), and what is above the byte only shifts
(`BitsAbove`), so a byte through `crc_table0` is eight bits (`BitsByTable`, `OneIs`);
`TablesAre` says what the other tables are, and `FourIs` that four bytes through them are
32 single bits. `Folded` gives the recursive definitions a step by step meaning.

The argument for the other codecs. What was given is what the library took and what it
has yet to take (`given = taken + avail_in`), and a call that did not fill its span has
taken all and holds nothing back; so the loop's end loses nothing. For the methods that
fail the invariant adds that a library that reports no progress (`stalled`) wrote nothing
in that call. A loop goes on only after a full chunk, so lzma's second call in a row
without progress, which is the one refused, is never a loop's, and a method's first call
has collected nothing yet. The registry's part is that the formats' first bytes differ
within the four that sniffing needs, and that zlib's test is the last.

Only model-checked:

- liveness: `MethodsReturn`, `CallsReturn` and the liveness part of the compression side's
  `KeepsContract`, out of the provers' reach;
- three properties of a block's code: `CodeIsComplete` and `TablesDecode`, whose sums over
  the code's symbols have not been taken on, and `CodeIsCheapest`: that a Huffman code is
  optimal needs an induction over trees.

The library's induction theorems cannot be instantiated by the provers, but induction over
a set of naturals can be cited (`Induct`, `LeastNatural`), and that is how what the
checksums, the layout of the items, the chains and the walks over code lengths compute is
proved.

## Not modelled, and why

- The fixed code's tables (`static_ltree`, `static_dtree`, `inflate_fixed_tables.h`) are
  data. The bounds `ENOUGH_LENS` and `ENOUGH_DISTS` are those of the original zlib,
  found there by an exhaustive count; `InflateTable` checks that tables stay inside
  `enough` at its own sizes and does not derive 852 and 592 again.
- The sizes of blocks under the three encodings, from which `_tr_flush_block` chooses:
  the choice is nondeterministic in `Deflate`, and each outcome is modelled.
- `deflate_fast` and the other strategies, `deflateParams`, `deflateCopy`, the gzip
  header fields of `gzhead`, dictionaries on the compressing side, `Z_SYNC_FLUSH` and
  the like, `Z_BLOCK`, `Z_TREES`: the wrappers never use them.
- `detect_data_type`: it sets `data_type`, which nothing reads.
- The raw deflate decompressor: its constructor fails like the compressor's.
- Spans of more than 2^32 bytes, and a chunk size of zero (every loop of
  `shared.cpp` then runs for ever or fails an assertion, by inspection). A chunk of any
  other size is within the models.
- What the external libraries do inside; the rule by which zstd gives up after
  repeated calls without progress.
- `FindCompressor` and `FindDecompressor`: a name compared with a list.
- The public header, the error texts, the tests.

## Plan

Done: the engines with counts and with values, the wrappers, the loops, the other
codecs, the registry; proofs of the engines' accounting, of both vector interfaces, of
the match finder with its refinement, of a block's symbols and code lengths, of the bits,
the copies and the checksums, and of the other codecs.

Next, what would add most:

1. The rest of a block's code: that the code `build_tree` makes is complete, also after a
   repair, and that `inflate_table` decodes it.
