# A TLA+ specification of libqrencode

libqrencode turns text or bytes into QR Code and Micro QR Code symbols. This
directory holds TLA+ modules that model its encoder, the TLC configurations that
check them on small instances, and TLAPS proofs of what holds for every value of
their constants. Every definition is translated from the C source; file and line
of each are in `PROJECT.json` under `map`.

## 1. The system

```
 text ── split.c ──► chunk list (QRinput) ──► QRinput_getByteStream ──► codewords
            (3)          (2)      │               (1) + bitstream.c (5)      │
                                  │                                          ▼
                     QRinput_splitQRinputToStruct (4)        QRraw/MQRraw: blocks + RSECC (6)
                                  │                                          │ interleaved
                                  ▼                                          ▼
                       up to 16 inputs with headers             FrameFiller ──► frame (7) ──► mask (8)
```

| # | Component | State it keeps | Operations | What makes it correct |
|---|---|---|---|---|
| 1 | Encoding pipeline, `qrinput.c` | version and level of the object, the stream | setters, `QRinput_getByteStream` (estimate, convert, pad) | the search for a version ends in the smallest that holds the data; the padded stream is exactly as long as the symbol |
| 2 | Input objects, `qrinput.c` | linked lists with head and tail, FNC1 flag, struct of objects | new, append, ECI and FNC1 headers, structured-append headers, frees | no chunk is lost, reordered, shared or freed twice; headers lead |
| 3 | Text splitter, `split.c` | position in the string, the list | four "eaters", case conversion | the chunks are the text; Kanji characters are cut as a reader sees them |
| 4 | Structured append, `qrinput.c` | the current chunk, bits of the current symbol | `QRinput_splitQRinputToStruct`, `QRinput_splitEntry` | data in order, every symbol fits with its header, none is empty or wasteful |
| 5 | Bit stream, `bitstream.c` | length, allocated size, data | appends with doubling, reset, toByte | an append-only log, whatever reallocation fails |
| 6 | Reed-Solomon encoder, `rsecc.c` | log tables and generators, built on first use, shared by all threads under one mutex | `RSECC_encode` | no data race; a table is final once published |
| 7 | Symbol construction, `qrencode.c`, `qrspec.c`, `mqrspec.c` | raw codes, frame, filler position | `QRraw_getCode`, `FrameFiller_next`, the loops of `QRcode_encodeMask*` | every bit of the message in its module, all free modules filled, function patterns untouched |
| 8 | Masking, `mask.c`, `mmask.c` | two buffers, the best score and mask so far | `Mask_mask`, `MMask_mask`, the penalty rules, format information | the mask chosen has the least demerit of the standard; the symbol can be read |
| 9 | Entry points and lists of symbols, `qrencode.c` | every block of memory a call holds, the `QRcode_List` | `QRcode_encodeString*`, `QRcode_encodeData*`, `QRcode_encodeInputStructured`, the search of the Micro QR calls | all or nothing, whichever allocation fails; no memory lost; the least Micro QR version |
| 10 | Command line tool, `qrenc.c` | options | option parsing, image writers | not modelled: it formats output; its library calls are those of 9 |

Components interact by calls only. Two interactions are not simple: the object of
(2) **survives** an encode and carries its version and its inserted headers into
the next one, and the tables of (6) are shared by concurrent encodes.

What is hard here: threads that build the shared tables (6); loops that repeat
while their own result changes their input (1: the length field grows with the
version, so a longer version may make the data longer); pointers that become
stale because headers are linked in without renewing the tail (2); bit counts
computed forwards in one place and backwards in another (3, 4); partial failures
of `malloc`/`realloc` (1, 2, 4, 5, 8, 9); blocks of two lengths (7) and half-byte
codewords (1, 7); the same bytes cut, coded, placed and masked by six functions
that must agree (1, 3, 6, 7, 8); a call with up to nine allocations and four exits
for each symbol of a list (9). The list, with the line where each hazard bites and the
properties aimed at it, is `hazards` in `PROJECT.json`.

## 2. Modules

Each component's module is parameterised by CONSTANTS; its `MC...` module gives
them values and its `...Proofs` module holds theorems (those of `StructSplit` are in
`EntryPointsProofs`, with those of the module that extends it).

| Module | Models | State and actions in terms of the code |
|---|---|---|
| `RSECC` | `rsecc.c` | `mutex`, `initialized`, `generatorInitialized` are the C variables; `lookup` and `generator` say whether a table is absent, half filled or complete. A program counter per thread walks through `RSECC_encode`; filling a table takes two steps so that another thread may run between them. |
| `RSService` | abstract | What a caller of `RSECC_encode` sees: one atomic answer per call. |
| `BitStream` | `bitstream.c` | `length`, `datasize`, `data` of the struct. An append first computes its bits (`pending`), then doubles the buffer (`BitStream_expand`) until they fit or `realloc` fails (`ExpandFails`), then writes. Memory that was never written is `Indeterminate`. |
| `BitLog` | abstract | A log that grows at its end or is emptied. |
| `QRSpec` | tables of `qrspec.c`, `mqrspec.c` | Capacities, widths, length indicators, block counts: transcribed, with the functions that read them. |
| `BitCounts` | `QRinput_estimateBits*`, `QRinput_encodeMode*`, `QRinput_lengthOfCode` | For a chunk (mode, size) and a version: bits estimated, bits appended, units that fit. |
| `EncodeStream` | `QRinput_getByteStream` and all it calls; the setters | `phase` is the position in the call. `Estimate` is one turn of `QRinput_estimateVersion`, `Convert` one turn of `QRinput_convertData`, `Pad` the padding; each error return is a phase. The functions that count bits are constants, so that the theorems hold for every data. |
| `ChunkBits` | `QRinput_encodeMode*`, `QRinput_appendPaddingBit*`, `BitStream_toByte` | The bytes a list of chunks becomes, where `BitCounts` has only their number: mode and length indicators, characters in groups, ECI, FNC1 and structured-append headers, terminator and padding. A byte is the set of its bits. |
| `QRInput` | lists of `QRinput`, `QRinput_Struct` | `list[o]` is what is reachable from `head`, `tail[o]` the pointer, `mode` the chunk of a node. `Encode` inserts the FNC1 header as `QRinput_mergeBitStream` does; `InsertHeaders` may stop after any member. An append behind a stale tail cuts the list there, as the code does. |
| `StructSplit` | `QRinput_splitQRinputToStruct` | `chunk`, `offset` locate `list`; `placed` holds the pieces in the symbols so far; each branch of the loop is an action, and so are both error exits and a failed allocation. |
| `SplitString` | `split.c` | `text` after the case conversion, `pos` the pointer, `list` the chunks. One action per eater; an eater that hands over to another is an operator calling the other. Each loop over the string is a function from a place to the next (`DigitsEnd`, `BytesTurn`, `AnTurn`, `KanjiTurn`, `ReadTurn`); `LoopEnd` is where it stops. `from` is history: where each chunk was cut. |
| `EntryPoints` | the calls of `qrencode.c` from text to symbol or list | `EXTENDS StructSplit` and takes the steps of `EncodeStream` by `INSTANCE`, for one member of the list after the other. `pc` is the position in the call, `heap` the live blocks; `object`, `struct`, `raw`, `frame`, `masked`, `code`, `codes` are the C variables of these names and hold the blocks they reach. Each `malloc` may fail (`Starve`); then the exits of the code are taken. |
| `RSCode` | the arithmetic of `rsecc.c` | GF(2^8) built as `RSECC_initLookupTable` does, `generatorPoly`, the division of `RSECC_encode`. |
| `Frame` | `QRspec_newFrame`, `MQRspec_newFrame` | The function modules of each symbol, and which are dark (finders, timing, alignment, version information). |
| `Placement` | `RSblock_init`, tables of blocks; JIS X0510 8.6, 8.7 | The blocks of a symbol, and what the standard says of them: the order of the bytes (`ByTurns`: the first of each block, then the second), of the modules (`Zigzag`, a number for each; `OrderOf` counts the free ones up to it) and so of the bits (`Message`). `Symbol` checks the code against it, and `Reader` relies on it. |
| `Symbol` | `QRraw_*`, `MQRraw_*`, `FrameFiller_*`, loops of `QRcode_encodeMask` and `QRcode_encodeMaskMQR` | `raw` (blocks and counters), `filler` (x, y, dir, bit), `frame`; one step places one bit. A bit is named by the buffer and the position it comes from. |
| `SymbolLayout` | abstract | The free modules take the message's bits one by one in the standard's order. |
| `MaskPatterns` | expressions, penalty rules and format information of `mask.c`, `mmask.c` | Masks and scores computed as the code does (`Mask_evaluateSymbol`: run lengths, line by line), and the demerits of the standard stated without run lengths. |
| `Mask` | `Mask_mask`, `Mask_makeMask`, `MMask_mask`, `MMask_makeMask` | `mask`, `bestMask`, `score` (`minDemerit`, `maxScore`), `turn` (`i`). A block of memory holds the number of the mask its symbol was made with; `malloc` gives a block that is not live, or none. Scores are constants, so that the theorems hold for every symbol. |
| `MaskedSymbol` | the composition | Chunks through `ChunkBits`, `RSCode`, `Placement` and `MaskPatterns` to the symbols that `Mask` chooses from. |
| `Reader` | external: JIS X0510 | Reads a symbol back: format and version information, blocks and their syndromes, bits, text and headers. It shares with the library the tables of lengths and the frames, which `encode` and `symbol` check; the rest is stated anew. |

Definitions called "faulty variant" in a comment (`PadSpareByte`, `IdentifyHalf`,
...) are plausible bugs. No specification uses them; each is there because a
property must fail when it takes the place of the definition it imitates, and
`mutants` in `PROJECT.json` says which.

## 3. Runs

Passing runs:

| Run | Explores | Asks | Bounds, and why they are enough |
|---|---|---|---|
| `rsecc` | whole calls interleaved | Is a shared table ever read while it is written (`NoDataRace`), or changed after it was published (`PublishedTablesAreFinal`)? Is each call atomic to its caller (`ImplementsService`)? Does it return (`EveryCallReturns`)? | Two threads suffice for a race on a table, two lengths for threads that build different generators, one over-long length for the early return; three calls each repeat a request. The theorems cover any number of threads. |
| `encode` | every input, two encodes | Does the search end (`EncodeEnds`), only rise (`SearchOnlyRises`), find the smallest version (`SmallestSufficientVersion`), refuse only what is too large (`RefusedOnlyIfTooLarge`)? Is the stream exactly full (`StreamFillsSymbol`)? | Sizes one below, at and one above the level-L capacity of versions 1, 9, 26 and 40: these are where length fields change and where the range ends; also mixed chunks, structured-append and FNC1 headers, and no data. Encoded at levels L and H (where the same data needs a larger version or none), every Micro QR version, requests 0, 9 and 26, setters in between. |
| `bitstream` | every sequence of appends | Does the buffer implement the log (`ImplementsLog`)? Do the bytes hold it (`BytesHoldStream`)? | A buffer of four bits instead of 128, so that appends need none, one or several doublings and each may fail; streams up to 12 bits pack into bytes with and without a remainder. |
| `qrinput` | every order of calls | Is all data encoded, in order (`DataIntact`)? Does each chunk have one owner, and each tail point into its own list (`ChunksOwned`)? Do headers lead (`HeadersLead`)? | Two objects in a struct make partial insertion of headers visible; five nodes hold two chunks and all headers that can be put around them. Nodes and objects are symmetric. |
| `structsplit` | every call, every failure | Does the split lose data, overfill, leave empty or waste a symbol, cut a character (`DataInOrder`, `SymbolsFit`, `SymbolsNotEmpty`, `NoRoomWasted`, `KanjiWhole`)? Is any block of memory lost, or freed twice (`BlocksOwned`)? Is a list whole and of the version asked for, or absent (`ListComplete`)? Is the Micro QR version the least that will do (`MicroSmallest`)? Does the call return (`CallReturns`)? | `structured` for up to three chunks of each mode and ECI headers, from part of a symbol to more than sixteen, in 1-H (smallest), 1-L and 10-L (longer length fields, and pieces that the search takes for two chunks at first), and version 0; `single` for up to one chunk, with versions 0, 1, 10, and with a version and a level that do not exist; `micro` for lengths at and one above the capacities of all Micro QR symbols, versions 0 to 5, and no text. Any number of allocations fails, each where it occurs. 519,697 states; more symbols per list repeat the same loop. Besides, what `StructSplit` and `EntryPoints` assume of the bit counts is evaluated for the real ones: each version and level, each mode that can be cut, each size up to one that no longer fits, each room (`RealEstimates`, `RealRooms`, `RealCapacities`, `RealLengthFields`). |
| `splitstring` | every string, both hints, both cases | `TextKept`, `NeverRefused`, `PairsWhole`, `CaseOnly`, `NoRepeatedHead` | Up to four runs of digits (1, 4, 7), letters (1, 8), lower case, bytes, and bytes that start a Kanji character before all or some others: lengths on both sides of those at which a change of mode pays, at versions 0 and 10. |
| `symbol` | every bit of 25 symbols | Does interleaving stay in its buffers (`CodesInBuffers`), is the frame filled exactly (`FrameFilled`), in the standard's order (`LayoutSpec`)? | Every Micro QR symbol; QR 1, 2, 5, 7 at all levels and 10-H: with and without alignment patterns, version information, remainder bits, several blocks and blocks of two lengths. Besides, `CapacityAssumption` counts the free modules of all 44 frames, and compares them with the tables at every level. Larger symbols repeat the same patterns and take minutes each. |
| `mask` | every mask of 16 symbols, any failed allocation | Has the mask chosen the least demerit of those tried (`BestOfTried`), is every buffer freed once (`BuffersKept`), is a symbol refused only for want of memory (`RefusedOnlyWhenStarved`)? Does a reader get the input back (`DataRecovered`)? | Every Micro QR symbol and QR 1-L to 1-H, 2-L, 7-H: texts in each mode with partial groups, both ends of both Kanji ranges, bytes 0 and 255, each header, full symbols, several blocks and version information. Each mask is asked for by number, and by -1, and one that does not exist. The scores TLC computes are checked against `ScoresAssumption`, that is, the code's penalty rules against the standard's, on all of them; `ChunksAssumption` says that their chunks meet the condition under which `RecoversData` is proved for all symbols. |

`CHECK_DEADLOCK FALSE` is given where the system stops by itself: a thread has
made its last call, a function has returned, no node is left to allocate.

Runs that show a disagreement between the code and what the repository says of
it (`findings` in `PROJECT.json`):

| Run | Shows |
|---|---|
| `encode_eci` | An ECI header is estimated 16 bits too long, because its case falls through to the code for structured-append headers. 12 bytes behind an ECI header at level H come out as version 3 although version 2 holds them (`qrencode.h:65` says the version is larger only if the data does not fit). |
| `qrinput_reuse` | Each encode of an object with an FNC1 flag leaves one more FNC1 header in its list (`qrencode.h:51` says objects can be reused). |
| `reader_kanji` | One Kanji in a Micro QR symbol of version 2 is encoded, with a mode indicator cut to one bit and no length; it reads as alphanumeric (`README.md:25`, Kanji can be embedded; Kanji needs version 3, but `qrinput.c:661` refuses only version 1). |
| `reader_eci` | An ECI header from 16384 on gets the marker of a one-byte designator: `0xc0000` at `qrinput.c:803` lacks four bits (`qrencode.h:205`, numbers up to 999999). |

Read in the code while modelling, without a run:

* Splitting an input of version 0 fails without setting `errno` (`qrinput.c:1510`;
  `qrencode.h:322` promises it). `EntryPoints` keeps `errno` as the code does.
* A Micro QR call with a version above 4 never enters its loop and returns NULL
  with `errno` untouched (`qrencode.c:661`).
* The Micro QR calls take a failed allocation for a version that is too small and
  try the next (`MicroSmallest` is therefore stated for calls with enough memory).
* The splitter is not optimal: C8 followed by `0000A` becomes 61 bits where one
  chunk of bytes takes 60.
* `Split_identifyMode` takes bytes with a second byte below 0x40 for Kanji
  (`split.c:69`), which Shift-JIS does not have.
* An FNC1 header in first position is never encoded: its entry has size 0, which
  `QRinput_check` refuses for every mode (`qrinput.c:821`: the exemption for this
  mode is undone by the second half of the condition), so that the encode of an
  object after `QRinput_setFNC1First` fails. An object with a flag of the second kind
  and no chunk would follow a NULL head (`qrinput.c:1260`).

### Fairness

`RSECC`: weak fairness for each thread's steps, that is, a runnable thread is
scheduled eventually. The mutex itself is not assumed fair: with finitely many
calls (`MaxCalls`) every waiting thread gets in. Calls are never forced to
happen. `EncodeStream`, `EntryPoints`: weak fairness of the steps of the running
function, which is sequential code and runs until it returns; setters and new
calls are the user's and have none. No allocation is assumed to succeed or to
fail. The other modules state safety only.

## 4. Proofs

The theorems hold for every value of the constants that satisfies the `ASSUME`s;
TLC evaluates those assumptions with the real tables in the runs above.

* **`RSECCProofs`** (any set of threads, lengths and bounds): `TypeCorrect`,
  `RaceFreedom`, `PublishedIsFinal` and `Refinement` (`RSECC` implements
  `RSService`). The inductive invariant says who holds the mutex at each program
  position, that a table which is published is complete, and that a thread past
  the second section has a published generator. `NoDataRace` alone is not
  inductive: it does not say why a thread that encodes without the mutex cannot
  meet a filler.
* **`BitStreamProofs`** (any buffer size and data): `TypeCorrect` (no write past the
  buffer), `Refinement` (`BitStream` implements `BitLog`) and `BytesComplete`
  (`BytesHoldStream`). The invariant adds that a pending append has one of the chunks
  the callers give, a sequence of bits, and has asked for exactly the room it takes;
  that what lies below `length` was written, at whatever growth of the buffer
  (`Written`); and that the bytes returned belong to the present stream
  (`UpToDate`). The value of a byte is a recursive function of its bits, unrolled
  over the at most eight there are (`ValueSteps`), so that no induction is needed.
* **`EncodeStreamProofs`** (any data, bit counts and monotone capacities):
  `TypeCorrect`, `StreamsFillSymbols`, `SearchRises`, and two theorems under the
  condition that the estimate can be trusted (`EstimateTrusted`): `SmallestVersion`,
  an encode ends in the smallest sufficient version, and `RefusesOnlyTooLarge`, it
  refuses only what no version holds. The condition is in the theorems and not an
  assumption of the module, because it is false of ECI headers (run `encode_eci`);
  TLC evaluates it for the data of run `encode`. It does not say that an estimate
  never overshoots, which is false: a chunk of more than 2047 alphanumeric
  characters is counted as two at version 26 and is one at version 27, so with a few
  short chunks beside it the search leaves 26 for 28 although 27 would do, and
  returns to 27 only because its next estimate is smaller. The invariant (`LeastInv`)
  follows this: a version that holds the data is never below the present guess, or
  the present guess leads back to it. For Micro QR, which has no search, it says that
  a refusal is due to the version of the object (`MicroInv`).
* **`EntryPointsProofs`, the split** (any inputs, capacities and header size for which an
  estimate is no smaller than the code and an answer of `QRinput_lengthOfCode` fits
  the room asked for, while one character more would not): `TypeCorrect`,
  `KeepsData`, `Fitting`, `NoEmptySymbol`, `CharactersWhole`, `RoomUsed`. The
  invariant (`Place`, `Pieces`, `Chained`, `Counted`, `Filled`, `Outcome`, `Snug`)
  relates the position in the list, the pieces placed and the bits counted; it is
  needed because `prev` is NULL only in an empty first symbol, and an empty symbol
  always takes something (`RoomAssumption`). `Snug` says that data waiting behind a
  full symbol had no room in it, which `NoRoomWasted` says only once it is placed.

* **`MaskProofs`, the choice** (any jobs and scores for which the code's score is the
  standard's up to sign, below `INT_MAX`, and some Micro QR mask scores above 0):
  `ChoosesBest`, `KeepsBuffers`, `AlwaysChooses`. The invariant says, for each
  position, which pointers are set and that they are all of `heap` (`AtCall`,
  `AtSecond`, `AtTry`, `AtDone`), and that `bestMask` holds the best of the masks
  tried with `score` its score (`BestSoFar`); it is needed because the frees of
  `MMask_mask` depend on whether there was a best mask yet, and because QR and Micro
  QR start from different ends of the scale. `RefusedOnlyWhenStarved` rests on the
  last assumption: with all scores 0, `MMask_mask` would return NULL.
* **`MaskProofs`, the reader** (any jobs, that is, symbols of the tables and chunks that
  fit them): `RecoversData`, that `DataRecovered` holds if the chunks are `AllLegible`,
  and `BlocksAreCodeWords`, on which it rests. `Legible` says that a chunk holds what
  its mode is for (digits, Kanji of the two ranges, ECI numbers up to 16383), and no
  more characters than its length field can count. It is a hypothesis of the theorem
  and not an assumption of the module because it is false of the chunks in the runs
  `reader_kanji` and `reader_eci`, in which `DataRecovered` fails; TLC evaluates it for
  the jobs of run `mask` (`ChunksAssumption`). The argument follows the code from its
  end to its beginning:
  * *Masks.* The eight expressions of `mask.c` and the four of `mmask.c` are the
    conditions of the standard (`Inverts`), and a module inverted twice is what it
    was (`Unmasked`); the function patterns are not masked, so that format
    and version information are read where they were written (`FormatSays`,
    `VersionReads`).
  * *Places.* Each bit of each codeword is the bit of some free module
    (`PlacedAssumption`, which is `SymbolsPlaced` of `SymbolProofs`), so that the reader
    finds the codewords again, block by block.
  * *Blocks.* `RSECC_encode` makes a word of the Reed-Solomon code of any data, for
    each of the 29 generators (`BlocksAreCodeWords`). Horner's rule is a recursion of
    one solution (`HornerUnique`), so that the syndrome is linear by exhibiting the
    solution (`SyndromeScaled`, `SyndromeConcat`); one byte of the division scales the
    syndrome of the remainder (`EncodeByteSyndrome`). That there is no byte at which
    it first fails takes the place of an induction.
  * *Bytes.* Packing loses no bit (`BytesMade`), and padding only appends: a terminator,
    zeros and pad bytes behind the stream, which then is exactly full.
  * *Stream.* Each chunk is read back from wherever its bits lie in a stream
    (`ReadsBack`): a text by its mode indicator, its length and its groups, each of
    which is a number below a power of two (`TextReadsBack`), and the headers field
    by field (`FNC1Read`, `StructureRead`, `ECIRead`). A chunk that fits a symbol is
    never cut by `QRinput_encodeBitStream` (`LegiblePieces`), so the stream is the
    codes of the chunks one behind the other (`StreamCodes`), and each turn of the
    reader takes one (`StepsRead`). What it meets behind the last is a terminator, or
    too little room for one (`EndTerminated`); and no chunk begins like a terminator
    (`NoTerminator`), which is where the mode indicators of Micro QR, 0 to 3 bits wide,
    need the length field behind them not to be zero.

  The modules that `MaskedSymbol` extends state closed formulas about tables and
  numbers, which TLC evaluates in run `mask`: that `alpha` and `aindex` are the powers
  and logarithms of a field's root (`PowersAssumption`, `LogsAssumption`), that the
  generators have the roots they are made of (`GeneratorAssumption`), that format and
  version words say what they are looked up by (`FormatAssumption`,
  `VersionAssumption`), the first powers of two (`PowersOfTwo`). `ReadingAssumption`
  gives the constant `Reading` its meaning.
* **`EntryPointsProofs`, the calls** (any calls, capacities, bit counts and number of symbols;
  `CallsAssumption` says only what a call is):
  * `MemoryOwned`: `BlocksOwned`. The invariant adds the kinds of blocks each
    variable may reach, the positions at which it may be set, and that the symbols
    in the list were made before the one being made (`Kinds`, `Live`, `Earlier`,
    `Fresh`). Without them a free could take away a block that something else still
    reaches: `BlocksOwned` alone does not say that `raw` and the list are disjoint.
  * `SplitsWell`: the safety properties of `StructSplit`, inside a whole call. The
    invariant of the split alone (`IInv`) is used as it is: outside the split nothing but `errno`
    changes of what it speaks of.
  * `FindsSmallest`: `MicroSmallest`. The invariant follows the search (`Tried`,
    `Encoding`, `Taken`, `PassedOver`): unless memory was short no version below the
    present one takes the text, and a stream that is padded fits the version.
  * `MakesWholeList`: `ListComplete`. The invariant (`Listed`) says which of the list's
    entries are whole symbols at each position of the call. That a symbol keeps the
    version (`KeepsVersion`) needs the split's arithmetic: the pieces of a symbol lie
    together and its count is their sum (`Tallied`), so the member with its header
    fits (`MemberSizes`, `MemberFits`). An estimate made at a lower version, where a search begins, may ask
    for more: at 10-L a byte chunk of 257 to 271 bytes counts as two chunks at versions
    up to 9, and so do more than 2048 alphanumeric characters below 27.
    `EstimatesNearAssumption` admits that. It says that such an estimate is at most one
    part in `Margin` too high, that the next version has more room than that, and that
    length fields do not grow twice in a row. So a guess is at most one version too
    high, and the search, which goes one below its first find, comes back
    (`SearchNear`, `SearchKeepsNear`): this is what the `version--` of
    `QRinput_estimateVersion` (`qrinput.c:947`) does for a list of symbols. TLC finds
    the assumption true of the real functions at all 160 pairs of version and level
    (run `structsplit`): it excludes no list of text chunks. The
    lemmas on `Total` (`SumsExist` to `TotalBehind`) reason about a sum over a list
    through the least place where two of them would differ.

* **`QRInputProofs`** (any pool of nodes, objects and bounds, and any sequence of
  calls): `TypeCorrect`, `KeepsData`, `OwnsChunks`, `HeadersFirst`. `DataIntact` is
  not inductive: it does not say what an append behind a stale tail cuts off. The
  invariant (`Lists`, `Allocated`, `Apart`) says of each list that the chunk
  appended last is the one the tail points to, so that only headers lie behind it
  (`LastGiven`), that the data stands in the order in which it was given (`Aged`),
  headers before it (`Led`), and that no two lists share a node.
* **`SplitStringProofs`** (any strings of the bytes 1 to 255, versions 0 to 40, both
  hints): `CutsTheText`, `NeverRefuses`, `KeepsPairs`, `ChangesCaseOnly`,
  `RepeatsNoHead`. A loop over a string is a recursive function, of which `PathExists`
  shows that it exists (as the least closed set of places, without induction
  over data) and `Traces` and `LoopEnds` what it visits. From there, one lemma says
  where each eater's loop ends (`BytesRun`, `AnRun`, `KanjiRun`, `DigitsRun`), and one
  what each eater cuts, the eaters it hands over to included (`EatNumOK` to
  `EatKanjiOK`). The invariant says that the pointer is a place where a
  reader from the left stops too (`AtPlace`): the eaters need not agree with one
  another but with that reader, which is why Kanji characters stay whole (`Found`).
  `Heads` says why the mode left last does not begin again; for digits behind letters
  this is arithmetic of the estimates (`NoReturn`): the digits that are cheap enough to
  leave alphanumeric mode are too many for `Split_eatNum` to hand them back.
* **`SymbolProofs`** (any set of QR symbols of versions 1 to 40 and Micro QR symbols
  of 1 to 4, at every level): `ReadsInBuffers`, `FillsFrame`, `LaysMessage`, that
  `Symbol` implements `SymbolLayout`, and `SymbolsPlaced`, that the message names every
  bit of every codeword and its blocks cover the buffers, which `MaskedSymbol` takes
  over (`PlacedAssumption`). Two assumptions: `SymbolsAssumption` says what
  a symbol is; `FitsAssumption` says that its frame leaves as many modules free as the
  message has bits, the lower right corner among them. TLC evaluates the
  second for the symbols of run `symbol`, and for all 44 frames, with the numbers of
  the capacity table in place of the blocks', which it compares with them at every
  level (`CapacityAssumption`); all
  else about tables and frames the proof reads from their definitions (`QRTables`,
  `MQRTables`, `FunctionColumns`). The argument, in five parts:
  * *Interleaving.* The bytes of the blocks are a grid whose last column is shorter
    from above; `QRraw_getCode` walks it column by column (`GridAt`), and the number of
    bytes not later than the n-th is n, whatever the block lengths (`DataTaken`,
    `EccTaken`). That the rows skipped in the last column are `b1` is where the
    index of the code is right.
  * *The walk.* `Zigzag` numbers the modules; a move goes to the next number, or, at
    the top or the bottom of a pair of columns, past numbers of function patterns only
    (`Moves`): this is where the jump over the vertical timing pattern, and by 9
    rows beside it, is right.
  * *The search.* The recursive function in `FrameFiller_next` exists (`SearchExists`,
    without induction over data), and it ends, since each move raises the number
    (`SearchFinds`, by the number nearest the end at which it could fail).
  * *Counting.* One more free module lies up to the one found than up to the last
    (`CountNext`); so the place of the next bit is the next in `OrderOf`.
  * *The invariant* (`CodeTaken`, `BitsWritten`): the codeword in hand is the one `count`
    says, and exactly the free modules up to the filler are written, as many as bits
    are placed. `FrameFilled` alone is not inductive: that the search does not come
    back empty follows from the count of bits left, not from the filler's position.

Every invariant, action property and refinement of the passing runs is a theorem. Only
model-checked are the liveness properties (`EveryCallReturns`, `EncodeEnds`,
`CallReturns`), which TLAPS cannot prove, and the assumptions above, which are closed
formulas about tables. What a recursive function computes is proved without induction
over data: that it exists, and that no first place is left where it could differ.
Under a condition only are `SmallestVersion`, `RefusesOnlyTooLarge` (`EstimateTrusted`)
and `RecoversData` (`AllLegible`). The version in `MakesWholeList` is shown for lists
without ECI headers, as in `ListComplete`; the assumptions on bit counts that it and the
theorems on the split rest on are evaluated for the real functions at every version and
level, not only at those of the run.

## 5. What is abstracted, and what is not modelled

* `EncodeStream`, `StructSplit` and `EntryPoints` count bits, `BitStream` appends
  them; their meaning is the matter of `ChunkBits` and `Reader`.
* `RSECC` says whether the tables a computation read were complete, `Symbol` names
  ECC codewords by position; their values are those of `RSCode`, in `MaskedSymbol`.
* `EntryPoints` takes the filling of the frame and the masking as one step each,
  which fails or not: `Symbol` shows that the filler never ends early, `Mask` looks
  into the masking. The inputs that a split makes count as one block, so what its error
  paths free is not seen chunk by chunk. The text splitter is not composed with it: an input is a list
  of chunks as the splitter appends, the same at every Micro QR version, and
  appending it is one step. An ECI header is exempt from the version in
  `ListComplete`, because of finding `encode_eci`.
* The mask -2, which exists only in builds with tests and does not check its
  `malloc`.
* Failed allocations in `SplitString` and `Symbol` (their only effect there is to
  end the function with an error); they are modelled in all other components.
* The parity byte of structured append is an input (`ChunkBits` writes it, `Reader`
  reads it); that `QRinput_Struct_calcParity` is the XOR of the data is not checked.
* Not modelled: `qrenc.c`, which parses options and writes images (formats, files,
  libpng) and calls the library only as in `EntryPoints`; the tests, which are read
  as statements of what is promised; an ECI header in a Micro QR object, which reads
  outside a table (`mqrspec.c:109`); the FNC1 flag that `QRinput_dup` drops
  (`qrinput.c:328`), of which nothing is promised.

## 6. Plan

Done: the pipeline from chunks to masked symbol, the shared tables, the calls that
compose them, and a reader of their result. Left:

1. The text splitter in front of `EntryPoints`.
2. Objects that live across the calls of `EntryPoints`, with the FNC1 flag.
