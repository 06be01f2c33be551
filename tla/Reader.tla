-------------------------------- MODULE Reader --------------------------------
(***************************************************************************)
(* How a symbol is read according to JIS X0510:2004, the reference that the*)
(* symbols of the library are checked by: the format information and from  *)
(* it the level and the mask, for versions from 7 on the version informa-  *)
(* tion, the code words of the blocks, their bits, and the text these      *)
(* encode.  Nothing is corrected: an intact symbol has no errors.  The     *)
(* tables of lengths and the frames are those of the library, which        *)
(* EncodeStream and Symbol check; all else is stated anew.                 *)
(***************************************************************************)
EXTENDS Placement, RSCode, SequencesExt, FiniteSetsExt

Unreadable == [mode |-> "UNREADABLE", data |-> <<0>>]

(* Multiples of a polynomial over GF(2), a set of exponents; a quotient has *)
(* an exponent for each data bit.                                           *)
IsMultiple(word, polynomial, quotients) ==
  \E q \in SUBSET quotients :
    word = {k \in 0..17 : Cardinality({e \in q : k - e \in polynomial}) % 2 = 1}

\* The modules, top bit first, of the two copies for QR, of the one of Micro QR.
FormatCopies(mqr, w) ==
  IF mqr THEN {[k \in 1..15 |-> IF k <= 8 THEN <<k, 8>> ELSE <<8, 16 - k>>]}
  ELSE {<<<<0, 8>>, <<1, 8>>, <<2, 8>>, <<3, 8>>, <<4, 8>>, <<5, 8>>, <<7, 8>>, <<8, 8>>,
          <<8, 7>>, <<8, 5>>, <<8, 4>>, <<8, 3>>, <<8, 2>>, <<8, 1>>, <<8, 0>>>>,
        [k \in 1..15 |-> IF k <= 7 THEN <<8, w - k>> ELSE <<w - 16 + k, 8>>]}
FormatWord(mqr, w, dark, copy) ==
  Xor({k \in 0..14 : dark[copy[15 - k][2] * w + copy[15 - k][1]] = 1},
      IF mqr THEN {14, 10, 6, 2, 0} ELSE {14, 12, 10, 4, 1})

\* The n bits from p on, the first worth most.
Number(bits, p, n) ==
  LET value[k \in 0..n] == IF k = 0 THEN 0 ELSE 2 * value[k - 1] + bits[p + k - 1]
  IN  value[n]

\* What the five data bits say: L is 01, M 00, Q 11 and H 10; for Micro QR
\* they are the number of a version and level, and two bits of mask.
Format(mqr, word) ==
  LET value == Number([k \in 1..5 |-> IF 15 - k \in word THEN 1 ELSE 0], 1, 5)
  IN  IF mqr THEN [number |-> value \div 4, mask |-> value % 4]
             ELSE [number |-> <<1, 0, 3, 2>>[(value \div 8) + 1], mask |-> value % 8]
SymbolNumber(s) == IF s.mqr THEN <<0, 1, 3, 5>>[s.version] + s.level ELSE s.level

\* Version information: a block at the upper right and its mirror image.
VersionWords(w, dark) ==
  {{k \in 0..17 : dark[(k \div 3) * w + w - 11 + (k % 3)] = 1},
   {k \in 0..17 : dark[(w - 11 + (k % 3)) * w + (k \div 3)] = 1}}
VersionSays(word, version) ==
  /\ IsMultiple(word, {12, 11, 10, 9, 8, 5, 2, 0}, 0..5)
  /\ Number([k \in 1..6 |-> IF 18 - k \in word THEN 1 ELSE 0], 1, 6) = version
VersionRead(w, dark, version) == \A word \in VersionWords(w, dark) : VersionSays(word, version)
-----------------------------------------------------------------------------
(* Codewords.                                                               *)
\* The condition, in row y and column x, of a mask pattern.
Inverted(pattern, y, x) ==
  CASE pattern = 0 -> (y + x) % 2 = 0
    [] pattern = 1 -> y % 2 = 0
    [] pattern = 2 -> x % 3 = 0
    [] pattern = 3 -> (y + x) % 3 = 0
    [] pattern = 4 -> ((y \div 2) + (x \div 3)) % 2 = 0
    [] pattern = 5 -> (y * x) % 6 = 0
    [] pattern = 6 -> (y * x) % 6 < 3
    [] pattern = 7 -> (y + x + ((y * x) % 3)) % 2 = 0

\* The bits of a codeword <<"data", n>> or <<"ecc", n>>: module and number.
WordBits ==
  [s \in Symbols |-> [word \in Words(s) |->
     LET bit(p) == Message[s][OrderOf[s][p]]
     IN  {<<p, bit(p)[3]>> : p \in {q \in FreeModules[s] : bit(q)[1] = word[1] /\ bit(q)[2] = word[2]}}]]

\* A codeword, its first bit worth 128.
Codeword(s, dark, pattern, word) ==
  LET w == Width(s)
      Set(p) == dark[p] = IF Inverted(IF s.mqr THEN <<1, 4, 6, 7>>[pattern + 1] ELSE pattern,
                                      p \div w, p % w) THEN 0 ELSE 1
  IN  {7 - bit[2] : bit \in {b \in WordBits[s][word] : Set(b[1])}}
\* Those of the data and then those of the error correction.
Codewords(s, dark, pattern) ==
  [n \in 1..Raws[s].dataLength |-> Codeword(s, dark, pattern, <<"data", n - 1>>)]
    \o [n \in 1..Raws[s].eccLength |-> Codeword(s, dark, pattern, <<"ecc", n - 1>>)]

\* Every block, data and error correction, is a word of the code.
BlocksIntact(s, codewords) ==
  LET length == Raws[s].eccLength \div Raws[s].blocks
  IN  \A k \in 1..Raws[s].blocks :
        LET b == Raws[s].rsblock[k]
            e == Raws[s].dataLength + (k - 1) * length
        IN  IsCodeWord(SubSeq(codewords, b.data + 1, b.data + b.dataLength)
                         \o SubSeq(codewords, e + 1, e + length), length)
-----------------------------------------------------------------------------
(* The text.                                                                *)
ModeOf(s, id) ==
  IF s.mqr THEN <<"NUM", "AN", "B8", "KANJI">>[id + 1]
  ELSE CASE id = 1 -> "NUM" [] id = 2 -> "AN" [] id = 4 -> "B8" [] id = 8 -> "KANJI"
         [] id = 3 -> "STRUCTURE" [] id = 7 -> "ECI" [] id = 9 -> "FNC1SECOND"
         [] OTHER -> "UNREADABLE"

Characters == <<32, 36, 37, 42, 43, 45, 46, 47, 58>>
Alphanumeric(v) == IF v < 10 THEN 48 + v ELSE IF v < 36 THEN 55 + v ELSE Characters[v - 35]

Kanji(v) ==
  LET pair == (v \div 192) * 256 + (v % 192)
      code == pair + (IF pair < \h1f00 THEN \h8140 ELSE \hc140)
  IN  <<code \div 256, code % 256>>

\* A group of characters is a number: its bits, and what it says.
GroupSize(mode)    == CASE mode = "NUM" -> 3 [] mode = "AN" -> 2 [] OTHER -> 1
GroupBits(mode, n) == CASE mode = "NUM" -> <<4, 7, 10>>[n] [] mode = "AN" -> <<6, 11>>[n]
                        [] mode = "B8" -> 8 [] mode = "KANJI" -> 13
GroupText(mode, n, v) ==
  CASE mode = "NUM"   -> [k \in 1..n |-> 48 + ((v \div <<1, 10, 100>>[n - k + 1]) % 10)]
    [] mode = "AN"    -> [k \in 1..n |-> Alphanumeric((v \div <<1, 45>>[n - k + 1]) % 45)]
    [] mode = "B8"    -> <<v>>
    [] mode = "KANJI" -> Kanji(v)

\* The chunk of `count' characters whose first bit is p, and where the next starts.
TextChunk(bits, mode, count, p) ==
  LET g == GroupSize(mode)
      full   == count \div g
      rest   == count % g
      next   == p + full * GroupBits(mode, g) + (IF rest = 0 THEN 0 ELSE GroupBits(mode, rest))
      group(k, n) == GroupText(mode, n, Number(bits, p + (k - 1) * GroupBits(mode, g), GroupBits(mode, n)))
  IN  IF next > Len(bits) + 1 THEN [chunk |-> Unreadable, next |-> 0]
      ELSE [chunk |-> [mode |-> mode,
                       data |-> FlattenSeq([k \in 1..full |-> group(k, g)])
                                  \o (IF rest = 0 THEN <<>> ELSE group(full + 1, rest))],
            next |-> next]

\* The designator of an ECI tells its length by its first bits: 0, 10 or 110.
ECIBytes(bits, p) == IF bits[p] = 0 THEN 1 ELSE IF bits[p + 1] = 0 THEN 2 ELSE 3

ReadChunk(s, bits, p) ==
  LET idBits == IF s.mqr THEN s.version - 1 ELSE 4
      mode   == ModeOf(s, IF idBits = 0 THEN 0 ELSE Number(bits, p, idBits))
      q      == p + idBits
      Fixed(data, n) == [chunk |-> [mode |-> mode, data |-> data], next |-> q + n]
  IN  CASE mode = "UNREADABLE" -> [chunk |-> Unreadable, next |-> 0]
        [] mode = "STRUCTURE"  ->
             Fixed(<<1 + Number(bits, q + 4, 4), 1 + Number(bits, q, 4), Number(bits, q + 8, 8)>>, 16)
        [] mode = "FNC1SECOND" -> Fixed(<<Number(bits, q, 8)>>, 8)
        [] mode = "ECI" -> LET n == ECIBytes(bits, q)
                           IN  Fixed(<<Number(bits, q + n, 7 * n)>>, 8 * n)
        [] OTHER -> LET l == IF s.mqr THEN MQRspec_lengthIndicator(mode, s.version)
                                      ELSE QRspec_lengthIndicator(mode, s.version)
                    IN  TextChunk(bits, mode, Number(bits, q, l), q + l)

\* Reading ends at the terminator, of which only as much as fits is there.
Terminated(s, bits, p) ==
  LET n == IF s.mqr THEN 2 * s.version + 1 ELSE 4
  IN  Len(bits) + 1 - p < n \/ Number(bits, p, n) = 0

\* What is read, and where it goes on: nowhere behind the end.
ReadOn(s, bits, read) ==
  LET c == ReadChunk(s, bits, read.next)
  IN  IF read.next = 0 \/ Terminated(s, bits, read.next) THEN read
      ELSE IF c.next \in 1..(Len(bits) + 1)
        THEN [next |-> c.next, chunks |-> Append(read.chunks, c.chunk)]
        ELSE [next |-> 0, chunks |-> Append(read.chunks, Unreadable)]

\* No chunk is shorter than four bits.
ReadBits(s, bits) ==
  LET read[n \in 0..(Len(bits) \div 4)] ==
        IF n = 0 THEN [next |-> 1, chunks |-> <<>>] ELSE ReadOn(s, bits, read[n - 1])
  IN  read[Len(bits) \div 4].chunks

\* The characters, each with its mode: how a text is cut into chunks of one
\* mode says nothing.
Content(chunks) ==
  FlattenSeq([k \in DOMAIN chunks |->
    [n \in DOMAIN chunks[k].data |-> <<chunks[k].mode, chunks[k].data[n]>>]])

\* The bits of the data codewords.
DataStream(s, codewords) ==
  [k \in 1..DataBits(s) |-> IF 7 - ((k - 1) % 8) \in codewords[((k - 1) \div 8) + 1] THEN 1 ELSE 0]

\* What a symbol says; s tells its size.
Read(s, dark) ==
  LET w     == Width(s)
      words == {FormatWord(s.mqr, w, dark, copy) : copy \in FormatCopies(s.mqr, w)}
      said  == Format(s.mqr, CHOOSE word \in words : TRUE)
      codewords == Codewords(s, dark, said.mask)
      intact == /\ Cardinality(words) = 1
                /\ \A word \in words : IsMultiple(word, {10, 8, 5, 4, 2, 1, 0}, 0..4)
                /\ s.mqr \/ s.version < 7 \/ VersionRead(w, dark, s.version)
                /\ said.number = SymbolNumber(s)
                /\ BlocksIntact(s, codewords)
  IN  IF intact THEN [mask |-> said.mask, content |-> Content(ReadBits(s, DataStream(s, codewords)))]
                ELSE [mask |-> -1, content |-> <<>>]
-----------------------------------------------------------------------------
(* Penalties.  What lies outside a line is light.                           *)
Runs(line) ==
  LET cell(k) == IF k \in DOMAIN line THEN line[k] ELSE 0
      Uniform(from, n, v) == \A k \in from..(from + n - 1) : cell(k) = v
      fives == {k \in 1..(Len(line) - 4) : \A n \in 1..4 : line[k + n] = line[k]}
      heads == {k \in fives : k = 1 \/ line[k - 1] # line[k]}
      Finder(k, f) ==
        /\ k + 7 * f - 1 <= Len(line)
        /\ cell(k - 1) = 0 /\ Uniform(k, f, 1) /\ Uniform(k + f, f, 0)
        /\ Uniform(k + 2 * f, 3 * f, 1)
        /\ Uniform(k + 5 * f, f, 0) /\ Uniform(k + 6 * f, f, 1) /\ cell(k + 7 * f) = 0
        /\ Uniform(k - 4 * f, 4 * f, 0) \/ Uniform(k + 7 * f, 4 * f, 0)
      finders == {n \in (1..Len(line)) \X (1..(Len(line) \div 7)) : Finder(n[1], n[2])}
  \* 3 for a run of five, 1 for each module more; 40 for a finder-like pattern
  IN  Cardinality(fives) + 2 * Cardinality(heads) + 40 * Cardinality(finders)

\* 3 for each block of two by two of one colour, and 10 for each step of 5 %
\* that the share of dark modules is away from one half.
Penalty(w, dark) ==
  LET at(x, y) == dark[y * w + x]
      Square(x, y) == \A a, b \in {0, 1} : at(x + a, y + b) = at(x, y)
      squares  == {n \in (0..(w - 2)) \X (0..(w - 2)) : Square(n[1], n[2])}
      ones     == Cardinality({p \in DOMAIN dark : dark[p] = 1})
      percent  == (200 * ones + w * w) \div (2 * w * w)   \* rounded
      away     == IF percent >= 50 THEN percent - 50 ELSE 50 - percent
  IN  MapThenSumSet(LAMBDA n : Runs([k \in 1..w |-> at(k - 1, n)]) + Runs([k \in 1..w |-> at(n, k - 1)]),
                    0..(w - 1))
        + 3 * Cardinality(squares) + 10 * (away \div 5)

\* Micro QR: what a symbol is chosen for, the dark modules at its open sides.
Merit(w, dark) ==
  LET right == Cardinality({k \in 1..(w - 1) : dark[k * w + w - 1] = 1})
      lower == Cardinality({k \in 1..(w - 1) : dark[w * (w - 1) + k] = 1})
  IN  IF right <= lower THEN 16 * right + lower ELSE 16 * lower + right
=============================================================================
