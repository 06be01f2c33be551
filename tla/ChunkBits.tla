------------------------------ MODULE ChunkBits ------------------------------
(***************************************************************************)
(* The contents of the byte stream that src/qrinput.c makes of a list of   *)
(* chunks for a symbol [mqr, version, level], where BitCounts has only the *)
(* lengths.  A chunk is a mode and a sequence: the bytes of its text, the  *)
(* number of an ECI header, the application of an FNC1 header, or size,    *)
(* index and parity of a structured append header.                         *)
(***************************************************************************)
EXTENDS QRSpec, SequencesExt

Counts == INSTANCE BitCounts
CeilDiv(a, b) == Counts!CeilDiv(a, b)

\* The powers of two that numbers of up to 24 bits are cut by.
ASSUME PowersOfTwo == 2 ^ 0 = 1 /\ \A k \in 0..23 : 2 ^ k \in Nat \ {0} /\ 2 ^ (k + 1) = 2 * 2 ^ k

Chunk(mode, data) == [mode |-> mode, data |-> data]

\* BitStream_appendNum: the low `bits' bits of num, the highest of them first.
appendNum(bits, num) == [k \in 1..bits |-> BitAt(num, bits - k)]

\* The data in groups of n bytes, the last one perhaps shorter.
Groups(data, n) ==
  [k \in 1..CeilDiv(Len(data), n) |->
     SubSeq(data, (k - 1) * n + 1, IF k * n < Len(data) THEN k * n ELSE Len(data))]
-----------------------------------------------------------------------------
(* The encoders.                                                            *)
ModeId == [NUM |-> 1, AN |-> 2, B8 |-> 4, KANJI |-> 8, STRUCTURE |-> 3, ECI |-> 7, FNC1SECOND |-> 9]
MQRModeId == [NUM |-> 0, AN |-> 1, B8 |-> 2, KANJI |-> 3]

\* Mode indicator and length; Kanji are counted in characters.
ChunkHead(s, c) ==
  LET size == IF c.mode = "KANJI" THEN Len(c.data) \div 2 ELSE Len(c.data)
  IN  IF s.mqr THEN appendNum(s.version - 1, MQRModeId[c.mode])
                      \o appendNum(MQRspec_lengthIndicator(c.mode, s.version), size)
      ELSE appendNum(4, ModeId[c.mode])
                      \o appendNum(QRspec_lengthIndicator(c.mode, s.version), size)

\* The 45 characters of alphanumeric mode, by code.
QRinput_anTable(c) ==
  LET others == <<32, 36, 37, 42, 43, 45, 46, 47, 58>>   \* space $ % * + - . / :
  IN  IF c \in 48..57 THEN c - 48 ELSE IF c \in 65..90 THEN c - 55
      ELSE 35 + (CHOOSE k \in DOMAIN others : others[k] = c)

KanjiValue(hi, lo) ==
  LET pair == 256 * hi + lo
      val  == pair - (IF pair <= \h9ffc THEN \h8140 ELSE \hc140)
  IN  (val \div 256) * \hc0 + (val % 256)

\* The number of a group of digits or of alphanumeric characters.
NumValue(g) ==
  LET digit(k) == g[k] - 48
  IN  CASE Len(g) = 3 -> 100 * digit(1) + 10 * digit(2) + digit(3)
        [] Len(g) = 2 -> 10 * digit(1) + digit(2)
        [] Len(g) = 1 -> digit(1)
AnValue(g) ==
  IF Len(g) = 2 THEN 45 * QRinput_anTable(g[1]) + QRinput_anTable(g[2]) ELSE QRinput_anTable(g[1])

\* A text by its mode: groups of three digits, of two characters, ...
Text(c) ==
  CASE c.mode = "NUM" ->
         [k \in DOMAIN Groups(c.data, 3) |->
            LET g == Groups(c.data, 3)[k]
            IN  appendNum(<<4, 7, 10>>[Len(g)], NumValue(g))]
    [] c.mode = "AN" ->
         [k \in DOMAIN Groups(c.data, 2) |->
            LET g == Groups(c.data, 2)[k]
            IN  appendNum(<<6, 11>>[Len(g)], AnValue(g))]
    [] c.mode = "B8" -> [k \in DOMAIN c.data |-> appendNum(8, c.data[k])]
    [] c.mode = "KANJI" ->
         [k \in DOMAIN Groups(c.data, 2) |->
            LET g == Groups(c.data, 2)[k] IN appendNum(13, KanjiValue(g[1], g[2]))]

\* The designator's three byte form has its top bits at 0xc0000.
QRinput_encodeModeECI(ecinum) ==
  appendNum(4, ModeId["ECI"])
    \o (IF ecinum < 128 THEN appendNum(8, ecinum)
        ELSE IF ecinum < 16384 THEN appendNum(16, \h8000 + ecinum)
        ELSE appendNum(24, \hc0000 + ecinum))

\* QRinput_encodeBitStream of a chunk that needs no split.
EncodeChunk(s, c) ==
  CASE c.mode = "STRUCTURE" ->
         appendNum(4, ModeId["STRUCTURE"]) \o appendNum(4, c.data[2] - 1)
           \o appendNum(4, c.data[1] - 1) \o appendNum(8, c.data[3])
    [] c.mode = "ECI"        -> QRinput_encodeModeECI(c.data[1])
    [] c.mode = "FNC1SECOND" -> appendNum(4, ModeId["FNC1SECOND"]) \o appendNum(8, c.data[1])
    [] OTHER                 -> ChunkHead(s, c) \o FlattenSeq(Text(c))

\* What a length field cannot count becomes a chunk of its own.
Pieces(s, c) ==
  LET words == IF s.mqr THEN MQRspec_maximumWords(c.mode, s.version)
                        ELSE QRspec_maximumWords(c.mode, s.version)
      parts == IF words = 0 THEN <<c.data>> ELSE Groups(c.data, words)
  IN  [k \in DOMAIN parts |-> Chunk(c.mode, parts[k])]

QRinput_createBitStream(s, chunks) ==
  LET pieces == FlattenSeq([k \in DOMAIN chunks |-> Pieces(s, chunks[k])])
  IN  FlattenSeq([k \in DOMAIN pieces |-> EncodeChunk(s, pieces[k])])
-----------------------------------------------------------------------------
(* Padding and packing.                                                     *)
Zeros(n) == [k \in 1..n |-> 0]
PadBytes(n) == [k \in 1..(8 * n) |-> BitAt(IF ((k - 1) \div 8) % 2 = 0 THEN \hec ELSE \h11,
                                             7 - ((k - 1) % 8))]

\* QRinput_appendPaddingBit: a terminator of up to 4 bits, the rest of the
\* byte, and pad bytes up to the data length.
QRinput_appendPaddingBit(s, bits) ==
  LET maxwords == QRspec_getDataLength(s.version, s.level)
      left     == maxwords * 8 - Len(bits)
      words    == CeilDiv(Len(bits) + 4, 8)
  IN  IF left <= 4 THEN bits \o Zeros(left)
      ELSE bits \o Zeros(words * 8 - Len(bits)) \o PadBytes(maxwords - words)

\* QRinput_appendPaddingBitMQR: the terminator's length depends on the version,
\* and the last codeword of versions 1 and 3 has 4 bits, which stay zero.  The
\* stream may end up longer than the symbol takes, by zeros.
QRinput_appendPaddingBitMQR(s, bits) ==
  LET maxbits  == MQRspec_getDataLengthBit(s.version, s.level)
      maxwords == maxbits \div 8
      termbits == s.version * 2 + 1
      left     == maxbits - Len(bits)
      words    == CeilDiv(Len(bits) + termbits, 8)
      zeros    == words * 8 - Len(bits)
                    + (IF words = maxwords /\ maxbits > words * 8 THEN maxbits - words * 8 ELSE 0)
  IN  IF left <= termbits THEN bits \o Zeros(left)
      ELSE IF words < maxwords
        THEN bits \o Zeros(zeros) \o PadBytes(maxwords - words) \o Zeros(maxbits - maxwords * 8)
      ELSE bits \o Zeros(zeros)

\* BitStream_toByte: a byte is the set of the exponents of its ones, its first
\* bit is worth 128.
BitStream_toByte(bits) ==
  [b \in 1..CeilDiv(Len(bits), 8) |->
     {k \in 0..7 : 8 * b - k <= Len(bits) /\ bits[8 * b - k] = 1}]

Capacity(s) == IF s.mqr THEN MQRspec_getDataLengthBit(s.version, s.level)
               ELSE 8 * QRspec_getDataLength(s.version, s.level)
\* The chunks fit the symbol; others are refused, or given a larger version,
\* which EncodeStream models.
Encodable(s, chunks) ==
  /\ \A k \in DOMAIN chunks : s.mqr => Counts!EncodableMQR(chunks[k], s.version)
  /\ Len(QRinput_createBitStream(s, chunks)) <= Capacity(s)

Padded(s, bits) == IF s.mqr THEN QRinput_appendPaddingBitMQR(s, bits)
                            ELSE QRinput_appendPaddingBit(s, bits)
QRinput_getByteStream(s, chunks) == BitStream_toByte(Padded(s, QRinput_createBitStream(s, chunks)))
=============================================================================
