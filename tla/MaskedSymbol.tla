----------------------------- MODULE MaskedSymbol -----------------------------
(***************************************************************************)
(* The masking of real symbols: the chunks of an input, encoded as         *)
(* ChunkBits and RSCode say and placed as Symbol shows, are masked as Mask *)
(* says with the masks of MaskPatterns, and read again by Reader.          *)
(***************************************************************************)
EXTENDS Mask, MaskPatterns, Reader, ChunkBits

CONSTANT Reading(_, _)  \* what a reader finds in the symbol of a job and a mask

\* A job has the fields of a symbol and the chunks it is made of.
SymbolOf(j) == [mqr |-> j.mqr, version |-> j.version, level |-> j.level]

ASSUME JobsAssumption ==
  \A j \in Jobs : SymbolOf(j) \in Symbols /\ Encodable(SymbolOf(j), j.chunks)

\* As SymbolProofs shows of every symbol.
ASSUME PlacedAssumption == \A s \in Symbols : EveryBitPlaced(s) /\ BlocksInBuffers(s)

\* The tables of format and version information: they are code words of their
\* codes, and say what they are looked up by.
Informs(mqr, info, number, m) ==
  LET word == Xor({k \in 0..14 : BitAt(info, k) = 1},
                  IF mqr THEN {14, 10, 6, 2, 0} ELSE {14, 12, 10, 4, 1})
  IN  /\ IsMultiple(word, {10, 8, 5, 4, 2, 1, 0}, 0..4)
      /\ Format(mqr, word) = [number |-> number, mask |-> m]
ASSUME FormatAssumption ==
  /\ \A l \in 0..3, m \in 0..7 : Informs(FALSE, QRspec_getFormatInfo(m, l), l, m)
  /\ \A v \in 1..4, l \in 0..3, m \in 0..3 :
       MQRspec_getECCLength(v, l) > 0
         => Informs(TRUE, MQRspec_getFormatInfo(m, v, l), <<0, 1, 3, 5>>[v] + l, m)
ASSUME VersionAssumption ==
  \A v \in 7..QRSPEC_VERSION_MAX :
    LET w    == QRspec_getWidth(v)
        dark == QRspec_createFrame(v).dark
    IN  /\ VersionSays({k \in 0..17 : <<w - 11 + (k % 3), k \div 3>> \in dark}, v)
        /\ VersionSays({k \in 0..17 : <<k \div 3, w - 11 + (k % 3)>> \in dark}, v)

\* The chunks that a reader understands: the modes hold what they are for, and
\* the length field counts it.  (What fits a symbol needs no split.)  The runs
\* that show a finding have others.
ChunkType == [mode : Splittable \cup {"STRUCTURE", "ECI", "FNC1SECOND"}, data : Seq(Nat)]
LengthIndicator(s, mode) ==
  IF s.mqr THEN MQRspec_lengthIndicator(mode, s.version) ELSE QRspec_lengthIndicator(mode, s.version)
IsKanji(hi, lo) == lo \in 64..255 /\ 256 * hi + lo \in (\h8140..\h9ffc) \cup (\he040..\hebbf)
Designators == 0..16383   \* those of one byte or two
Legible(s, c) ==
  LET Counted(n) == n \in 1..(2 ^ LengthIndicator(s, c.mode) - 1)
  IN  \/ c.mode = "NUM" /\ c.data \in Seq(48..57) /\ Counted(Len(c.data))
      \/ /\ c.mode = "AN" /\ Counted(Len(c.data))
         /\ c.data \in Seq((48..57) \cup (65..90) \cup {32, 36, 37, 42, 43, 45, 46, 47, 58})
      \/ c.mode = "B8" /\ c.data \in Seq(0..255) /\ Counted(Len(c.data))
      \/ /\ c.mode = "KANJI" /\ Len(c.data) % 2 = 0 /\ Counted(Len(c.data) \div 2)
         /\ \A k \in 1..(Len(c.data) \div 2) : IsKanji(c.data[2 * k - 1], c.data[2 * k])
      \/ ~ s.mqr /\ c.mode = "STRUCTURE" /\ c.data \in (1..16) \X (1..16) \X (0..255)
      \/ ~ s.mqr /\ c.mode = "ECI" /\ c.data \in Seq(Designators) /\ Len(c.data) = 1
      \/ ~ s.mqr /\ c.mode = "FNC1SECOND" /\ c.data \in Seq(0..255) /\ Len(c.data) = 1
AllLegible ==
  \A j \in Jobs : /\ j.chunks \in Seq(ChunkType)
                 /\ \A k \in DOMAIN j.chunks : Legible(SymbolOf(j), j.chunks[k])

\* QRraw_new, MQRraw_new: the data codes and the error correction of each block.
Datacodes == [j \in Jobs |-> QRinput_getByteStream(SymbolOf(j), j.chunks)]
Ecccodes  == [j \in Jobs |->
  LET raw == Raws[SymbolOf(j)]
      size == raw.eccLength \div raw.blocks
      blocks == [k \in 1..raw.blocks |->
        LET b == raw.rsblock[k]
        IN  RSECC_encode(size, SubSeq(Datacodes[j], b.data + 1, b.data + b.dataLength))]
  IN  [n \in 1..raw.eccLength |-> blocks[((n - 1) \div size) + 1][((n - 1) % size) + 1]]]

\* The frame as QRcode_encodeMask hands it to the masking.
Code(j, bit) == IF bit[1] = "data" THEN Datacodes[j][bit[2] + 1] ELSE Ecccodes[j][bit[2] + 1]
Filled == [j \in Jobs |->
  LET s == SymbolOf(j)
      w == Width(s)
  IN  [p \in DOMAIN Frames[s] |->
         IF p \in FreeModules[s]
         THEN LET bit == Message[s][OrderOf[s][p]]
              IN  IF bit # Remainder /\ 7 - bit[3] \in Code(j, bit) THEN 1 ELSE 0
         ELSE IF <<p % w, p \div w>> \in Darks[s] THEN 1 ELSE 0]]

Made == [j \in Jobs |-> [m \in Masks(j) |-> Masked(SymbolOf(j), Filled[j], m)]]

Scores == [j \in Jobs |-> [m \in Masks(j) |->
  IF j.mqr THEN MMask_evaluateSymbol(Made[j][m], Width(j))
  ELSE Mask_ratioDemerit(Width(j), Blacks(SymbolOf(j), Filled[j], m))
         + Mask_evaluateSymbol(Made[j][m], Width(j))]]
Demerits == [j \in Jobs |-> [m \in Masks(j) |->
  IF j.mqr THEN -Merit(Width(j), Made[j][m]) ELSE Penalty(Width(j), Made[j][m])]]
Readings == [j \in Jobs |-> [m \in Masks(j) |-> Read(SymbolOf(j), Made[j][m])]]

(* What the constants of Mask, and Reading, stand for.                      *)
CodeScore(j, m)       == LET scores == Scores[j] IN scores[m]
StandardDemerit(j, m) == LET demerits == Demerits[j] IN demerits[m]
StandardReading(j, m) == LET readings == Readings[j] IN readings[m]
ASSUME ReadingAssumption ==
  \A j \in Jobs : \A m \in Masks(j) : Reading(j, m) = Readings[j][m]
-----------------------------------------------------------------------------
(* A reader finds in the symbol returned the level, the mask it was made    *)
(* with, blocks without an error, and the text and headers of the input.    *)
DataRecovered ==
  pc = "returned" /\ result # NULL =>
    Reading(job, heap[result]) = [mask |-> heap[result], content |-> Content(job.chunks)]
=============================================================================
