------------------------------ MODULE BitCounts ------------------------------
(***************************************************************************)
(* How many bits an input takes: the estimate of src/qrinput.c (used to    *)
(* choose a version before encoding) next to what its encoders append, and *)
(* the inverse, how much data fits in a number of bits.  An entry is a     *)
(* record with its mode, its size in bytes and, for an ECI header, the     *)
(* number of designator bytes (eci); its contents do not change its length.*)
(***************************************************************************)
EXTENDS QRSpec, SequencesExt

MODE_INDICATOR_SIZE == 4
STRUCTURE_HEADER_SIZE == 20

Entry(mode, size) == [mode |-> mode, size |-> size, eci |-> 0]
ECIEntry(bytes)   == [mode |-> "ECI", size |-> 4, eci |-> bytes]

(* The payload of a chunk, as estimated.                                    *)
QRinput_estimateBitsModeNum(size)   == (size \div 3) * 10 + <<0, 4, 7>>[(size % 3) + 1]
QRinput_estimateBitsModeAn(size)    == (size \div 2) * 11 + 6 * (size % 2)
QRinput_estimateBitsMode8(size)     == size * 8
QRinput_estimateBitsModeKanji(size) == (size \div 2) * 13
QRinput_estimateBitsModeECI(e)      == MODE_INDICATOR_SIZE + 8 * e.eci

CeilDiv(a, b) == (a + b - 1) \div b

(* QRinput_estimateBitStreamSizeOfEntry, QR symbols.  The number of chunks  *)
(* assumes 2^l units a chunk (an encoder puts 2^l - 1 in one), and an ECI   *)
(* designator falls through to the chunk count with l = 0: one "chunk" for  *)
(* each of its four stored bytes, on top of its own mode indicator.         *)
EstimateEntry(e, version) ==
  LET l     == QRspec_lengthIndicator(e.mode, IF version = 0 THEN 1 ELSE version)
      units == IF e.mode = "KANJI" THEN e.size \div 2 ELSE e.size
      heads == CeilDiv(units, 2 ^ l) * (MODE_INDICATOR_SIZE + l)
  IN  CASE e.mode = "NUM"        -> QRinput_estimateBitsModeNum(e.size) + heads
        [] e.mode = "AN"         -> QRinput_estimateBitsModeAn(e.size) + heads
        [] e.mode = "B8"         -> QRinput_estimateBitsMode8(e.size) + heads
        [] e.mode = "KANJI"      -> QRinput_estimateBitsModeKanji(e.size) + heads
        [] e.mode = "ECI"        -> QRinput_estimateBitsModeECI(e) + heads
        [] e.mode = "STRUCTURE"  -> STRUCTURE_HEADER_SIZE
        [] e.mode = "FNC1FIRST"  -> MODE_INDICATOR_SIZE
        [] e.mode = "FNC1SECOND" -> MODE_INDICATOR_SIZE + 8

(* The bits each encoder appends; head is those of the mode indicator and   *)
(* the length field.                                                        *)
QRinput_encodeModeNum(size, head) ==
  head + 10 * (size \div 3) + (CASE size % 3 = 0 -> 0 [] size % 3 = 1 -> 4 [] size % 3 = 2 -> 7)
QRinput_encodeModeAn(size, head)    == head + 11 * (size \div 2) + 6 * (size % 2)
QRinput_encodeMode8(size, head)     == head + 8 * size
QRinput_encodeModeKanji(size, head) == head + 13 * CeilDiv(size, 2)
QRinput_encodeModeStructure         == 4 + 4 + 4 + 8
QRinput_encodeModeFNC1Second        == 4 + 8
QRinput_encodeModeECI(e)            == 4 + 8 * e.eci

EncodeMode(mode, size, head) ==
  CASE mode = "NUM"   -> QRinput_encodeModeNum(size, head)
    [] mode = "AN"    -> QRinput_encodeModeAn(size, head)
    [] mode = "B8"    -> QRinput_encodeMode8(size, head)
    [] mode = "KANJI" -> QRinput_encodeModeKanji(size, head)

(* QRinput_encodeBitStream: a chunk larger than the length field allows     *)
(* (words) is cut into full chunks and a last one, each with a head.        *)
EncodeBitStream(e, words, head) ==
  LET full == IF words = 0 THEN 0 ELSE (e.size - 1) \div words
  IN  full * EncodeMode(e.mode, words, head) + EncodeMode(e.mode, e.size - full * words, head)

EncodedEntry(e, version) ==
  CASE e.mode = "STRUCTURE"  -> QRinput_encodeModeStructure
    [] e.mode = "FNC1FIRST"  -> 0
    [] e.mode = "FNC1SECOND" -> QRinput_encodeModeFNC1Second
    [] e.mode = "ECI"        -> QRinput_encodeModeECI(e)
    [] OTHER -> EncodeBitStream(e, QRspec_maximumWords(e.mode, version),
                                MODE_INDICATOR_SIZE + QRspec_lengthIndicator(e.mode, version))

(* The same for Micro QR: the mode indicator takes version - 1 bits, and a  *)
(* mode the version lacks is refused (ERANGE).  The modes of this branch    *)
(* are the splittable ones: the length table has no row for the others.     *)
EncodableMQR(e, version) ==
  version >= (CASE e.mode = "NUM" -> 1 [] e.mode = "B8" -> 3 [] OTHER -> 2)

EncodedEntryMQR(e, version) ==
  EncodeBitStream(e, MQRspec_maximumWords(e.mode, version),
                  version - 1 + MQRspec_lengthIndicator(e.mode, version))
-----------------------------------------------------------------------------
SumOver(counts) == FoldLeft(LAMBDA sum, n : sum + n, 0, counts)

QRinput_estimateBitStreamSize(list, version) ==
  SumOver([i \in DOMAIN list |-> EstimateEntry(list[i], version)])
QRinput_createBitStream(list, version) ==
  SumOver([i \in DOMAIN list |-> EncodedEntry(list[i], version)])
QRinput_createBitStreamMQR(list, version) ==
  SumOver([i \in DOMAIN list |-> EncodedEntryMQR(list[i], version)])

(* QRinput_lengthOfCode: bytes of data that fit in `bits' bits, header      *)
(* included, in one chunk.                                                  *)
KanjiBytes(p) == (p \div 13) * 2
\* Digits in the bits that remain after groups of three.
LastDigits(r) == IF r >= 7 THEN 2 ELSE IF r >= 4 THEN 1 ELSE 0

QRinput_lengthOfCode(mode, version, bits) ==
  LET payload == bits - 4 - QRspec_lengthIndicator(mode, version)
      \* C division truncates towards zero; a negative payload gives no data
      p       == IF payload < 0 THEN 0 ELSE payload
      r(n)    == p - (p \div n) * n
      size    == CASE mode = "NUM"   -> (p \div 10) * 3 + LastDigits(r(10))
                   [] mode = "AN"    -> (p \div 11) * 2 + (IF r(11) >= 6 THEN 1 ELSE 0)
                   [] mode = "KANJI" -> KanjiBytes(p)
                   [] mode \in {"B8", "STRUCTURE"} -> p \div 8
                   [] OTHER          -> 0
      maxsize == QRspec_maximumWords(mode, version)
  IN  IF maxsize > 0 /\ size > maxsize THEN maxsize ELSE size
==============================================================================
