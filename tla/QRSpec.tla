------------------------------- MODULE QRSpec -------------------------------
(***************************************************************************)
(* The constant tables of src/qrspec.c and src/mqrspec.c and the functions *)
(* that look them up.  Versions are 1..40 (QR) and 1..4 (Micro QR), levels *)
(* 0..3 (L, M, Q, H).  The modes are the strings "NUM", "AN", "B8", "KANJI"*)
(* (the splittable ones), "STRUCTURE", "ECI", "FNC1FIRST", "FNC1SECOND".   *)
(***************************************************************************)
EXTENDS Integers, Sequences

\* Bit k of a number.
BitAt(n, k) == (n \div 2 ^ k) % 2

QRSPEC_VERSION_MAX == 40
MQRSPEC_VERSION_MAX == 4

\* width, data capacity in bytes, remainder bits, ECC bytes of each level
capacity == <<
  << 21,   26, 0, <<  7,   10,   13,   17>>>>, \* 1
  << 25,   44, 7, << 10,   16,   22,   28>>>>,
  << 29,   70, 7, << 15,   26,   36,   44>>>>,
  << 33,  100, 7, << 20,   36,   52,   64>>>>,
  << 37,  134, 7, << 26,   48,   72,   88>>>>, \* 5
  << 41,  172, 7, << 36,   64,   96,  112>>>>,
  << 45,  196, 0, << 40,   72,  108,  130>>>>,
  << 49,  242, 0, << 48,   88,  132,  156>>>>,
  << 53,  292, 0, << 60,  110,  160,  192>>>>,
  << 57,  346, 0, << 72,  130,  192,  224>>>>, \* 10
  << 61,  404, 0, << 80,  150,  224,  264>>>>,
  << 65,  466, 0, << 96,  176,  260,  308>>>>,
  << 69,  532, 0, <<104,  198,  288,  352>>>>,
  << 73,  581, 3, <<120,  216,  320,  384>>>>,
  << 77,  655, 3, <<132,  240,  360,  432>>>>, \* 15
  << 81,  733, 3, <<144,  280,  408,  480>>>>,
  << 85,  815, 3, <<168,  308,  448,  532>>>>,
  << 89,  901, 3, <<180,  338,  504,  588>>>>,
  << 93,  991, 3, <<196,  364,  546,  650>>>>,
  << 97, 1085, 3, <<224,  416,  600,  700>>>>, \* 20
  <<101, 1156, 4, <<224,  442,  644,  750>>>>,
  <<105, 1258, 4, <<252,  476,  690,  816>>>>,
  <<109, 1364, 4, <<270,  504,  750,  900>>>>,
  <<113, 1474, 4, <<300,  560,  810,  960>>>>,
  <<117, 1588, 4, <<312,  588,  870, 1050>>>>, \* 25
  <<121, 1706, 4, <<336,  644,  952, 1110>>>>,
  <<125, 1828, 4, <<360,  700, 1020, 1200>>>>,
  <<129, 1921, 3, <<390,  728, 1050, 1260>>>>,
  <<133, 2051, 3, <<420,  784, 1140, 1350>>>>,
  <<137, 2185, 3, <<450,  812, 1200, 1440>>>>, \* 30
  <<141, 2323, 3, <<480,  868, 1290, 1530>>>>,
  <<145, 2465, 3, <<510,  924, 1350, 1620>>>>,
  <<149, 2611, 3, <<540,  980, 1440, 1710>>>>,
  <<153, 2761, 3, <<570, 1036, 1530, 1800>>>>,
  <<157, 2876, 0, <<570, 1064, 1590, 1890>>>>, \* 35
  <<161, 3034, 0, <<600, 1120, 1680, 1980>>>>,
  <<165, 3196, 0, <<630, 1204, 1770, 2100>>>>,
  <<169, 3362, 0, <<660, 1260, 1860, 2220>>>>,
  <<173, 3532, 0, <<720, 1316, 1950, 2310>>>>,
  <<177, 3706, 0, <<750, 1372, 2040, 2430>>>>>> \* 40

QRspec_getWidth(version)     == capacity[version][1]
QRspec_getRemainder(version) == capacity[version][3]
QRspec_getECCLength(version, level) == capacity[version][4][level + 1]

\* Version 0 (not yet chosen) has a row of zeros in the table.
QRspec_getDataLength(version, level) ==
  IF version = 0 THEN 0 ELSE capacity[version][2] - QRspec_getECCLength(version, level)
-----------------------------------------------------------------------------
(* Length indicators.                                                       *)
Splittable == {"NUM", "AN", "B8", "KANJI"}

lengthTableBits == [NUM   |-> <<10, 12, 14>>, AN    |-> << 9, 11, 13>>,
                    B8    |-> << 8, 16, 16>>, KANJI |-> << 8, 10, 12>>]

Group(version) == IF version <= 9 THEN 1 ELSE IF version <= 26 THEN 2 ELSE 3

QRspec_lengthIndicator(mode, version) ==
  IF mode \in Splittable THEN lengthTableBits[mode][Group(version)] ELSE 0

\* Bytes of data one chunk can hold: Kanji counts characters, of two bytes.
QRspec_maximumWords(mode, version) ==
  IF mode \notin Splittable THEN 0
  ELSE (2 ^ QRspec_lengthIndicator(mode, version) - 1) * (IF mode = "KANJI" THEN 2 ELSE 1)
-----------------------------------------------------------------------------
(* Reed-Solomon blocks: how many of the first and of the second kind.       *)
eccTable == <<
  <<<< 1,  0>>, << 1,  0>>, << 1,  0>>, << 1,  0>>>>, \* 1
  <<<< 1,  0>>, << 1,  0>>, << 1,  0>>, << 1,  0>>>>,
  <<<< 1,  0>>, << 1,  0>>, << 2,  0>>, << 2,  0>>>>,
  <<<< 1,  0>>, << 2,  0>>, << 2,  0>>, << 4,  0>>>>,
  <<<< 1,  0>>, << 2,  0>>, << 2,  2>>, << 2,  2>>>>, \* 5
  <<<< 2,  0>>, << 4,  0>>, << 4,  0>>, << 4,  0>>>>,
  <<<< 2,  0>>, << 4,  0>>, << 2,  4>>, << 4,  1>>>>,
  <<<< 2,  0>>, << 2,  2>>, << 4,  2>>, << 4,  2>>>>,
  <<<< 2,  0>>, << 3,  2>>, << 4,  4>>, << 4,  4>>>>,
  <<<< 2,  2>>, << 4,  1>>, << 6,  2>>, << 6,  2>>>>, \* 10
  <<<< 4,  0>>, << 1,  4>>, << 4,  4>>, << 3,  8>>>>,
  <<<< 2,  2>>, << 6,  2>>, << 4,  6>>, << 7,  4>>>>,
  <<<< 4,  0>>, << 8,  1>>, << 8,  4>>, <<12,  4>>>>,
  <<<< 3,  1>>, << 4,  5>>, <<11,  5>>, <<11,  5>>>>,
  <<<< 5,  1>>, << 5,  5>>, << 5,  7>>, <<11,  7>>>>, \* 15
  <<<< 5,  1>>, << 7,  3>>, <<15,  2>>, << 3, 13>>>>,
  <<<< 1,  5>>, <<10,  1>>, << 1, 15>>, << 2, 17>>>>,
  <<<< 5,  1>>, << 9,  4>>, <<17,  1>>, << 2, 19>>>>,
  <<<< 3,  4>>, << 3, 11>>, <<17,  4>>, << 9, 16>>>>,
  <<<< 3,  5>>, << 3, 13>>, <<15,  5>>, <<15, 10>>>>, \* 20
  <<<< 4,  4>>, <<17,  0>>, <<17,  6>>, <<19,  6>>>>,
  <<<< 2,  7>>, <<17,  0>>, << 7, 16>>, <<34,  0>>>>,
  <<<< 4,  5>>, << 4, 14>>, <<11, 14>>, <<16, 14>>>>,
  <<<< 6,  4>>, << 6, 14>>, <<11, 16>>, <<30,  2>>>>,
  <<<< 8,  4>>, << 8, 13>>, << 7, 22>>, <<22, 13>>>>, \* 25
  <<<<10,  2>>, <<19,  4>>, <<28,  6>>, <<33,  4>>>>,
  <<<< 8,  4>>, <<22,  3>>, << 8, 26>>, <<12, 28>>>>,
  <<<< 3, 10>>, << 3, 23>>, << 4, 31>>, <<11, 31>>>>,
  <<<< 7,  7>>, <<21,  7>>, << 1, 37>>, <<19, 26>>>>,
  <<<< 5, 10>>, <<19, 10>>, <<15, 25>>, <<23, 25>>>>, \* 30
  <<<<13,  3>>, << 2, 29>>, <<42,  1>>, <<23, 28>>>>,
  <<<<17,  0>>, <<10, 23>>, <<10, 35>>, <<19, 35>>>>,
  <<<<17,  1>>, <<14, 21>>, <<29, 19>>, <<11, 46>>>>,
  <<<<13,  6>>, <<14, 23>>, <<44,  7>>, <<59,  1>>>>,
  <<<<12,  7>>, <<12, 26>>, <<39, 14>>, <<22, 41>>>>, \* 35
  <<<< 6, 14>>, << 6, 34>>, <<46, 10>>, << 2, 64>>>>,
  <<<<17,  4>>, <<29, 14>>, <<49, 10>>, <<24, 46>>>>,
  <<<< 4, 18>>, <<13, 32>>, <<48, 14>>, <<42, 32>>>>,
  <<<<20,  4>>, <<40,  7>>, <<43, 22>>, <<10, 67>>>>,
  <<<<19,  6>>, <<18, 31>>, <<34, 34>>, <<20, 61>>>>>> \* 40

\* b1 blocks of data1 + ecc bytes, then b2 blocks of data2 + ecc bytes.
QRspec_getEccSpec(version, level) ==
  LET b1   == eccTable[version][level + 1][1]
      b2   == eccTable[version][level + 1][2]
      data == QRspec_getDataLength(version, level) \div (b1 + b2)
  IN  [b1 |-> b1, data1 |-> data,
       ecc |-> QRspec_getECCLength(version, level) \div (b1 + b2),
       b2 |-> b2, data2 |-> IF b2 = 0 THEN 0 ELSE data + 1]
-----------------------------------------------------------------------------
(* Micro QR.                                                                *)
mqrspecCapacity == << <<11, <<2,  0,  0, 0>>>>, <<13, <<5,  6,  0, 0>>>>,
                      <<15, <<6,  8,  0, 0>>>>, <<17, <<8, 10, 14, 0>>>> >>

MQRspec_getWidth(version) == mqrspecCapacity[version][1]
MQRspec_getECCLength(version, level) == mqrspecCapacity[version][2][level + 1]

MQRspec_getDataLengthBit(version, level) ==
  LET w == MQRspec_getWidth(version) - 1  ecc == MQRspec_getECCLength(version, level)
  IN  IF ecc = 0 THEN 0 ELSE w * w - 64 - ecc * 8

MQRspec_getDataLength(version, level) == (MQRspec_getDataLengthBit(version, level) + 4) \div 8

MQRlengthTableBits == [NUM |-> <<3, 4, 5, 6>>, AN    |-> <<0, 3, 4, 5>>,
                       B8  |-> <<0, 0, 4, 5>>, KANJI |-> <<0, 0, 3, 4>>]

MQRspec_lengthIndicator(mode, version) == MQRlengthTableBits[mode][version]

MQRspec_maximumWords(mode, version) ==
  (2 ^ MQRspec_lengthIndicator(mode, version) - 1) * (IF mode = "KANJI" THEN 2 ELSE 1)
=============================================================================
