--------------------------- MODULE MCEncodeStream ---------------------------
(***************************************************************************)
(* EncodeStream with the real tables.  The inputs lie at and around the    *)
(* capacity, per level, of versions next to a change of length indicator   *)
(* (9|10, 26|27) and at both ends (1, 40).                                 *)
(***************************************************************************)
EXTENDS EncodeStream, BitCounts

CONSTANTS Marks,   \* versions whose capacity the inputs surround
          MarkLevels

\* n units of a mode that fill, miss by one or exceed by one a symbol of v, l
Around(mode, v, l) ==
  LET room == QRinput_lengthOfCode(mode, v, QRspec_getDataLength(v, l) * 8)
      unit == IF mode = "KANJI" THEN 2 ELSE 1
  IN  {room - unit, room, room + unit}

One(mode, size) == <<Entry(mode, size)>>

Singles == UNION {{One(mode, n) : n \in Around(mode, v, l)} :
                    mode \in Splittable, v \in Marks, l \in MarkLevels}
\* Two chunks, a structured-append header, FNC1 in second position.
Mixed == UNION {{<<Entry("STRUCTURE", 3), Entry("B8", n - 3)>>,
                 <<Entry("FNC1SECOND", 1), Entry("AN", 11), Entry("B8", n - 9)>>,
                 <<Entry("NUM", 7), Entry("KANJI", 4), Entry("B8", n - 9)>>} :
                  n \in UNION {Around("B8", v, l) : v \in Marks, l \in MarkLevels}}
                \cup {<<>>}
\* Fits version 27 while the estimate at version 26 exceeds it.
Overestimated == {One("AN", n) \o [i \in 1..7 |-> Entry("B8", 1)] : n \in 2095..2097}

MicroLists == {One("NUM", n) : n \in 1..36} \cup {One("AN", n) : n \in {1, 6, 14, 21}}
                \cup {One("B8", n) : n \in {1, 9, 15, 16}} \cup {One("KANJI", n) : n \in {2, 12, 18}}

WellFormed(list) == \A i \in DOMAIN list : list[i].size > 0
QRData  == {<<"QR", list>> : list \in {x \in Singles \cup Mixed \cup Overestimated : WellFormed(x)}}
MQRData == {<<"MQR", list>> : list \in MicroLists}
MCData  == QRData
MCMicro == MQRData

MCEstimated(d, v) == QRinput_estimateBitStreamSize(d[2], v)
MCEncoded(d, v)   == IF d[1] = "QR" THEN QRinput_createBitStream(d[2], v)
                                    ELSE QRinput_createBitStreamMQR(d[2], v)
MCEncodable(d, v) == \A i \in DOMAIN d[2] : EncodableMQR(d[2][i], v)

ASSUME TextEstimatesAssumption == EstimateTrusted
=============================================================================
