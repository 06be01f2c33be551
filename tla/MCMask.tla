-------------------------------- MODULE MCMask --------------------------------
(* MaskedSymbol for every Micro QR symbol and for QR symbols of one and of  *)
(* several blocks, with and without version information.  A text is given   *)
(* as its bytes.                                                            *)
EXTENDS MaskedSymbol

QR(v, l, chunks)  == [mqr |-> FALSE, version |-> v, level |-> l, chunks |-> chunks]
MQR(v, l, chunks) == [mqr |-> TRUE, version |-> v, level |-> l, chunks |-> chunks]

Digits  == <<48, 49, 50, 51, 52, 53, 54, 57>>            \* 01234569
Word    == <<65, 58, 90, 32, 48, 47>>                    \* A:Z 0/
Bytes   == <<0, 255, 97, 10>>
Japanese == <<147, 95, 228, 170, 129, 64, 235, 191>>     \* both ranges and their ends
Long    == [k \in 1..40 |-> (k * 37) % 256]

MCJobs ==
  {QR(1, 0, <<Chunk("STRUCTURE", <<16, 3, 165>>), Chunk("NUM", Digits), Chunk("AN", Word)>>),
   QR(1, 1, <<Chunk("ECI", <<26>>), Chunk("B8", Bytes), Chunk("NUM", SubSeq(Digits, 1, 4))>>),
   QR(1, 2, <<Chunk("ECI", <<16383>>), Chunk("KANJI", SubSeq(Japanese, 1, 4))>>),
   QR(1, 3, <<Chunk("FNC1SECOND", <<137>>), Chunk("AN", SubSeq(Word, 1, 5))>>),
   QR(1, 3, <<Chunk("B8", <<1, 2, 3, 4, 5, 6, 7>>)>>),   \* no room for padding
   QR(2, 0, <<Chunk("KANJI", Japanese), Chunk("B8", Bytes)>>),
   QR(7, 3, <<Chunk("B8", Long), Chunk("NUM", Digits)>>),
   MQR(1, 0, <<Chunk("NUM", SubSeq(Digits, 1, 5))>>),    \* full
   MQR(1, 0, <<Chunk("NUM", SubSeq(Digits, 2, 2))>>),
   MQR(2, 0, <<Chunk("NUM", SubSeq(Digits, 1, 5)), Chunk("AN", SubSeq(Word, 1, 1))>>),
   MQR(2, 1, <<Chunk("AN", SubSeq(Word, 3, 6))>>),
   MQR(3, 0, <<Chunk("KANJI", SubSeq(Japanese, 1, 4)), Chunk("B8", Bytes)>>),
   MQR(3, 1, <<Chunk("AN", SubSeq(Word, 1, 3)), Chunk("NUM", SubSeq(Digits, 1, 3))>>),
   MQR(4, 0, <<Chunk("B8", Bytes), Chunk("KANJI", SubSeq(Japanese, 5, 8)), Chunk("NUM", Digits)>>),
   MQR(4, 1, <<Chunk("B8", Bytes)>>),
   MQR(4, 2, <<Chunk("AN", Word)>>)}

MCSymbols  == {SymbolOf(j) : j \in Jobs}
MCRequests == {Automatic, 0, 3, 4, 7, 8}

(* What RecoversData asks of the jobs.                                      *)
ASSUME ChunksAssumption == AllLegible

(* The encoders append as many bits as BitCounts says.                      *)
ASSUME LengthsAssumption ==
  \A j \in Jobs : \A k \in DOMAIN j.chunks :
    LET c == j.chunks[k]
        e == IF c.mode = "ECI" THEN Counts!ECIEntry(IF c.data[1] < 128 THEN 1 ELSE 2)
             ELSE Counts!Entry(c.mode, Len(c.data))
    IN  Len(QRinput_createBitStream(SymbolOf(j), <<c>>))
          = IF j.mqr THEN Counts!EncodedEntryMQR(e, j.version) ELSE Counts!EncodedEntry(e, j.version)

(* The demerit of every line of up to ten modules is the standard's, and so *)
(* is that of the lines with a finder-like pattern of two modules a unit.   *)
Wide(before, after) == [k \in 1..before |-> 0] \o <<1, 1, 0, 0, 1, 1, 1, 1, 1, 1, 0, 0, 1, 1>>
                          \o [k \in 1..after |-> 0] \o <<1>>
ASSUME LinesAssumption ==
  \A line \in UNION {[1..n -> {0, 1}] : n \in 1..10} \cup {Wide(a, b) : a, b \in 6..9}
                \cup {<<1>> \o Wide(a, b) : a, b \in 6..9} :
    Mask_calcN1N3(Mask_calcRunLength(line)) = Runs(line)
=============================================================================
