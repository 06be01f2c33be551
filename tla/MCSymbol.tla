------------------------------ MODULE MCSymbol ------------------------------
(* Symbol for every Micro QR symbol, and QR symbols with and without        *)
(* alignment patterns, version information, remainder bits, several blocks  *)
(* and blocks of two lengths.                                               *)
EXTENDS Symbol

\* Whether Micro QR, version and level.
MCSymbols ==
  {[mqr |-> t[1], version |-> t[2], level |-> t[3]] :
     t \in ({FALSE} \X {1, 2, 5, 7} \X (0..3)) \cup {<<FALSE, 10, 3>>}
             \cup {t \in {TRUE} \X (1..4) \X (0..2) : MQRspec_getECCLength(t[2], t[3]) > 0}}

(* FitsAssumption for every symbol there is: all forty frames leave as many *)
(* modules free as the capacity table counts, at each level the blocks take *)
(* as much of it as the table gives to error correction, and the four of    *)
(* Micro QR leave what the data and the error correction take at any level; *)
(* none has a pattern in the lower right corner.                            *)
LeftFree(width, functions) == width * width - Cardinality(functions)
ASSUME CapacityAssumption ==
  /\ \A v \in 1..QRSPEC_VERSION_MAX :
       LeftFree(QRspec_getWidth(v), QRspec_createFrame(v).functions)
         = 8 * capacity[v][2] + QRspec_getRemainder(v)
  /\ \A v \in 1..QRSPEC_VERSION_MAX, l \in 0..3 :
       LET spec == QRspec_getEccSpec(v, l)
       IN  (spec.b1 + spec.b2) * spec.ecc = QRspec_getECCLength(v, l)
  /\ \A v \in 1..MQRSPEC_VERSION_MAX, l \in 0..2 :
       MQRspec_getECCLength(v, l) > 0 =>
       LeftFree(MQRspec_getWidth(v), MQRspec_createFrame(v).functions)
         = MQRspec_getDataLengthBit(v, l) + 8 * MQRspec_getECCLength(v, l)
  /\ \A v \in 1..QRSPEC_VERSION_MAX :
       <<QRspec_getWidth(v) - 1, QRspec_getWidth(v) - 1>> \notin QRspec_createFrame(v).functions
  /\ \A v \in 1..MQRSPEC_VERSION_MAX :
       <<MQRspec_getWidth(v) - 1, MQRspec_getWidth(v) - 1>> \notin MQRspec_createFrame(v).functions
=============================================================================
