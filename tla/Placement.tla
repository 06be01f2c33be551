------------------------------ MODULE Placement ------------------------------
(***************************************************************************)
(* Where the message of a symbol goes: the Reed-Solomon blocks of          *)
(* src/qrencode.c, the frames as the frame filler sees them, and, from the *)
(* standard (JIS X0510:2004, 8.6 and 8.7), the order of the modules and of *)
(* the bits, which Symbol checks against QRraw_getCode and FrameFiller_next*)
(* and Reader reads symbols by.                                            *)
(***************************************************************************)
EXTENDS Frame, FiniteSets

CONSTANT Symbols  \* records [mqr, version, level]

ASSUME SymbolsAssumption ==
  \A s \in Symbols :
    /\ s.mqr \in BOOLEAN /\ s.level \in 0..3
    /\ s.version \in 1..(IF s.mqr THEN MQRSPEC_VERSION_MAX ELSE QRSPEC_VERSION_MAX)
    /\ s.mqr => MQRspec_getECCLength(s.version, s.level) > 0

-----------------------------------------------------------------------------
(* Raw code.                                                                *)
Width(s) == IF s.mqr THEN MQRspec_getWidth(s.version) ELSE QRspec_getWidth(s.version)

\* RSblock_init: the blocks, as the buffers' bytes from data and from ecc on.
RSblock_init(spec) ==
  [k \in 1..(spec.b1 + spec.b2) |->
     LET second == IF k > spec.b1 THEN k - 1 - spec.b1 ELSE 0
     IN  [dataLength |-> IF k <= spec.b1 THEN spec.data1 ELSE spec.data2,
          data |-> (k - 1 - second) * spec.data1 + second * spec.data2,
          ecc  |-> (k - 1) * spec.ecc]]

\* QRraw_new; for MQRraw_new, one block.
QRraw_new(s) ==
  LET spec == QRspec_getEccSpec(s.version, s.level)
  IN  [dataLength |-> spec.b1 * spec.data1 + spec.b2 * spec.data2,
       eccLength |-> (spec.b1 + spec.b2) * spec.ecc,
       b1 |-> spec.b1, blocks |-> spec.b1 + spec.b2, rsblock |-> RSblock_init(spec),
       oddbits |-> 0]
MQRraw_new(s) ==
  LET data == MQRspec_getDataLength(s.version, s.level)
  IN  [dataLength |-> data, eccLength |-> MQRspec_getECCLength(s.version, s.level),
       b1 |-> 1, blocks |-> 1, rsblock |-> <<[dataLength |-> data, data |-> 0, ecc |-> 0]>>,
       oddbits |-> data * 8 - MQRspec_getDataLengthBit(s.version, s.level)]

Raws == [s \in Symbols |-> IF s.mqr THEN MQRraw_new(s) ELSE QRraw_new(s)]
-----------------------------------------------------------------------------
(* Frames.                                                                  *)
\* What a module of the frame holds: one of these, or a bit of the message.
FunctionPattern == <<"function", 0, 0>>
Free            == <<"free", 0, 0>>
Remainder       == <<"remainder", 0, 0>>
Bit(word, n)    == <<word[1], word[2], n>>

CreateFrame(s) ==
  IF s.mqr THEN MQRspec_createFrame(s.version) ELSE QRspec_createFrame(s.version)

\* QRspec_newFrame, MQRspec_newFrame: the byte of module (x, y) is y * width + x.
Frames == [s \in Symbols |->
  LET w == Width(s)
      functions == CreateFrame(s).functions
  IN  [p \in 0..(w * w - 1) |-> IF <<p % w, p \div w>> \in functions THEN FunctionPattern ELSE Free]]
Darks == [s \in Symbols |-> CreateFrame(s).dark]
-----------------------------------------------------------------------------
(* The standard's order of the free modules: from the right, columns in     *)
(* pairs, alternately upwards and downwards, the right one of a pair first. *)
FreeModules == [s \in Symbols |-> {p \in DOMAIN Frames[s] : Frames[s][p] = Free}]

Zigzag(s, p) ==
  LET w     == Width(s)
      x     == p % w
      left  == w - 1 - (IF ~s.mqr /\ x < 6 THEN x + 1 ELSE x)
      pair  == left \div 2
      row   == IF pair % 2 = 0 THEN w - 1 - (p \div w) ELSE p \div w
  IN  2 * w * pair + 2 * row + (left % 2)

\* How many free modules there are up to module p.
OrderOf == [s \in Symbols |->
  LET places == {Zigzag(s, q) : q \in FreeModules[s]}
  IN  [p \in DOMAIN Frames[s] |-> Cardinality(places \cap (0..Zigzag(s, p)))]]

(* Its order of the bits: the first byte of each block, the second of each  *)
(* block and so on, for the data and then for the error correction; and no  *)
(* more bits than the data length of the version and level, in bits.        *)
\* Pairs <<byte, block>>, byte by byte.
Turn(bytes, c) == Cardinality({d \in bytes : d[1] < c[1] \/ (d[1] = c[1] /\ d[2] <= c[2])})
ByTurns(bytes) ==
  LET turns == {<<Turn(bytes, c), c>> : c \in bytes}
  IN  [n \in 1..Cardinality(bytes) |-> (CHOOSE t \in turns : t[1] = n)[2]]

DataBytes(r) == UNION {(1..r.rsblock[b].dataLength) \X {b} : b \in 1..r.blocks}
EccBytes(r)  == (1..(r.eccLength \div r.blocks)) \X (1..r.blocks)
DataBits(s)  == IF s.mqr THEN MQRspec_getDataLengthBit(s.version, s.level)
                ELSE 8 * QRspec_getDataLength(s.version, s.level)
Message ==
  [s \in Symbols |->
     LET r    == Raws[s]
         data == ByTurns(DataBytes(r))
         ecc  == ByTurns(EccBytes(r))
         bits == DataBits(s)
     IN  [n \in 1..Cardinality(FreeModules[s]) |->
            IF n <= bits
              THEN LET c == data[((n - 1) \div 8) + 1]
                   IN  <<"data", r.rsblock[c[2]].data + c[1] - 1, (n - 1) % 8>>
            ELSE IF n <= bits + 8 * r.eccLength
              THEN LET c == ecc[((n - 1 - bits) \div 8) + 1]
                   IN  <<"ecc", r.rsblock[c[2]].ecc + c[1] - 1, (n - 1 - bits) % 8>>
            ELSE Remainder]]
-----------------------------------------------------------------------------
(* What the placement is for: each bit of each codeword has a module, and   *)
(* the blocks lie in the buffers.                                           *)
Words(s) == ({"data"} \X (0..(Raws[s].dataLength - 1))) \cup ({"ecc"} \X (0..(Raws[s].eccLength - 1)))

\* Of the last data codeword of a Micro QR symbol perhaps the first half only.
BitNumbers(s, word) ==
  IF word = <<"data", Raws[s].dataLength - 1>> THEN 0..(7 - Raws[s].oddbits) ELSE 0..7

EveryBitPlaced(s) ==
  LET placed == {Message[s][OrderOf[s][p]] : p \in FreeModules[s]}
  IN  \A word \in Words(s) : \A n \in BitNumbers(s, word) : Bit(word, n) \in placed

BlocksInBuffers(s) ==
  LET r    == Raws[s]
      size == r.eccLength \div r.blocks
  IN  /\ r.dataLength \in Nat
      /\ r.dataLength = IF s.mqr THEN MQRspec_getDataLength(s.version, s.level)
                        ELSE QRspec_getDataLength(s.version, s.level)
      /\ DataBits(s) = 8 * r.dataLength - r.oddbits /\ r.oddbits \in {0, 4}
      /\ r.blocks \in Nat \ {0} /\ r.eccLength = size * r.blocks /\ size \in 2..30
      /\ \A k \in 1..r.blocks :
           LET b == r.rsblock[k]
           IN  b.data \in Nat /\ b.dataLength \in Nat /\ b.data + b.dataLength <= r.dataLength
=============================================================================
