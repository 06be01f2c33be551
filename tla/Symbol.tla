------------------------------- MODULE Symbol -------------------------------
(***************************************************************************)
(* src/qrencode.c, QRcode_encodeMask and QRcode_encodeMaskMQR between the  *)
(* byte stream of an input and the masking: the stream is cut into Reed-   *)
(* Solomon blocks, QRraw_getCode interleaves the codewords of the blocks,  *)
(* and FrameFiller_next finds the module for each of their bits.           *)
(* A codeword is its place in a buffer, <<"data", n>> or <<"ecc", n>>.     *)
(***************************************************************************)
EXTENDS Placement

RemainderBits(s) == IF s.mqr THEN 0 ELSE QRspec_getRemainder(s.version)

\* The tables: a frame leaves as many modules free as the message has bits,
\* and the lower right one, where the frame filler starts, is one of them.
ASSUME FitsAssumption ==
  \A s \in Symbols :
    /\ Width(s) * Width(s) - 1 \in FreeModules[s]
    /\ Cardinality(FreeModules[s]) = DataBits(s) + 8 * Raws[s].eccLength + RemainderBits(s)

VARIABLES symbol,
          count,    \* of the raw code: codewords taken
          filler,   \* FrameFiller: x, y, dir, bit
          frame,    \* its modules: function patterns, free, or the bit written
          loop,     \* which loop runs: data, ecc, remainder; then the outcome
          i, j,     \* its index, and that of the bit of the codeword
          code      \* the codeword being written, or None

vars == <<symbol, count, filler, frame, loop, i, j, code>>

None == <<"none", 0>>
Nowhere == [x |-> -1, y |-> -1, dir |-> 0, bit |-> 0]
-----------------------------------------------------------------------------
(* Raw code.                                                                *)
raw == Raws[symbol]

\* Faulty variants of the next: in the last column the blocks of the first
\* kind are not left out; as many rows are skipped as there are of the second.
QRraw_getAnyRow(r, n) ==
  IF n < r.dataLength
    THEN <<"data", r.rsblock[(n % r.blocks) + 1].data + n \div r.blocks>>
    ELSE <<"ecc", r.rsblock[((n - r.dataLength) % r.blocks) + 1].ecc
                    + (n - r.dataLength) \div r.blocks>>
QRraw_getLowRow(r, n) ==
  LET col == n \div r.blocks
      row == (n % r.blocks) + (IF col >= r.rsblock[1].dataLength THEN r.blocks - r.b1 ELSE 0)
  IN  IF n >= r.dataLength THEN QRraw_getAnyRow(r, n)
      ELSE IF row < r.blocks THEN <<"data", r.rsblock[row + 1].data + col>> ELSE <<"foreign", 0>>

\* The n-th codeword.  A row past the last block is memory the raw code does
\* not own.  For Micro QR, MQRraw_getCode is the case of one block.
QRraw_getCode(r, n) ==
  LET col   == n \div r.blocks
      row   == (n % r.blocks) + (IF col >= r.rsblock[1].dataLength THEN r.b1 ELSE 0)
      m     == n - r.dataLength
  IN  IF n < r.dataLength
        THEN IF row < r.blocks THEN <<"data", r.rsblock[row + 1].data + col>> ELSE <<"foreign", 0>>
      ELSE IF m < r.eccLength
        THEN <<"ecc", r.rsblock[(m % r.blocks) + 1].ecc + m \div r.blocks>>
      ELSE <<"zero", 0>>
-----------------------------------------------------------------------------
(* Frame filling.                                                           *)
\* Faulty variant: the corner is one past the last module.
PastCorner(s) == [x |-> Width(s), y |-> Width(s), dir |-> -1, bit |-> -1]
FrameFiller_set(s) == [x |-> Width(s) - 1, y |-> Width(s) - 1, dir |-> -1, bit |-> -1]

\* One move: along the two columns, then to the next two at the top or the
\* bottom.  The vertical timing pattern is not one of the columns of a pair.
\* Faulty variant: it is.
MoveAcrossTiming(f, s) ==
  LET x == IF f.bit = 0 THEN f.x - 1 ELSE f.x + 1
      y == IF f.bit = 0 THEN f.y ELSE f.y + f.dir
      turn == y < 0 \/ y = Width(s)
  IN  [x |-> IF turn THEN x - 2 ELSE x, y |-> IF turn THEN f.y ELSE y,
       dir |-> IF turn THEN -f.dir ELSE f.dir, bit |-> 1 - f.bit]
Move(f, s) ==
  LET w   == Width(s)
      x   == IF f.bit = 0 THEN f.x - 1 ELSE f.x + 1
      y   == IF f.bit = 0 THEN f.y ELSE f.y + f.dir
      top == f.dir < 0 /\ y < 0
      bottom == f.dir > 0 /\ y = w
      timing == (top \/ bottom) /\ ~s.mqr /\ x - 2 = 6
  IN  [x   |-> IF timing THEN x - 3 ELSE IF top \/ bottom THEN x - 2 ELSE x,
       y   |-> IF top THEN (IF timing THEN 9 ELSE 0)
               ELSE IF bottom THEN (IF timing THEN w - 9 ELSE w - 1) ELSE y,
       dir |-> IF top \/ bottom THEN -f.dir ELSE f.dir,
       bit |-> 1 - f.bit]

\* The next module that is free, or Nowhere (NULL) past the last one.  The
\* first call returns the lower right corner without looking at it.
FrameFiller_next(f, s) ==
  LET next[g \in [x : Int, y : Int, dir : {-1, 1}, bit : {0, 1}]] ==
        LET m == Move(g, s)
        IN  IF m.x < 0 \/ m.y < 0 THEN Nowhere
            ELSE IF frame[m.y * Width(s) + m.x] = FunctionPattern THEN next[m] ELSE m
  IN  IF f.bit = -1 THEN [f EXCEPT !.bit = 0] ELSE next[f]
-----------------------------------------------------------------------------
(* QRcode_encodeMask.                                                       *)
Init ==
  /\ symbol \in Symbols
  /\ count = 0 /\ filler = FrameFiller_set(symbol) /\ frame = Frames[symbol]
  /\ loop = "data" /\ i = 0 /\ j = 0 /\ code = None

Loops == [data |-> raw.dataLength, ecc |-> raw.eccLength,
          remainder |-> RemainderBits(symbol)]
\* The bits of the codeword written; all but the last data codeword have 8.
BitsOf == IF raw.oddbits # 0 /\ loop = "data" /\ i = raw.dataLength - 1 THEN raw.oddbits ELSE 8

GetCode ==
  /\ loop \in {"data", "ecc"} /\ i < Loops[loop] /\ code = None
  /\ code' = QRraw_getCode(raw, count)
  /\ count' = IF count < raw.dataLength + raw.eccLength THEN count + 1 ELSE count
  /\ UNCHANGED <<symbol, filler, frame, loop, i, j>>

\* *p = bit, p being what FrameFiller_next returns; NULL gives the frame up.
Put(bit) ==
  LET f == FrameFiller_next(filler, symbol)
  IN  /\ IF f = Nowhere
           THEN loop' = "overrun" /\ UNCHANGED <<filler, frame>>
           ELSE /\ filler' = f /\ UNCHANGED loop
                /\ frame' = [frame EXCEPT ![f.y * Width(symbol) + f.x] = bit]
      /\ UNCHANGED <<symbol, count>>

PutBit ==
  /\ loop # "overrun" /\ code # None
  /\ Put(Bit(code, j))
  /\ IF j + 1 < BitsOf THEN j' = j + 1 /\ UNCHANGED <<i, code>>
                       ELSE j' = 0 /\ i' = i + 1 /\ code' = None

PutRemainder ==
  /\ loop = "remainder" /\ i < Loops[loop]
  /\ Put(Remainder)
  /\ i' = i + 1 /\ UNCHANGED <<j, code>>

EndLoop ==
  /\ loop \in DOMAIN Loops /\ i = Loops[loop] /\ code = None
  /\ loop' = [data |-> "ecc", ecc |-> "remainder", remainder |-> "placed"][loop]
  /\ i' = 0
  /\ UNCHANGED <<symbol, count, filler, frame, j, code>>

Next == GetCode \/ PutBit \/ PutRemainder \/ EndLoop

Spec == Init /\ [][Next]_vars
-----------------------------------------------------------------------------
(* Interleaving reads the buffers and nothing else: blocks of the second    *)
(* kind hold one byte more, and the rows of the last column are theirs.     *)
(* Nor does the filler leave the frame.                                     *)
CodesInBuffers ==
  /\ code[1] \in {"data", "ecc", "none"}
  /\ code[1] = "data" => code[2] < raw.dataLength
  /\ code[1] = "ecc"  => code[2] < raw.eccLength
  /\ filler.x \in 0..(Width(symbol) - 1) /\ filler.y \in 0..(Width(symbol) - 1)

(* The codewords and remainder bits fill the symbol exactly: the filler     *)
(* never runs over the frame (the NULL that qrencode.c:471 and :564 turn    *)
(* into a failed encode), and at the end every free module is written.      *)
FrameFilled ==
  loop \in {"placed", "overrun"} => loop = "placed" /\ \A p \in DOMAIN frame : frame[p] # Free

(* The placement implements SymbolLayout: every step writes the next bit of *)
(* the standard's message in the next module of the standard's order, so no *)
(* function pattern and no module already written is ever written.          *)
Placed ==
  LET bits == DataBits(symbol)
  IN  CASE loop = "data"      -> IF i = raw.dataLength THEN bits ELSE 8 * i + j
        [] loop = "ecc"       -> bits + 8 * i + j
        [] loop = "remainder" -> bits + 8 * raw.eccLength + i
        [] OTHER              -> Cardinality(FreeModules[symbol])
Layout == INSTANCE SymbolLayout WITH n <- Placed
LayoutSpec == Layout!Spec
=============================================================================
