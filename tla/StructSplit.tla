----------------------------- MODULE StructSplit -----------------------------
(***************************************************************************)
(* src/qrinput.c, QRinput_splitQRinputToStruct: a copy of an input is cut  *)
(* into a set of inputs, one a symbol of the version and level of the      *)
(* input.  The chunks are taken in order; the one that does not fit is cut *)
(* where the symbol is full, or moved whole to the next symbol.  As in     *)
(* EncodeStream, sizes in bits are parameters.                             *)
(***************************************************************************)
EXTENDS Integers, Sequences

CONSTANTS Inputs,                 \* chunk lists: sequences of [mode, size, eci]
          Specs,                  \* <<version, level>> of the input
          Estimated(_, _),        \* QRinput_estimateBitStreamSizeOfEntry(chunk, version)
          Encoded(_, _),          \* bits QRinput_encodeBitStream appends
          LengthOfCode(_, _, _),  \* QRinput_lengthOfCode(mode, version, bits)
          DataLength(_, _),       \* QRspec_getDataLength(version, level)
          HeaderSize,             \* STRUCTURE_HEADER_SIZE
          MAX_STRUCTURED_SYMBOLS

Chunks == UNION {{list[i] : i \in DOMAIN list} : list \in Inputs}
Sized(c, n) == [c EXCEPT !.size = n]
\* Whole characters: QRinput_checkModeKanji refuses an odd number of bytes.
WholeUnits(c, n) == c.mode = "KANJI" => n % 2 = 0
UnitSize(c)      == IF c.mode = "KANJI" THEN 2 ELSE 1
CanBeCut(c)      == c.mode \in {"NUM", "AN", "B8", "KANJI"}
MaximumBits(s) == DataLength(s[1], s[2]) * 8

ASSUME InputsAssumption ==
  /\ Inputs \subseteq Seq([mode : STRING, size : Nat, eci : Nat])
  /\ HeaderSize \in Nat /\ MAX_STRUCTURED_SYMBOLS \in Nat
  /\ \A s \in Specs : DataLength(s[1], s[2]) \in Nat
  /\ \A c \in Chunks : c.size > 0 /\ WholeUnits(c, c.size)
(* For data of at most a symbol the estimate is no smaller than the code.   *)
EstimateSafe(x, s) ==
  /\ Estimated(x, s[1]) \in Nat /\ Encoded(x, s[1]) \in Nat
  /\ Estimated(x, s[1]) <= MaximumBits(s) => Encoded(x, s[1]) <= Estimated(x, s[1])
(* What QRinput_lengthOfCode answers takes no more than the room given, and *)
(* another character takes more; an empty symbol holds some of a chunk that *)
(* can be cut, or all of it.                                                *)
AnswerFits(c, s, room) ==
  LET n == LengthOfCode(c.mode, s[1], room)
  IN  /\ n \in Nat /\ WholeUnits(c, n)
      /\ n \in 1..c.size => Encoded(Sized(c, n), s[1]) <= room
      /\ CanBeCut(c) /\ n < c.size => Encoded(Sized(c, n + UnitSize(c)), s[1]) > room
SymbolHoldsSome(c, s) ==
  LET room == MaximumBits(s) - HeaderSize
  IN  room > 0 => \/ LengthOfCode(c.mode, s[1], room) > 0
                  \/ \A n \in 1..c.size : Estimated(Sized(c, n), s[1]) <= room

ASSUME EstimateAssumption ==
  \A s \in Specs, c \in Chunks : \A n \in 1..c.size :
    WholeUnits(c, n) => EstimateSafe(Sized(c, n), s)
ASSUME RoomAssumption ==
  \A s \in Specs, c \in Chunks :
    (\A room \in 0..MaximumBits(s) : AnswerFits(c, s, room)) /\ SymbolHoldsSome(c, s)

VARIABLES input, version, level,
          chunk, offset,  \* where `list' is: the chunk, and its bytes already placed
          placed,         \* pieces put in a symbol, in order: the chunk and the bytes
                          \* from lo to hi of it, the symbol, and the symbol's bits
          symbols,        \* inputs already appended to the struct
          bits,           \* of the current symbol
          status, errno

vars == <<input, version, level, chunk, offset, placed, symbols, bits, status, errno>>

Init == /\ input \in Inputs
        /\ \E s \in Specs : version = s[1] /\ level = s[2]
        /\ chunk = 1 /\ offset = 0 /\ placed = <<>> /\ symbols = 0 /\ bits = 0
        /\ status = "called" /\ errno = "none"

MaxBitsNoHeader == DataLength(version, level) * 8  \* faulty variant
MaxBits         == DataLength(version, level) * 8 - HeaderSize

Remaining  == Sized(input[chunk], input[chunk].size - offset)
RoomNextHeader == MaxBits - bits - HeaderSize  \* faulty variant
Room           == MaxBits - bits
CutAsBytes     == LengthOfCode("B8", version, Room)  \* faulty variant
Cut            == LengthOfCode(input[chunk].mode, version, Room)

\* Faulty variant: what the symbol already holds is not counted.
FitsAlone == Estimated(Remaining, version) <= MaxBits
Fits      == bits + Estimated(Remaining, version) <= MaxBits

CurrentEmpty == placed = <<>> \/ placed[Len(placed)].symbol <= symbols

Piece(bytes, n) == [chunk |-> chunk, lo |-> offset, hi |-> offset + bytes,
                    symbol |-> symbols + 1,
                    upto |-> n + IF CurrentEmpty THEN 0 ELSE placed[Len(placed)].upto]
-----------------------------------------------------------------------------
(* The copy is made; an input without a version (maxbits <= 0) is given up, *)
(* errno as the caller left it.                                             *)
Begin ==
  /\ status = "called"
  /\ status' = IF MaxBits <= 0 THEN "failed" ELSE "splitting"
  /\ UNCHANGED <<input, version, level, chunk, offset, placed, symbols, bits, errno>>

Splitting == status = "splitting" /\ chunk <= Len(input)

PlaceWhole ==
  /\ Splitting /\ Fits
  /\ LET n == Encoded(Remaining, version)
     IN  /\ placed' = Append(placed, Piece(Remaining.size, n))
         /\ bits' = bits + n
  /\ chunk' = chunk + 1 /\ offset' = 0
  /\ UNCHANGED <<input, version, level, symbols, status, errno>>

(* QRinput_splitEntry: the rest of the chunk becomes a chunk, refused by     *)
(* QRinput_check if it is empty.  Faulty variant: a chunk cut before is cut *)
(* at its first cut again.                                                  *)
CutOff == Sized(input[chunk], Cut)

SplitEntryAgain ==
  /\ Splitting /\ ~Fits /\ Cut > 0
  /\ placed' = Append(placed, Piece(Cut, Encoded(CutOff, version)))
  /\ offset' = Cut
  /\ symbols' = symbols + 1 /\ bits' = 0
  /\ UNCHANGED <<input, version, level, chunk, status, errno>>

SplitEntry ==
  /\ Splitting /\ ~Fits /\ Cut > 0
  /\ IF Cut < Remaining.size
       THEN /\ placed' = Append(placed, Piece(Cut, Encoded(CutOff, version)))
            /\ offset' = offset + Cut
            /\ symbols' = symbols + 1 /\ bits' = 0
            /\ UNCHANGED <<status, errno>>
       ELSE /\ status' = "failed" /\ errno' = "EINVAL"
            /\ UNCHANGED <<offset, placed, symbols, bits>>
  /\ UNCHANGED <<input, version, level, chunk>>

(* The chunk goes to the next symbol, behind nothing: in the first symbol   *)
(* `prev' is NULL, later it is a chunk of the symbol before.  Faulty        *)
(* variant: the count of bits goes on.                                      *)
MoveEntryAndBits ==
  /\ Splitting /\ ~Fits /\ Cut = 0
  /\ IF CurrentEmpty THEN status' = "crashed" /\ UNCHANGED symbols
                     ELSE symbols' = symbols + 1 /\ UNCHANGED status
  /\ UNCHANGED <<input, version, level, chunk, offset, placed, bits, errno>>

MoveEntry ==
  /\ Splitting /\ ~Fits /\ Cut = 0
  /\ IF CurrentEmpty
       THEN status' = "crashed" /\ UNCHANGED <<symbols, bits>>
       ELSE symbols' = symbols + 1 /\ bits' = 0 /\ UNCHANGED status
  /\ UNCHANGED <<input, version, level, chunk, offset, placed, errno>>

(* The last input is appended to the struct, the headers are inserted.      *)
Finish ==
  /\ status = "splitting" /\ chunk > Len(input)
  /\ symbols' = symbols + 1
  /\ IF symbols' > MAX_STRUCTURED_SYMBOLS THEN status' = "failed" /\ errno' = "ERANGE"
                                          ELSE status' = "done" /\ UNCHANGED errno
  /\ UNCHANGED <<input, version, level, chunk, offset, placed, bits>>

(* Any allocation fails; what was built is freed.                           *)
OutOfMemory ==
  /\ status \in {"called", "splitting"}
  /\ status' = "failed" /\ errno' = "ENOMEM"
  /\ UNCHANGED <<input, version, level, chunk, offset, placed, symbols, bits>>

Step == Begin \/ PlaceWhole \/ SplitEntry \/ MoveEntry \/ Finish
Next == Step \/ OutOfMemory

Spec == Init /\ [][Next]_vars
-----------------------------------------------------------------------------
(* Type invariant.                                                          *)
TypeOK == /\ chunk \in 1..Len(input) + 1
          /\ offset \in Nat /\ symbols \in Nat
          /\ bits \in Nat /\ (status = "splitting" => bits <= MaxBits)
          /\ placed \in Seq([chunk : Nat, lo : Nat, hi : Nat, symbol : Nat, upto : Nat])
          /\ status \in {"called", "splitting", "done", "failed", "crashed"}
          /\ errno \in {"none", "ENOMEM", "ERANGE", "EINVAL"}

(* The symbols hold the input: the pieces placed so far, and the rest from  *)
(* the present chunk and offset, follow each other without gap or overlap,  *)
(* and none is empty.                                                       *)
Follows(p, c, lo) == \/ p.chunk = c /\ p.hi = lo
                     \/ p.chunk + 1 = c /\ lo = 0 /\ p.hi = input[p.chunk].size
DataInOrder ==
  /\ \A i \in DOMAIN placed : placed[i].lo < placed[i].hi
  /\ \A i \in 2..Len(placed) : Follows(placed[i - 1], placed[i].chunk, placed[i].lo)
  /\ IF placed = <<>> THEN chunk = 1 /\ offset = 0
                      ELSE /\ placed[1].chunk = 1 /\ placed[1].lo = 0
                           /\ Follows(placed[Len(placed)], chunk, offset)
  /\ status = "done" => chunk = Len(input) + 1

(* Every symbol holds its data and a structured-append header, so that      *)
(* encoding it keeps the version (a single symbol has no header), there are *)
(* at most sixteen symbols, and none is empty unless the input is.          *)
SymbolsFit ==
  /\ \A i \in DOMAIN placed :
       placed[i].upto + HeaderSize <= DataLength(version, level) * 8
  /\ status = "done" => symbols <= MAX_STRUCTURED_SYMBOLS
SymbolsNotEmpty ==
  /\ status # "crashed"
  /\ \A k \in 1..symbols : input # <<>> => \E i \in DOMAIN placed : placed[i].symbol = k

(* A new symbol is begun only when the one before cannot take another unit  *)
(* of the data that follows: as many symbols as needed, and "too large"     *)
(* (ERANGE) only for data that needs more than sixteen this way.            *)
Full(last, c, lo) ==
  LET next == input[c]
      cut  == last.chunk = c
      used == last.upto - IF cut THEN Encoded(Sized(next, last.hi - last.lo), version) ELSE 0
      more == lo + UnitSize(next) - (IF cut THEN last.lo ELSE 0)
  IN  CanBeCut(next) => used + Encoded(Sized(next, more), version) > MaxBits
NoRoomWasted ==
  \A i \in 2..Len(placed) :
    placed[i].symbol # placed[i - 1].symbol => Full(placed[i - 1], placed[i].chunk, placed[i].lo)

(* A multi-byte character is never cut in two.                              *)
KanjiWhole ==
  \A i \in DOMAIN placed :
    input[placed[i].chunk].mode = "KANJI" => placed[i].lo % 2 = 0 /\ placed[i].hi % 2 = 0
=============================================================================
