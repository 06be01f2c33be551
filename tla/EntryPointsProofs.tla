-------------------------- MODULE EntryPointsProofs --------------------------
(***************************************************************************)
(* Theorems of StructSplit and of EntryPoints, which extends it.  The      *)
(* split, for all inputs, versions, levels and bit counts that meet the    *)
(* assumptions of StructSplit: no data is lost, no symbol too full, empty  *)
(* or wasteful.  The calls, for any tables and bounds: no block of memory  *)
(* is lost or freed twice, the split inside a call is as good as the split *)
(* alone, a Micro QR symbol has the least version, and a list of symbols   *)
(* is whole, each of the version asked for.                                *)
(***************************************************************************)
EXTENDS EntryPoints, SequenceTheorems, WellFoundedInduction, TLAPS

(***************************************************************************)
(* The split.                                                              *)
(***************************************************************************)
Active == status \in {"called", "splitting"}
PieceType == [chunk : Nat, lo : Nat, hi : Nat, symbol : Nat, upto : Nat]
Last == placed[Len(placed)]

(* Where the loop is: within a chunk only after a cut, at a whole character.*)
Place ==
  /\ input \in Inputs
  /\ \E s \in Specs : version = s[1] /\ level = s[2]
  /\ chunk \in 1..Len(input) + 1
  /\ offset \in Nat
  /\ offset > 0 => chunk <= Len(input) /\ offset < input[chunk].size
  /\ chunk <= Len(input) => WholeUnits(input[chunk], offset)

Pieces ==
  /\ placed \in Seq(PieceType)
  /\ \A i \in 1..Len(placed) : /\ placed[i].chunk \in 1..Len(input)
                               /\ placed[i].lo < placed[i].hi
                               /\ WholeUnits(input[placed[i].chunk], placed[i].lo)
                               /\ WholeUnits(input[placed[i].chunk], placed[i].hi)
                               /\ placed[i].symbol <= symbols + 1
                               /\ placed[i].upto <= MaxBits

Chained ==
  /\ \A i \in 2..Len(placed) : Follows(placed[i - 1], placed[i].chunk, placed[i].lo)
  /\ placed = <<>> => chunk = 1 /\ offset = 0
  /\ placed # <<>> => /\ placed[1].chunk = 1 /\ placed[1].lo = 0
                      /\ Follows(Last, chunk, offset)

(* The count of bits is that of the pieces of the current symbol.           *)
Counted ==
  /\ symbols \in Nat /\ bits \in Nat
  /\ status = "splitting" => MaxBits > 0 /\ bits <= MaxBits
  /\ status = "called" => placed = <<>>
  /\ Active => bits = IF CurrentEmpty THEN 0 ELSE Last.upto

(* No symbol is empty; one is begun only for data that is left.             *)
Filled ==
  /\ \A k \in 1..symbols : input # <<>> => \E i \in 1..Len(placed) : placed[i].symbol = k
  /\ Active /\ placed # <<>> /\ CurrentEmpty => chunk <= Len(input)

Outcome ==
  /\ status \in {"called", "splitting", "done", "failed"}
  /\ errno \in {"none", "ENOMEM", "ERANGE", "EINVAL"}
  /\ status = "done" => chunk = Len(input) + 1 /\ symbols <= MAX_STRUCTURED_SYMBOLS

(* Behind a full symbol comes data of which it could take no more; a chunk  *)
(* is cut only there.                                                       *)
Snug ==
  /\ NoRoomWasted
  /\ placed # <<>> /\ CurrentEmpty /\ chunk <= Len(input) => Full(Last, chunk, offset)
  /\ offset > 0 => CurrentEmpty

IInv == Place /\ Pieces /\ Chained /\ Counted /\ Filled /\ Outcome /\ Snug
-----------------------------------------------------------------------------
(* Two whole numbers of characters together are a whole number.             *)
LEMMA EvenSum ==
  ASSUME NEW m \in Nat, NEW k \in Nat, m % 2 = 0, k % 2 = 0
  PROVE  (m + k) % 2 = 0
OBVIOUS

(* What the assumptions say of the chunk the loop is at.                    *)
LEMMA AtChunk ==
  ASSUME Place, chunk <= Len(input)
  PROVE  /\ input[chunk] \in Chunks
         /\ input[chunk].size \in Nat /\ input[chunk].size > 0
         /\ input[chunk].size - offset \in 1..input[chunk].size
         /\ WholeUnits(input[chunk], input[chunk].size - offset)
         /\ Remaining.size = input[chunk].size - offset
         /\ MaxBits \in Int /\ HeaderSize \in Nat
         /\ MaxBits = DataLength(version, level) * 8 - HeaderSize
         /\ MaxBits <= DataLength(version, level) * 8
<1>1. input \in Seq([mode : STRING, size : Nat, eci : Nat])
  BY InputsAssumption DEF Place
<1>2. chunk \in 1..Len(input) /\ chunk \in DOMAIN input
  BY <1>1 DEF Place
<1>3. input[chunk] \in [mode : STRING, size : Nat, eci : Nat]
  BY <1>1, <1>2, ElementOfSeq
<1>4. input[chunk] \in Chunks
  BY <1>2 DEF Chunks, Place
<1>5. input[chunk].size > 0 /\ WholeUnits(input[chunk], input[chunk].size)
  BY <1>4, InputsAssumption
<1>6. input[chunk].size \in Nat
  BY <1>3
<1>7. input[chunk].size - offset \in 1..input[chunk].size
  BY <1>5, <1>6 DEF Place
<1>8. WholeUnits(input[chunk], input[chunk].size - offset)
  BY <1>5, <1>6 DEF Place, WholeUnits
<1>9. Remaining.size = input[chunk].size - offset
  BY <1>3 DEF Remaining, Sized
<1>10. DataLength(version, level) \in Nat
  BY InputsAssumption DEF Place
<1> QED
  BY <1>4, <1>5, <1>6, <1>7, <1>8, <1>9, <1>10, InputsAssumption DEF MaxBits

(* The whole rest of the chunk, when it fits by the estimate.               *)
LEMMA WholeFits ==
  ASSUME Place, Counted, chunk <= Len(input), status = "splitting", Fits
  PROVE  LET n == Encoded(Remaining, version) IN n \in Nat /\ bits + n <= MaxBits
<1>1. PICK t \in Specs : version = t[1] /\ level = t[2]
  BY DEF Place
<1>2. /\ Estimated(Remaining, version) \in Nat /\ Encoded(Remaining, version) \in Nat
      /\ Estimated(Remaining, version) <= DataLength(version, level) * 8
           => Encoded(Remaining, version) <= Estimated(Remaining, version)
  BY <1>1, AtChunk, EstimateAssumption DEF EstimateSafe, Remaining, MaximumBits
<1>3. MaxBits \in Int /\ MaxBits <= DataLength(version, level) * 8 /\ bits \in Nat
  BY AtChunk DEF Counted
<1>4. DataLength(version, level) \in Nat
  BY <1>1, InputsAssumption
<1> QED
  BY <1>2, <1>3, <1>4 DEF Fits

(* A cut within the rest of the chunk.                                      *)
LEMMA CutFits ==
  ASSUME Place, Counted, chunk <= Len(input), status = "splitting"
  PROVE  /\ Cut \in Nat /\ WholeUnits(input[chunk], Cut)
         /\ Cut > 0 /\ Cut < Remaining.size
              => LET n == Encoded(CutOff, version) IN n \in Nat /\ bits + n <= MaxBits
<1>1. PICK t \in Specs : version = t[1] /\ level = t[2]
  BY DEF Place
<1>2. Room \in 0..MaximumBits(t)
  BY <1>1, AtChunk, InputsAssumption DEF Counted, Room, MaximumBits, MaxBits
<1>3. /\ Cut \in Nat /\ WholeUnits(input[chunk], Cut)
      /\ Cut \in 1..input[chunk].size => Encoded(CutOff, version) <= Room
  BY <1>1, <1>2, AtChunk, RoomAssumption DEF AnswerFits, Cut, CutOff
<1>4. ASSUME Cut > 0, Cut < Remaining.size
      PROVE  Encoded(CutOff, version) \in Nat /\ bits + Encoded(CutOff, version) <= MaxBits
  <2>1. Cut \in 1..input[chunk].size
    BY <1>3, <1>4, AtChunk DEF Place
  <2>2. Encoded(CutOff, version) \in Nat
    BY <2>1, <1>1, <1>3, AtChunk, EstimateAssumption DEF EstimateSafe, CutOff
  <2> QED
    BY <2>1, <2>2, <1>3, AtChunk DEF Room, Counted
<1> QED
  BY <1>3, <1>4

(* An empty symbol takes something of every chunk.                          *)
LEMMA EmptySymbolTakes ==
  ASSUME Place, Counted, chunk <= Len(input), status = "splitting", CurrentEmpty, ~Fits
  PROVE  Cut > 0
<1>1. PICK t \in Specs : version = t[1] /\ level = t[2]
  BY DEF Place
<1>2. bits = 0 /\ Room = MaximumBits(t) - HeaderSize /\ Room > 0
  BY <1>1, AtChunk DEF Counted, Active, Room, MaximumBits
<1>3. \/ LengthOfCode(input[chunk].mode, version, Room) > 0
      \/ \A n \in 1..input[chunk].size : Estimated(Sized(input[chunk], n), version) <= Room
  BY <1>1, <1>2, AtChunk, RoomAssumption DEF SymbolHoldsSome
<1>4. CASE \A n \in 1..input[chunk].size : Estimated(Sized(input[chunk], n), version) <= Room
  <2>1. Estimated(Remaining, version) <= Room
    BY <1>4, AtChunk DEF Remaining
  <2>2. Estimated(Remaining, version) \in Nat
    BY <1>1, AtChunk, EstimateAssumption DEF EstimateSafe, Remaining
  <2> QED
    BY <2>1, <2>2, <1>2, AtChunk DEF Fits, Room
<1> QED
  BY <1>3, <1>4 DEF Cut
-----------------------------------------------------------------------------
(* A piece of the chunk is put at the end of the current symbol.            *)
LEMMA Placing ==
  ASSUME IInv, Splitting, NEW b \in Nat, NEW n \in Nat,
         0 < b, b <= input[chunk].size - offset, WholeUnits(input[chunk], b),
         bits + n <= MaxBits, placed' = Append(placed, Piece(b, n)),
         symbols' \in {symbols, symbols + 1}, UNCHANGED <<input, version, level>>
  PROVE  /\ Pieces'
         /\ placed' # <<>> /\ placed'[1].chunk = 1 /\ placed'[1].lo = 0
         /\ \A i \in 2..Len(placed') : Follows(placed[i - 1], placed[i].chunk, placed[i].lo)'
         /\ Len(placed') = Len(placed) + 1
         /\ \A i \in 1..Len(placed) : placed'[i] = placed[i]
         /\ Last'.chunk = chunk /\ Last'.lo = offset /\ Last'.hi = offset + b
         /\ Last'.symbol = symbols + 1 /\ Last'.upto = bits + n
<1> USE DEF IInv, Splitting
<1> DEFINE p == Piece(b, n)
<1>1. /\ placed \in Seq(PieceType) /\ chunk \in 1..Len(input) /\ offset \in Nat
      /\ symbols \in Nat /\ bits \in Nat /\ Len(input) \in Nat
      /\ Len(placed) \in Nat
  <2>1. input \in Seq([mode : STRING, size : Nat, eci : Nat])
    BY InputsAssumption DEF Place
  <2> QED
    BY <2>1, LenProperties DEF Place, Pieces, Counted
<1>2. p.upto = bits + n
  <2>1. bits = IF CurrentEmpty THEN 0 ELSE Last.upto
    BY DEF Counted, Active
  <2>2. p.upto = n + bits
    BY <2>1 DEF Piece, Last
  <2> QED
    BY <1>1, <2>2
<1>3. /\ p \in PieceType /\ p.chunk = chunk /\ p.lo = offset /\ p.hi = offset + b
      /\ p.symbol = symbols + 1
  <2>1. /\ p.chunk = chunk /\ p.lo = offset /\ p.hi = offset + b /\ p.symbol = symbols + 1
        /\ p = [chunk |-> p.chunk, lo |-> p.lo, hi |-> p.hi, symbol |-> p.symbol, upto |-> p.upto]
    BY DEF Piece
  <2> HIDE DEF p
  <2>2. /\ p.chunk \in Nat /\ p.lo \in Nat /\ p.hi \in Nat /\ p.symbol \in Nat
        /\ p.upto \in Nat
    BY <1>1, <1>2, <2>1
  <2> QED
    BY <2>1, <2>2 DEF PieceType
<1> HIDE DEF p
<1>4. /\ placed' \in Seq(PieceType) /\ Len(placed') = Len(placed) + 1 /\ placed' # <<>>
      /\ \A i \in 1..Len(placed) : placed'[i] = placed[i]
      /\ placed'[Len(placed) + 1] = p
  <2>1. placed' = Append(placed, p)
    BY DEF p
  <2> QED
    BY <1>1, <1>3, <2>1, AppendProperties
<1>5. MaxBits' = MaxBits
  BY DEF MaxBits
<1>6. WholeUnits(input[chunk], offset) /\ WholeUnits(input[chunk], offset + b)
  <2>1. chunk <= Len(input)
    OBVIOUS
  <2>2. WholeUnits(input[chunk], offset)
    BY <2>1 DEF Place
  <2>3. (offset % 2 = 0 /\ b % 2 = 0) => (offset + b) % 2 = 0
    BY <1>1, EvenSum
  <2> QED
    BY <2>2, <2>3 DEF WholeUnits
<1>7. Pieces'
  <2>1. ASSUME NEW i \in 1..Len(placed')
        PROVE  /\ placed'[i].chunk \in 1..Len(input)
               /\ placed'[i].lo < placed'[i].hi
               /\ WholeUnits(input[placed'[i].chunk], placed'[i].lo)
               /\ WholeUnits(input[placed'[i].chunk], placed'[i].hi)
               /\ placed'[i].symbol <= symbols' + 1
               /\ placed'[i].upto <= MaxBits
    <3>1. CASE i = Len(placed) + 1
      BY <3>1, <1>1, <1>2, <1>3, <1>4, <1>6
    <3>2. CASE i # Len(placed) + 1
      <4>1. i \in 1..Len(placed) /\ placed'[i] = placed[i] /\ placed[i] \in PieceType
        BY <3>2, <1>1, <1>4, ElementOfSeq
      <4>2. /\ placed[i].chunk \in 1..Len(input)
            /\ placed[i].lo < placed[i].hi
            /\ WholeUnits(input[placed[i].chunk], placed[i].lo)
            /\ WholeUnits(input[placed[i].chunk], placed[i].hi)
            /\ placed[i].symbol <= symbols + 1
            /\ placed[i].upto <= MaxBits
        BY <4>1 DEF Pieces
      <4>3. placed[i].symbol <= symbols' + 1
        <5>1. placed[i].symbol \in Nat
          BY <4>1 DEF PieceType
        <5> QED
          BY <4>2, <5>1, <1>1
      <4> QED
        BY <4>1, <4>2, <4>3
    <3> QED
      BY <3>1, <3>2
  <2> QED
    BY <2>1, <1>4, <1>5 DEF Pieces, WholeUnits
<1>8. placed'[1].chunk = 1 /\ placed'[1].lo = 0
  <2>1. CASE placed = <<>>
    BY <2>1, <1>1, <1>3, <1>4 DEF Chained
  <2>2. CASE placed # <<>>
    <3>1. 1 \in 1..Len(placed)
      BY <2>2, <1>1, EmptySeq
    <3> QED
      BY <2>2, <3>1, <1>4 DEF Chained
  <2> QED
    BY <2>1, <2>2
<1>9. ASSUME NEW i \in 2..Len(placed')
      PROVE  Follows(placed[i - 1], placed[i].chunk, placed[i].lo)'
  <2>1. CASE i = Len(placed) + 1
    <3>1. Len(placed) \in 1..Len(placed) /\ placed # <<>>
      BY <2>1, <1>1, <1>4, EmptySeq
    <3>2. Follows(Last, chunk, offset)
      BY <3>1 DEF Chained
    <3>3. placed'[i - 1] = Last /\ placed'[i] = p
      BY <2>1, <3>1, <1>1, <1>4 DEF Last
    <3> QED
      BY <3>2, <3>3, <1>3 DEF Follows
  <2>2. CASE i # Len(placed) + 1
    <3>1. i \in 2..Len(placed) /\ placed'[i] = placed[i] /\ placed'[i - 1] = placed[i - 1]
      BY <2>2, <1>1, <1>4
    <3> QED
      BY <3>1 DEF Chained, Follows
  <2> QED
    BY <2>1, <2>2
<1>10. Last' = p
  BY <1>4 DEF Last
<1> QED
  BY <1>2, <1>3, <1>4, <1>7, <1>8, <1>9, <1>10

(* The pieces stay as they are while the loop does not place one.           *)
LEMMA PiecesKept ==
  ASSUME IInv, UNCHANGED <<input, version, level, placed>>,
         symbols' \in {symbols, symbols + 1}
  PROVE  Pieces'
<1>1. symbols \in Nat /\ MaxBits' = MaxBits
  BY DEF IInv, Counted, MaxBits
<1>2. ASSUME NEW i \in 1..Len(placed)
      PROVE  placed[i].symbol <= symbols' + 1
  <2>1. placed[i] \in PieceType
    BY ElementOfSeq DEF IInv, Pieces
  <2>2. placed[i].symbol \in Nat
    BY <2>1 DEF PieceType
  <2>3. placed[i].symbol <= symbols + 1
    BY DEF IInv, Pieces
  <2> QED
    BY <1>1, <2>2, <2>3
<1> QED
  BY <1>1, <1>2 DEF IInv, Pieces, WholeUnits

(* A piece put in an empty symbol is what the symbol before was full for.   *)
LEMMA PairsKept ==
  ASSUME IInv, Splitting, UNCHANGED <<input, version, level>>,
         Len(placed') = Len(placed) + 1, \A i \in 1..Len(placed) : placed'[i] = placed[i],
         Last'.chunk = chunk, Last'.lo = offset, Last'.symbol = symbols + 1
  PROVE  NoRoomWasted'
<1>1. Len(placed) \in Nat /\ symbols \in Nat /\ MaxBits' = MaxBits
  BY LenProperties DEF IInv, Pieces, Counted, MaxBits
<1>2. ASSUME NEW i \in 2..Len(placed'), placed'[i].symbol # placed'[i - 1].symbol
      PROVE  Full(placed[i - 1], placed[i].chunk, placed[i].lo)'
  <2>1. CASE i = Len(placed) + 1
    <3>1. placed # <<>> /\ Len(placed) \in 1..Len(placed) /\ placed'[i - 1] = Last
      BY <1>1, <2>1, EmptySeq DEF Last
    <3>2. placed'[i].chunk = chunk /\ placed'[i].lo = offset /\ placed'[i].symbol = symbols + 1
      BY <2>1 DEF Last
    <3>3. Last.symbol \in Nat /\ Last.symbol <= symbols + 1
      <4>1. Last \in PieceType /\ Last.symbol <= symbols + 1
        BY <3>1, ElementOfSeq DEF Last, IInv, Pieces
      <4> QED
        BY <4>1 DEF PieceType
    <3>4. CurrentEmpty
      BY <1>1, <1>2, <3>1, <3>2, <3>3 DEF CurrentEmpty, Last
    <3>5. Full(Last, chunk, offset)
      BY <3>1, <3>4 DEF IInv, Snug, Splitting
    <3> QED
      BY <1>1, <3>1, <3>2, <3>5 DEF Full
  <2>2. CASE i # Len(placed) + 1
    <3>1. i \in 2..Len(placed) /\ placed'[i] = placed[i] /\ placed'[i - 1] = placed[i - 1]
      BY <1>1, <2>2
    <3>2. Full(placed[i - 1], placed[i].chunk, placed[i].lo)
      BY <1>2, <3>1 DEF IInv, Snug, NoRoomWasted
    <3> QED
      BY <1>1, <3>1, <3>2 DEF Full
  <2> QED
    BY <2>1, <2>2
<1> QED
  BY <1>2 DEF NoRoomWasted

(* While the loop places nothing, nothing changes between pieces.           *)
LEMMA SnugKept ==
  ASSUME IInv, UNCHANGED <<input, version, level, placed, chunk, offset, symbols>>
  PROVE  Snug'
BY DEF IInv, Snug, NoRoomWasted, Full, MaxBits, CurrentEmpty, Last

(* Another character of the chunk than those of the cut, and it would not   *)
(* be in the room that is left.                                             *)
LEMMA CutIsFull ==
  ASSUME Place, Counted, chunk <= Len(input), status = "splitting", Cut < Remaining.size
  PROVE  CanBeCut(input[chunk]) =>
           LET n == Encoded(Sized(input[chunk], Cut + UnitSize(input[chunk])), version)
           IN  n \in Nat /\ bits + n > MaxBits
<1>1. PICK t \in Specs : version = t[1] /\ level = t[2]
  BY DEF Place
<1>2. Room \in 0..MaximumBits(t)
  BY <1>1, AtChunk, InputsAssumption DEF Counted, Room, MaximumBits, MaxBits
<1> DEFINE c == input[chunk]  more == Cut + UnitSize(c)
<1>3. c \in Chunks /\ c.size \in Nat /\ WholeUnits(c, c.size)
  BY AtChunk, InputsAssumption
<1>4. /\ Cut \in Nat /\ WholeUnits(c, Cut)
      /\ CanBeCut(c) /\ Cut < c.size => Encoded(Sized(c, more), version) > Room
  BY <1>1, <1>2, <1>3, RoomAssumption DEF AnswerFits, Cut
<1>5. Cut < c.size
  BY <1>3, <1>4, AtChunk DEF Place
<1>6. more \in 1..c.size /\ WholeUnits(c, more)
  BY <1>3, <1>4, <1>5 DEF WholeUnits, UnitSize
<1>7. Encoded(Sized(c, more), version) \in Nat
  BY <1>1, <1>3, <1>6, EstimateAssumption DEF EstimateSafe
<1> QED
  BY <1>4, <1>5, <1>7, AtChunk DEF Room, Counted

LEMMA InitHolds == Init => IInv
<1> SUFFICES ASSUME Init PROVE IInv
  OBVIOUS
<1> USE DEF Init
<1>1. input \in Seq([mode : STRING, size : Nat, eci : Nat])
  BY InputsAssumption
<1>2. Len(input) \in Nat
  BY <1>1, LenProperties
<1>3. Place
  BY <1>2 DEF Place, WholeUnits
<1>4. Len(placed) = 0 /\ placed \in Seq(PieceType)
  BY EmptySeq
<1>5. Pieces /\ Chained
  BY <1>4 DEF Pieces, Chained
<1>6. Counted /\ Filled /\ Outcome
  BY <1>4 DEF Counted, Filled, Outcome, Active, CurrentEmpty
<1>7. Snug
  BY <1>4 DEF Snug, NoRoomWasted
<1> QED
  BY <1>3, <1>5, <1>6, <1>7 DEF IInv

LEMMA BeginKeeps == ASSUME IInv, Begin PROVE IInv'
<1> USE DEF IInv, Begin
<1>1. Pieces'
  BY PiecesKept
<1>2. Place'
  BY DEF Place, WholeUnits
<1>3. Chained'
  BY DEF Chained, Follows, Last
<1>4. MaxBits' = MaxBits /\ MaxBits \in Int
  BY InputsAssumption DEF MaxBits, Place
<1>5. placed = <<>> /\ bits = 0
  BY DEF Counted, Active, CurrentEmpty
<1>6. Counted'
  BY <1>4, <1>5 DEF Counted, CurrentEmpty, Last, Active
<1>7. Filled'
  BY DEF Filled, Active, CurrentEmpty
<1>8. Outcome'
  BY DEF Outcome
<1>9. Snug'
  BY SnugKept
<1> QED
  BY <1>1, <1>2, <1>3, <1>6, <1>7, <1>8, <1>9

LEMMA PlaceWholeKeeps == ASSUME IInv, PlaceWhole PROVE IInv'
<1> DEFINE b == Remaining.size  n == Encoded(Remaining, version)
<1>1. status = "splitting" /\ chunk <= Len(input) /\ Fits /\ Splitting
  BY DEF PlaceWhole, Splitting
<1>2. /\ UNCHANGED <<input, version, level, symbols, status, errno>>
      /\ placed' = Append(placed, Piece(b, n)) /\ bits' = bits + n
      /\ chunk' = chunk + 1 /\ offset' = 0
  BY DEF PlaceWhole
<1>3. n \in Nat /\ bits + n <= MaxBits
  BY <1>1, WholeFits DEF IInv
<1>4. /\ b \in Nat /\ 0 < b /\ b = input[chunk].size - offset /\ WholeUnits(input[chunk], b)
      /\ input[chunk].size \in Nat
  BY <1>1, AtChunk DEF IInv
<1>5. /\ symbols \in Nat /\ bits \in Nat /\ chunk \in 1..Len(input) + 1 /\ offset \in Nat
      /\ Len(input) \in Nat
  <2>1. input \in Seq([mode : STRING, size : Nat, eci : Nat])
    BY InputsAssumption DEF IInv, Place
  <2> QED
    BY <2>1, LenProperties DEF IInv, Counted, Place
<1> HIDE DEF b, n
<1>6. /\ Pieces'
      /\ placed' # <<>> /\ placed'[1].chunk = 1 /\ placed'[1].lo = 0
      /\ \A i \in 2..Len(placed') : Follows(placed[i - 1], placed[i].chunk, placed[i].lo)'
      /\ Len(placed') = Len(placed) + 1
      /\ \A i \in 1..Len(placed) : placed'[i] = placed[i]
      /\ Last'.chunk = chunk /\ Last'.lo = offset /\ Last'.hi = offset + b
      /\ Last'.symbol = symbols + 1 /\ Last'.upto = bits + n
  <2>1. b <= input[chunk].size - offset
    BY <1>4, <1>5
  <2> QED
    BY <1>1, <1>2, <1>3, <1>4, <2>1, Placing
<1>7. Place'
  BY <1>1, <1>2, <1>5 DEF IInv, Place, WholeUnits
<1>8. Chained'
  <2>1. Follows(Last, chunk, offset)'
    BY <1>2, <1>4, <1>5, <1>6 DEF Follows
  <2> QED
    BY <2>1, <1>6 DEF Chained
<1>9. ~CurrentEmpty'
  BY <1>2, <1>5, <1>6 DEF CurrentEmpty, Last
<1>10. Counted'
  <2>1. MaxBits' = MaxBits
    BY <1>2 DEF MaxBits
  <2> QED
    BY <2>1, <1>1, <1>2, <1>3, <1>5, <1>6, <1>9 DEF IInv, Counted
<1>11. Filled'
  <2>1. ASSUME NEW k \in 1..symbols', input' # <<>>
        PROVE  \E i \in 1..Len(placed') : placed'[i].symbol = k
    <3>1. PICK i \in 1..Len(placed) : placed[i].symbol = k
      BY <2>1, <1>2 DEF IInv, Filled
    <3>2. i \in 1..Len(placed') /\ placed'[i].symbol = k
      <4>1. Len(placed) \in Nat
        BY LenProperties DEF IInv, Pieces
      <4> QED
        BY <3>1, <4>1, <1>6
    <3> QED
      BY <3>2
  <2> QED
    BY <2>1, <1>9 DEF Filled
<1>12. Outcome'
  BY <1>1, <1>2 DEF IInv, Outcome
<1>13. Snug'
  <2>1. NoRoomWasted'
    BY <1>1, <1>2, <1>6, PairsKept
  <2> QED
    BY <2>1, <1>2, <1>9 DEF Snug
<1> QED
  BY <1>6, <1>7, <1>8, <1>10, <1>11, <1>12, <1>13 DEF IInv

LEMMA SplitEntryKeeps == ASSUME IInv, SplitEntry PROVE IInv'
<1>1. /\ status = "splitting" /\ chunk <= Len(input) /\ Splitting /\ Cut > 0
      /\ UNCHANGED <<input, version, level, chunk>>
  BY DEF SplitEntry, Splitting
<1>2. /\ symbols \in Nat /\ bits \in Nat /\ chunk \in 1..Len(input) + 1 /\ offset \in Nat
      /\ Len(input) \in Nat /\ MaxBits' = MaxBits /\ MaxBits \in Int
  <2>1. input \in Seq([mode : STRING, size : Nat, eci : Nat])
    BY InputsAssumption DEF IInv, Place
  <2>2. MaxBits' = MaxBits /\ MaxBits \in Int
    BY <1>1, AtChunk DEF IInv, MaxBits
  <2> QED
    BY <1>1, <2>1, <2>2, LenProperties DEF IInv, Counted, Place
<1>3. CASE ~(Cut < Remaining.size)
  <2>1. /\ UNCHANGED <<input, version, level, chunk, offset, placed, symbols, bits>>
        /\ status' = "failed" /\ errno' = "EINVAL"
    BY <1>1, <1>3 DEF SplitEntry
  <2>2. Pieces'
    BY <2>1, PiecesKept
  <2>3. Place' /\ Chained'
    BY <2>1 DEF IInv, Place, WholeUnits, Chained, Follows, Last
  <2>4. Counted' /\ Filled' /\ Outcome'
    BY <2>1 DEF IInv, Counted, Filled, Outcome, Active
  <2>5. Snug'
    BY <2>1, SnugKept
  <2> QED
    BY <2>2, <2>3, <2>4, <2>5 DEF IInv
<1>4. CASE Cut < Remaining.size
  <2> DEFINE n == Encoded(CutOff, version)
  <2>1. /\ placed' = Append(placed, Piece(Cut, n)) /\ offset' = offset + Cut
        /\ symbols' = symbols + 1 /\ bits' = 0 /\ UNCHANGED <<status, errno>>
    BY <1>4 DEF SplitEntry
  <2>2. Cut \in Nat /\ WholeUnits(input[chunk], Cut) /\ n \in Nat /\ bits + n <= MaxBits
    BY <1>1, <1>4, CutFits DEF IInv
  <2>3. Cut < input[chunk].size - offset /\ input[chunk].size \in Nat
    BY <1>1, <1>4, AtChunk DEF IInv
  <2> HIDE DEF n
  <2>4. /\ Pieces'
        /\ placed' # <<>> /\ placed'[1].chunk = 1 /\ placed'[1].lo = 0
        /\ \A i \in 2..Len(placed') : Follows(placed[i - 1], placed[i].chunk, placed[i].lo)'
        /\ Len(placed') = Len(placed) + 1
        /\ \A i \in 1..Len(placed) : placed'[i] = placed[i]
        /\ Last'.chunk = chunk /\ Last'.lo = offset /\ Last'.hi = offset + Cut
        /\ Last'.symbol = symbols + 1 /\ Last'.upto = bits + n
    <3>1. Cut <= input[chunk].size - offset /\ 0 < Cut
      BY <1>1, <1>2, <2>2, <2>3
    <3> QED
      BY <1>1, <2>1, <2>2, <3>1, Placing
  <2>5. Place'
    <3>1. offset' \in Nat /\ offset' < input[chunk].size
      BY <1>2, <2>1, <2>2, <2>3
    <3>2. WholeUnits(input[chunk], offset')
      <4>1. WholeUnits(input[chunk], offset)
        BY <1>1 DEF IInv, Place
      <4>2. (offset % 2 = 0 /\ Cut % 2 = 0) => (offset + Cut) % 2 = 0
        BY <1>2, <2>2, EvenSum
      <4> QED
        BY <2>1, <2>2, <4>1, <4>2 DEF WholeUnits
    <3> QED
      BY <1>1, <3>1, <3>2 DEF IInv, Place, WholeUnits
  <2>6. Chained'
    <3>1. Follows(Last, chunk, offset)'
      BY <1>1, <2>1, <2>4 DEF Follows
    <3> QED
      BY <3>1, <2>4 DEF Chained
  <2>7. CurrentEmpty'
    BY <1>2, <2>1, <2>4 DEF CurrentEmpty, Last
  <2>8. Counted'
    BY <1>1, <1>2, <2>1, <2>7 DEF IInv, Counted
  <2>9. Filled'
    <3>1. ASSUME NEW k \in 1..symbols', input' # <<>>
          PROVE  \E i \in 1..Len(placed') : placed'[i].symbol = k
      <4>1. Len(placed) \in Nat
        BY LenProperties DEF IInv, Pieces
      <4>2. CASE k = symbols + 1
        BY <4>1, <4>2, <2>4 DEF Last
      <4>3. CASE k # symbols + 1
        <5>1. PICK i \in 1..Len(placed) : placed[i].symbol = k
          BY <3>1, <4>3, <1>1, <1>2, <2>1 DEF IInv, Filled
        <5>2. i \in 1..Len(placed') /\ placed'[i].symbol = k
          BY <5>1, <4>1, <2>4
        <5> QED
          BY <5>2
      <4> QED
        BY <4>2, <4>3
    <3> QED
      BY <3>1, <1>1 DEF Filled
  <2>10. Outcome'
    BY <1>1, <2>1 DEF IInv, Outcome
  <2>11. Full(Last, chunk, offset)'
    <3>1. CanBeCut(input[chunk]) =>
            LET m == Encoded(Sized(input[chunk], Cut + UnitSize(input[chunk])), version)
            IN  m \in Nat /\ bits + m > MaxBits
      BY <1>1, <1>4, CutIsFull DEF IInv
    <3>2. /\ (offset + Cut) - offset = Cut /\ (bits + n) - n = bits
          /\ (offset + Cut) + UnitSize(input[chunk]) - offset = Cut + UnitSize(input[chunk])
      BY <1>2, <2>2 DEF UnitSize
    <3>3. n = Encoded(Sized(input[chunk], Cut), version)
      BY DEF n, CutOff
    <3> QED
      BY <1>1, <1>2, <2>1, <2>4, <3>1, <3>2, <3>3 DEF Full
  <2>12. Snug'
    <3>1. NoRoomWasted'
      BY <1>1, <2>4, PairsKept
    <3> QED
      BY <2>7, <2>11, <3>1 DEF Snug
  <2> QED
    BY <2>4, <2>5, <2>6, <2>8, <2>9, <2>10, <2>12 DEF IInv
<1> QED
  BY <1>3, <1>4

LEMMA MoveEntryKeeps == ASSUME IInv, MoveEntry PROVE IInv'
<1>1. /\ status = "splitting" /\ chunk <= Len(input) /\ Cut = 0 /\ ~Fits
      /\ UNCHANGED <<input, version, level, chunk, offset, placed, errno>>
  BY DEF MoveEntry, Splitting
<1>2. ~CurrentEmpty
  <2>1. CurrentEmpty => Cut > 0
    BY <1>1, EmptySymbolTakes DEF IInv
  <2> QED
    BY <1>1, <2>1
<1>3. symbols' = symbols + 1 /\ bits' = 0 /\ status' = status
  BY <1>2 DEF MoveEntry
<1>4. placed # <<>> /\ Last \in PieceType /\ Len(placed) \in 1..Len(placed)
  <2>1. placed # <<>> /\ placed \in Seq(PieceType)
    BY <1>2 DEF CurrentEmpty, IInv, Pieces
  <2>2. Len(placed) \in 1..Len(placed)
    BY <2>1, EmptySeq, LenProperties
  <2> QED
    BY <2>1, <2>2, ElementOfSeq DEF Last
<1>5. Last.symbol = symbols + 1 /\ symbols \in Nat
  <2>1. Last.symbol \in Nat
    BY <1>4 DEF PieceType
  <2>2. Last.symbol <= symbols + 1 /\ ~(Last.symbol <= symbols) /\ symbols \in Nat
    BY <1>2, <1>4 DEF CurrentEmpty, Last, IInv, Pieces, Counted
  <2> QED
    BY <2>1, <2>2
<1>6. Pieces'
  BY <1>1, <1>3, PiecesKept
<1>7. Place' /\ Chained' /\ Outcome'
  BY <1>1, <1>3 DEF IInv, Place, WholeUnits, Chained, Follows, Last, Outcome
<1>8. CurrentEmpty'
  BY <1>1, <1>3, <1>5 DEF CurrentEmpty, Last
<1>9. Counted'
  <2>1. MaxBits' = MaxBits /\ MaxBits \in Int /\ MaxBits > 0
    BY <1>1, AtChunk DEF IInv, MaxBits, Counted
  <2>2. symbols' \in Nat /\ bits' \in Nat
    BY <1>3, <1>5
  <2> QED
    BY <1>1, <1>3, <1>8, <2>1, <2>2 DEF IInv, Counted
<1>10. Filled'
  <2>1. ASSUME NEW k \in 1..symbols', input' # <<>>
        PROVE  \E i \in 1..Len(placed') : placed'[i].symbol = k
    <3>1. CASE k = symbols + 1
      BY <3>1, <1>1, <1>4, <1>5 DEF Last
    <3>2. CASE k # symbols + 1
      BY <2>1, <3>2, <1>1, <1>3, <1>5 DEF IInv, Filled
    <3> QED
      BY <3>1, <3>2
  <2> QED
    BY <2>1, <1>1 DEF Filled, IInv
<1>11. Snug'
  <2>1. offset = 0
    BY <1>2 DEF IInv, Snug, Place
  <2>2. Last.chunk # chunk
    <3>1. Last.hi \in Nat /\ Last.lo \in Nat /\ Last.chunk \in Nat /\ Last.lo < Last.hi
      <4>1. Last.lo < Last.hi
        BY <1>4 DEF Last, IInv, Pieces
      <4> QED
        BY <1>4, <4>1 DEF PieceType
    <3>2. Follows(Last, chunk, offset)
      BY <1>4 DEF IInv, Chained
    <3> QED
      BY <2>1, <3>1, <3>2 DEF Follows
  <2>3. Cut < Remaining.size
    BY <1>1, AtChunk DEF IInv, Place
  <2>4. CanBeCut(input[chunk]) =>
          LET m == Encoded(Sized(input[chunk], UnitSize(input[chunk])), version)
          IN  m \in Nat /\ bits + m > MaxBits
    <3>1. Cut + UnitSize(input[chunk]) = UnitSize(input[chunk])
      BY <1>1 DEF UnitSize
    <3> QED
      BY <1>1, <2>3, <3>1, CutIsFull DEF IInv
  <2>5. bits = Last.upto /\ bits \in Nat
    BY <1>1, <1>2 DEF IInv, Counted, Active
  <2>6. /\ bits - 0 = bits
        /\ 0 + UnitSize(input[chunk]) - 0 = UnitSize(input[chunk])
    BY <2>5 DEF UnitSize
  <2>7. Full(Last, chunk, offset)
    BY <2>1, <2>2, <2>4, <2>5, <2>6 DEF Full
  <2> QED
    BY <1>1, <1>8, <2>1, <2>7 DEF IInv, Snug, NoRoomWasted, Full, MaxBits, Last
<1> QED
  BY <1>6, <1>7, <1>9, <1>10, <1>11 DEF IInv

LEMMA FinishKeeps == ASSUME IInv, Finish PROVE IInv'
<1>1. /\ status = "splitting" /\ chunk > Len(input) /\ symbols' = symbols + 1
      /\ UNCHANGED <<input, version, level, chunk, offset, placed, bits>>
      /\ \/ symbols' > MAX_STRUCTURED_SYMBOLS /\ status' = "failed" /\ errno' = "ERANGE"
         \/ ~(symbols' > MAX_STRUCTURED_SYMBOLS) /\ status' = "done" /\ errno' = errno
  BY DEF Finish
<1>2. /\ symbols \in Nat /\ Len(input) \in Nat /\ chunk = Len(input) + 1
      /\ input \in Seq([mode : STRING, size : Nat, eci : Nat])
  <2>1. input \in Seq([mode : STRING, size : Nat, eci : Nat])
    BY InputsAssumption DEF IInv, Place
  <2>2. Len(input) \in Nat
    BY <2>1, LenProperties
  <2> QED
    BY <1>1, <2>1, <2>2 DEF IInv, Counted, Place
<1>3. Pieces'
  BY <1>1, PiecesKept
<1>4. Place' /\ Chained'
  BY <1>1 DEF IInv, Place, WholeUnits, Chained, Follows, Last
<1>5. Counted'
  BY <1>1, <1>2 DEF IInv, Counted, Active
<1>6. Filled'
  <2>1. ASSUME NEW k \in 1..symbols', input' # <<>>
        PROVE  \E i \in 1..Len(placed') : placed'[i].symbol = k
    <3>1. CASE k # symbols + 1
      <4>1. k \in 1..symbols
        BY <3>1, <1>1, <1>2
      <4>2. PICK i \in 1..Len(placed) : placed[i].symbol = k
        BY <4>1, <2>1, <1>1 DEF IInv, Filled
      <4> QED
        BY <4>2, <1>1
    <3>2. CASE k = symbols + 1
      <4>1. placed # <<>>
        <5>1. Len(input) > 0
          BY <2>1, <1>1, <1>2, EmptySeq
        <5> QED
          BY <5>1, <1>2 DEF IInv, Chained
      <4>2. ~(Last.symbol <= symbols)
        BY <4>1, <1>1, <1>2 DEF IInv, Filled, Active, CurrentEmpty, Last
      <4>3. placed \in Seq(PieceType) /\ Len(placed) \in 1..Len(placed)
        BY <4>1, EmptySeq, LenProperties DEF IInv, Pieces
      <4>4. Last \in PieceType /\ Last.symbol <= symbols + 1
        BY <4>3, ElementOfSeq DEF Last, IInv, Pieces
      <4>5. Last.symbol \in Nat
        BY <4>4 DEF PieceType
      <4>6. Last.symbol = k
        BY <4>2, <4>4, <4>5, <3>2, <1>2
      <4> QED
        BY <4>3, <4>6, <1>1 DEF Last
    <3> QED
      BY <3>1, <3>2
  <2> QED
    BY <2>1, <1>1 DEF Filled, Active
<1>7. Outcome'
  <2>1. symbols' \in Nat /\ MAX_STRUCTURED_SYMBOLS \in Nat
    BY <1>1, <1>2, InputsAssumption
  <2> QED
    BY <2>1, <1>1, <1>2 DEF IInv, Outcome
<1>8. Snug'
  <2>1. NoRoomWasted'
    BY <1>1 DEF IInv, Snug, NoRoomWasted, Full, MaxBits
  <2>2. offset \in Nat /\ ~(offset > 0)
    BY <1>1, <1>2 DEF IInv, Place
  <2> QED
    BY <1>1, <1>2, <2>1, <2>2 DEF Snug
<1> QED
  BY <1>3, <1>4, <1>5, <1>6, <1>7, <1>8 DEF IInv

LEMMA OutOfMemoryKeeps == ASSUME IInv, OutOfMemory PROVE IInv'
<1>1. /\ UNCHANGED <<input, version, level, chunk, offset, placed, symbols, bits>>
      /\ status' = "failed" /\ errno' = "ENOMEM"
  BY DEF OutOfMemory
<1>2. Pieces'
  BY <1>1, PiecesKept
<1>3. Place' /\ Chained'
  BY <1>1 DEF IInv, Place, WholeUnits, Chained, Follows, Last
<1>4. Counted' /\ Filled' /\ Outcome'
  BY <1>1 DEF IInv, Counted, Filled, Outcome, Active
<1>5. Snug'
  BY <1>1, SnugKept
<1> QED
  BY <1>2, <1>3, <1>4, <1>5 DEF IInv

(* IInv is inductive.                                                       *)
LEMMA Inductive == ASSUME IInv, [Next]_vars PROVE IInv'
<1>1. CASE Next
  BY <1>1, BeginKeeps, PlaceWholeKeeps, SplitEntryKeeps, MoveEntryKeeps, FinishKeeps,
     OutOfMemoryKeeps DEF Next, Step
<1>2. CASE UNCHANGED vars
  <2>1. Pieces'
    BY <1>2, PiecesKept DEF vars
  <2>2. Place' /\ Chained'
    BY <1>2 DEF vars, IInv, Place, WholeUnits, Chained, Follows, Last
  <2>3. Counted' /\ Filled' /\ Outcome'
    BY <1>2 DEF vars, IInv, Counted, Filled, Outcome, Active, CurrentEmpty, Last, MaxBits
  <2>4. Snug'
    BY <1>2, SnugKept DEF vars
  <2> QED
    BY <2>1, <2>2, <2>3, <2>4 DEF IInv
<1> QED
  BY <1>1, <1>2

LEMMA Invariance == Spec => []IInv
  BY InitHolds, Inductive, PTL DEF Spec

(* What the invariant is for (EntryPointsProofs needs it, too).             *)
LEMMA Sound ==
  ASSUME IInv
  PROVE  TypeOK /\ DataInOrder /\ SymbolsFit /\ SymbolsNotEmpty /\ KanjiWhole /\ NoRoomWasted
<1>1. DOMAIN placed = 1..Len(placed)
  BY LenProperties DEF IInv, Pieces
<1>2. TypeOK
  BY DEF IInv, TypeOK, Place, Pieces, Counted, Outcome, PieceType
<1>3. DataInOrder
  BY <1>1 DEF IInv, DataInOrder, Pieces, Chained, Last, Outcome
<1>4. SymbolsFit
  <2>1. DataLength(version, level) \in Nat /\ HeaderSize \in Nat
    BY InputsAssumption DEF IInv, Place
  <2>2. ASSUME NEW i \in DOMAIN placed
        PROVE  placed[i].upto + HeaderSize <= DataLength(version, level) * 8
    <3>1. placed[i] \in PieceType /\ placed[i].upto <= MaxBits
      BY <1>1, ElementOfSeq DEF IInv, Pieces
    <3>2. placed[i].upto \in Nat
      BY <3>1 DEF PieceType
    <3> QED
      BY <2>1, <3>1, <3>2 DEF MaxBits
  <2> QED
    BY <2>2 DEF SymbolsFit, IInv, Outcome
<1>5. SymbolsNotEmpty
  BY <1>1 DEF IInv, SymbolsNotEmpty, Filled, Outcome
<1>6. KanjiWhole
  BY <1>1 DEF IInv, KanjiWhole, Pieces, WholeUnits
<1>7. NoRoomWasted
  BY DEF IInv, Snug
<1> QED
  BY <1>2, <1>3, <1>4, <1>5, <1>6, <1>7
-----------------------------------------------------------------------------
(* Every variable keeps its type: the count of bits never passes what a     *)
(* symbol holds next to its header.                                         *)
THEOREM TypeCorrect == Spec => []TypeOK
BY Sound, Invariance, PTL

(* The pieces in the symbols, read in order, are the input: the loop of     *)
(* splitQRinputToStruct drops, repeats and reorders nothing.                *)
THEOREM KeepsData == Spec => []DataInOrder
BY Sound, Invariance, PTL

(* Every symbol has room for its data and its structured-append header, and *)
(* a split that succeeds makes at most MAX_STRUCTURED_SYMBOLS.              *)
THEOREM Fitting == Spec => []SymbolsFit
BY Sound, Invariance, PTL

(* No symbol of the struct is empty, and the loop never follows `prev' when *)
(* it is NULL.                                                              *)
THEOREM NoEmptySymbol == Spec => []SymbolsNotEmpty
BY Sound, Invariance, PTL

(* A cut never falls inside a two-byte Kanji character.                     *)
THEOREM CharactersWhole == Spec => []KanjiWhole
BY Sound, Invariance, PTL

(* The loop leaves a symbol only when it could not take another character   *)
(* of the data that follows: it makes no symbol it could have spared, and   *)
(* none that takes the count past MAX_STRUCTURED_SYMBOLS for nothing.       *)
THEOREM RoomUsed == Spec => []NoRoomWasted
BY Sound, Invariance, PTL
-----------------------------------------------------------------------------
(***************************************************************************)
(* The calls.                                                              *)
(***************************************************************************)
BlockOf(names) == names \X Nat
RawNames    == {"raw", "datacode", "ecccode", "rsblock"}
CodeNames   == {"masked", "qrcode"}
SymbolType  == [blocks : SUBSET BlockOf({"entry"} \cup CodeNames), version : Int]

(* The variables of each kind reach blocks of their own kind.               *)
Kinds ==
  /\ encodes \in Nat /\ objversion \in Int
  /\ object \subseteq BlockOf({"input"}) /\ struct \subseteq BlockOf({"struct"})
  /\ raw \subseteq BlockOf(RawNames) /\ frame \subseteq BlockOf({"frame"})
  /\ masked \subseteq BlockOf({"masked"}) /\ code \subseteq BlockOf(CodeNames)
  /\ codes \in Seq(SymbolType)

(* Where in a call each of them may be other than NULL.                     *)
OfStream == {"stream", "ecccode", "rsblock", "frame", "place"}
OfSymbol == OfStream \cup {"mask", "code", "exit", "encoded"}
OfList   == {"entry", "abort", "free"}
Live ==
  /\ pc \in {"call", "append", "next", "split", "raw", "returned"} \cup OfSymbol \cup OfList
  /\ object # {} => pc \notin {"call", "next", "returned"}
  /\ struct # {} => Structured /\ pc \in OfSymbol \cup OfList \cup {"raw"}
  /\ raw # {} => pc \in OfStream
  /\ frame # {} => pc \in {"place", "mask", "code", "exit"}
  /\ masked # {} => pc = "code"
  /\ code # {} => pc \in {"exit", "encoded"}
  /\ codes # <<>> => IF Structured THEN pc \in OfSymbol \cup OfList \cup {"raw", "returned"}
                                   ELSE pc = "returned"
  /\ Structured /\ pc \in OfSymbol \cup {"raw"} => codes # <<>>
  /\ pc \in {"split"} \cup OfList => Structured

(* The list holds symbols made before the one that is being made.           *)
Making  == OfStream \cup {"mask", "code"}
Earlier == \A b \in Blocks(codes) :
             b[1] = "masked" => b[2] <= encodes /\ (pc \in Making => b[2] < encodes)
Fresh   == /\ \A b \in masked \cup code : b[2] <= encodes
           /\ pc \in Making => \A b \in masked : b[2] = encodes

Owned == heap = UNION {object, struct, raw, frame, masked, code, Blocks(codes)}

MInv == Kinds /\ Live /\ Earlier /\ Fresh /\ Owned
-----------------------------------------------------------------------------
(* The blocks of a list that is empty, has one symbol, grows, or has blocks *)
(* added to its last symbol.                                                *)
LEMMA NoBlocks == Blocks(<<>>) = {}
BY DEF Blocks

LEMMA OneSymbol ==
  ASSUME NEW B, NEW v
  PROVE  Blocks(<<[blocks |-> B, version |-> v]>>) = B
BY DEF Blocks

LEMMA NextSymbol ==
  ASSUME codes \in Seq(SymbolType), NEW B, NEW v
  PROVE  Blocks(Append(codes, [blocks |-> B, version |-> v])) = Blocks(codes) \cup B
<1> DEFINE longer == Append(codes, [blocks |-> B, version |-> v])
<1>1. /\ Len(codes) \in Nat /\ DOMAIN codes = 1..Len(codes)
      /\ DOMAIN longer = 1..Len(codes) + 1
      /\ longer[Len(codes) + 1] = [blocks |-> B, version |-> v]
      /\ \A k \in 1..Len(codes) : longer[k] = codes[k]
  OBVIOUS
<1> HIDE DEF longer
<1>2. DOMAIN longer = DOMAIN codes \cup {Len(codes) + 1}
  BY <1>1
<1>3. \A k \in DOMAIN codes : longer[k].blocks = codes[k].blocks
  BY <1>1
<1>4. longer[Len(codes) + 1].blocks = B
  BY <1>1
<1>5. Blocks(longer) = Blocks(codes) \cup B
  BY <1>2, <1>3, <1>4 DEF Blocks
<1> QED
  BY <1>5 DEF longer

LEMMA LastSymbol ==
  ASSUME codes \in Seq(SymbolType), codes # <<>>, NEW B, NEW v
  PROVE  Blocks([codes EXCEPT ![Len(codes)] = [blocks |-> @.blocks \cup B, version |-> v]])
           = Blocks(codes) \cup B
<1> DEFINE fuller == [codes EXCEPT ![Len(codes)] = [blocks |-> @.blocks \cup B, version |-> v]]
<1>1. Len(codes) \in DOMAIN codes
  OBVIOUS
<1>2. /\ DOMAIN fuller = DOMAIN codes
      /\ fuller[Len(codes)].blocks = codes[Len(codes)].blocks \cup B
      /\ \A k \in DOMAIN codes : k # Len(codes) => fuller[k].blocks = codes[k].blocks
  BY <1>1
<1> HIDE DEF fuller
<1>3. Blocks(fuller) = Blocks(codes) \cup B
  BY <1>1, <1>2 DEF Blocks
<1> QED
  BY <1>3 DEF fuller

LEMMA Singleton == ASSUME NEW S, NEW x \in S PROVE <<x>> \in Seq(S)
OBVIOUS

LEMMA LastReplaced ==
  ASSUME NEW S, NEW s \in Seq(S), s # <<>>, NEW x \in S
  PROVE  [s EXCEPT ![Len(s)] = x] \in Seq(S) /\ [s EXCEPT ![Len(s)] = x] # <<>>
<1>1. Len(s) \in 1..Len(s)
  OBVIOUS
<1> QED
  BY <1>1, ExceptSeq

(* Blocks of different kinds are different.                                 *)
LEMMA Apart ==
  ASSUME Kinds
  PROVE  /\ object \cap UNION {struct, raw, frame, masked, code, Blocks(codes)} = {}
         /\ struct \cap UNION {object, raw, frame, masked, code, Blocks(codes)} = {}
         /\ raw \cap UNION {object, struct, frame, masked, code, Blocks(codes)} = {}
         /\ frame \cap UNION {object, struct, raw, masked, code, Blocks(codes)} = {}
         /\ masked \cap UNION {object, struct, raw, frame} = {}
         /\ Blocks(codes) \cap UNION {object, struct, raw, frame} = {}
         /\ \A b \in Blocks(codes) : b[1] \in {"entry"} \cup CodeNames /\ b[2] \in Nat
<1>1. /\ \A b \in object : b[1] = "input"
      /\ \A b \in struct : b[1] = "struct"
      /\ \A b \in raw : b[1] \in RawNames
      /\ \A b \in frame : b[1] = "frame"
      /\ \A b \in masked : b[1] = "masked"
      /\ \A b \in code : b[1] \in CodeNames
  BY DEF Kinds, BlockOf
<1>2. ASSUME NEW b \in Blocks(codes)
      PROVE  b[1] \in {"entry"} \cup CodeNames /\ b[2] \in Nat
  <2>1. PICK k \in DOMAIN codes : b \in codes[k].blocks
    BY DEF Blocks
  <2>2. codes[k] \in SymbolType
    BY DEF Kinds
  <2> QED
    BY <2>1, <2>2 DEF SymbolType, BlockOf
<1> QED
  BY <1>1, <1>2 DEF RawNames, CodeNames

(* A set of numbers has a least one.                                        *)
LEMMA LeastElement ==
  ASSUME NEW S, S \subseteq Nat, S # {}
  PROVE  \E m \in S : \A v \in S : m <= v
<1> DEFINE R == OpToRel(<, Nat)
<1>1. \E m \in S : \A v \in S : <<v, m>> \notin R
  BY NatLessThanWellFounded, WFMin, Zenon
<1>2. \A v, m \in Nat : <<v, m>> \notin R => m <= v
  BY DEF OpToRel
<1> QED BY <1>1, <1>2

(* The sums of a list's sizes: there are some, and Total is the last.       *)
Sums(s, m, t) == /\ t \in [0..m -> Nat] /\ t[0] = 0
                 /\ \A i \in 1..m : t[i] = t[i - 1] + s[i]

LEMMA SumsExist == ASSUME NEW s \in Seq(Nat) PROVE \E t : Sums(s, Len(s), t)
<1>1. PICK n \in Nat : n = Len(s) /\ \A i \in 1..n : s[i] \in Nat
  BY LenProperties, ElementOfSeq
<1> DEFINE S == {m \in 0..n : ~\E t : Sums(s, m, t)}
<1>2. S \subseteq Nat
  OBVIOUS
<1>3. ASSUME NEW m \in S, \A v \in S : m <= v PROVE FALSE
  <2>1. CASE m = 0
    <3>1. Sums(s, 0, [i \in 0..0 |-> 0])
      BY DEF Sums
    <3> QED
      BY <2>1, <3>1
  <2>2. CASE m # 0
    <3>1. m \in 1..n /\ m - 1 \in 0..n /\ m - 1 \notin S
      BY <1>1, <1>3, <2>2
    <3>2. PICK t : Sums(s, m - 1, t)
      BY <3>1
    <3> DEFINE u == [i \in 0..m |-> IF i = m THEN t[m - 1] + s[m] ELSE t[i]]
    <3>3. m - 1 \in 0..m - 1 /\ t[m - 1] \in Nat /\ s[m] \in Nat
      BY <1>1, <3>1, <3>2 DEF Sums
    <3>4. u \in [0..m -> Nat] /\ u[0] = 0
      BY <3>1, <3>2, <3>3 DEF Sums
    <3>5. ASSUME NEW i \in 1..m PROVE u[i] = u[i - 1] + s[i]
      BY <3>1, <3>2, <3>3 DEF Sums
    <3> QED
      BY <3>4, <3>5 DEF Sums
  <2> QED
    BY <2>1, <2>2
<1>4. S = {}
  BY <1>2, <1>3, LeastElement
<1> QED
  BY <1>1, <1>4

LEMMA TotalIs ==
  ASSUME NEW s \in Seq(Nat), NEW t, Sums(s, Len(s), t)
  PROVE  Total(s) = t[Len(s)]
<1>1. PICK n \in Nat : n = Len(s)
  BY LenProperties
<1> DEFINE Is(f) == f = [i \in 0..n |-> IF i = 0 THEN 0 ELSE f[i - 1] + s[i]]
<1>2. Is(t)
  <2> DEFINE u == [i \in 0..n |-> IF i = 0 THEN 0 ELSE t[i - 1] + s[i]]
  <2>1. t = [i \in 0..n |-> t[i]]
    BY <1>1 DEF Sums
  <2>2. \A i \in 0..n : t[i] = u[i]
    BY <1>1 DEF Sums
  <2> QED
    BY <2>1, <2>2
<1>3. ASSUME NEW f, Is(f) PROVE f[n] = t[n]
  <2>1. \A i \in 0..n : f[i] = IF i = 0 THEN 0 ELSE f[i - 1] + s[i]
    BY <1>3
  <2> DEFINE S == {i \in 0..n : f[i] # t[i]}
  <2>2. ASSUME NEW m \in S, \A v \in S : m <= v PROVE FALSE
    <3>1. m # 0
      BY <1>1, <2>1 DEF Sums
    <3>2. m \in 1..n /\ m - 1 \in 0..n /\ m - 1 \notin S
      BY <2>2, <3>1
    <3> QED
      BY <1>1, <2>1, <3>2 DEF Sums
  <2>3. S \subseteq Nat
    OBVIOUS
  <2>4. S = {}
    BY <2>2, <2>3, LeastElement
  <2> QED
    BY <2>4
<1>4. Total(s) = (CHOOSE f : Is(f))[n]
  BY <1>1 DEF Total
<1> HIDE DEF Is
<1>5. Is(CHOOSE f : Is(f))
  BY <1>2
<1> QED
  BY <1>1, <1>3, <1>4, <1>5

LEMMA TotalNat == ASSUME NEW s \in Seq(Nat) PROVE Total(s) \in Nat
<1>1. PICK n \in Nat : n = Len(s)
  BY LenProperties
<1>2. PICK t : Sums(s, n, t)
  BY <1>1, SumsExist
<1>3. t[n] \in Nat
  BY <1>2 DEF Sums
<1> QED
  BY <1>1, <1>2, <1>3, TotalIs

LEMMA TotalMonotone ==
  ASSUME NEW s \in Seq(Nat), NEW u \in Seq(Nat), Len(s) = Len(u),
         \A i \in 1..Len(s) : s[i] <= u[i]
  PROVE  Total(s) <= Total(u)
<1>1. PICK n \in Nat : n = Len(s) /\ \A i \in 1..n : s[i] \in Nat /\ u[i] \in Nat /\ s[i] <= u[i]
  BY LenProperties, ElementOfSeq
<1>2. PICK t : Sums(s, n, t)
  BY <1>1, SumsExist
<1>3. PICK w : Sums(u, n, w)
  BY <1>1, SumsExist
<1> DEFINE S == {i \in 0..n : ~(t[i] <= w[i])}
<1>4. ASSUME NEW m \in S, \A v \in S : m <= v PROVE FALSE
  <2>1. m # 0
    BY <1>2, <1>3 DEF Sums
  <2>2. m \in 1..n /\ m - 1 \in 0..n /\ m - 1 \notin S
    BY <1>4, <2>1
  <2>3. t[m - 1] <= w[m - 1] /\ t[m - 1] \in Nat /\ w[m - 1] \in Nat
    BY <1>2, <1>3, <2>2 DEF Sums
  <2>4. t[m] = t[m - 1] + s[m] /\ w[m] = w[m - 1] + u[m]
    BY <1>2, <1>3, <2>2 DEF Sums
  <2>5. s[m] \in Nat /\ u[m] \in Nat /\ s[m] <= u[m]
    BY <1>1, <2>2
  <2> QED
    BY <1>4, <2>3, <2>4, <2>5
<1>5. S \subseteq Nat
  OBVIOUS
<1>6. S = {}
  BY <1>4, <1>5, LeastElement
<1> QED
  BY <1>1, <1>2, <1>3, <1>6, TotalIs

LEMMA TotalNear ==
  ASSUME NEW s \in Seq(Nat), NEW u \in Seq(Nat), Len(s) = Len(u),
         \A i \in 1..Len(s) : Margin * s[i] <= (Margin + 1) * u[i]
  PROVE  Margin * Total(s) <= (Margin + 1) * Total(u)
<1>1. PICK n \in Nat : n = Len(s) /\ \A i \in 1..n : s[i] \in Nat /\ u[i] \in Nat
  BY LenProperties, ElementOfSeq
<1>0. ASSUME NEW i \in 1..n PROVE 128 * s[i] <= 129 * u[i]
  <2>1. Margin * s[i] <= (Margin + 1) * u[i]
    BY <1>1
  <2>2. Margin = 128 /\ Margin + 1 = 129
    BY DEF Margin
  <2> QED
    BY <2>1, <2>2, Zenon
<1>2. PICK t : Sums(s, n, t)
  BY <1>1, SumsExist
<1>3. PICK w : Sums(u, n, w)
  BY <1>1, SumsExist
<1> DEFINE S == {i \in 0..n : ~(128 * t[i] <= 129 * w[i])}
<1>4. ASSUME NEW m \in S, \A v \in S : m <= v PROVE FALSE
  <2>1. m # 0
    BY <1>2, <1>3 DEF Sums
  <2>2. m \in 1..n /\ m - 1 \in 0..n /\ m - 1 \notin S
    BY <1>4, <2>1
  <2>3. 128 * t[m - 1] <= 129 * w[m - 1] /\ t[m - 1] \in Nat /\ w[m - 1] \in Nat
    BY <1>2, <1>3, <2>2 DEF Sums
  <2>4. t[m] = t[m - 1] + s[m] /\ w[m] = w[m - 1] + u[m]
    BY <1>2, <1>3, <2>2 DEF Sums
  <2>5. s[m] \in Nat /\ u[m] \in Nat /\ 128 * s[m] <= 129 * u[m]
    BY <1>0, <1>1, <2>2
  <2>6. ASSUME NEW a \in Nat, NEW b \in Nat, NEW x \in Nat, NEW y \in Nat,
               128 * a <= 129 * b, 128 * x <= 129 * y
        PROVE  128 * (a + x) <= 129 * (b + y)
    BY <2>6
  <2>7. 128 * (t[m - 1] + s[m]) <= 129 * (w[m - 1] + u[m])
    BY <2>3, <2>5, <2>6
  <2> QED
    BY <1>4, <2>4, <2>7
<1>5. S \subseteq Nat
  OBVIOUS
<1>6. S = {}
  BY <1>4, <1>5, LeastElement
<1>7. 128 * t[n] <= 129 * w[n] /\ Total(s) = t[n] /\ Total(u) = w[n]
  BY <1>1, <1>2, <1>3, <1>6, TotalIs
<1> QED
  BY <1>7 DEF Margin

LEMMA TotalBehind ==
  ASSUME NEW s \in Seq(Nat), NEW u \in Seq(Nat), Len(u) = Len(s) + 1,
         \A i \in 1..Len(s) : u[i + 1] = s[i]
  PROVE  Total(u) = u[1] + Total(s)
<1>1. PICK n \in Nat : n = Len(s) /\ n + 1 = Len(u) /\ u[1] \in Nat
  <2>1. Len(s) \in Nat /\ 1 \in 1..Len(u)
    BY LenProperties
  <2> QED
    BY <2>1, ElementOfSeq
<1>2. PICK t : Sums(s, n, t)
  BY <1>1, SumsExist
<1> DEFINE w == [i \in 0..n + 1 |-> IF i = 0 THEN 0 ELSE u[1] + t[i - 1]]
<1>3. w \in [0..n + 1 -> Nat] /\ w[0] = 0
  BY <1>1, <1>2 DEF Sums
<1>4. ASSUME NEW i \in 1..n + 1 PROVE w[i] = w[i - 1] + u[i]
  <2>1. CASE i = 1
    BY <1>1, <1>2, <2>1 DEF Sums
  <2>2. CASE i # 1
    <3>1. i - 1 \in 1..n /\ u[i] = s[i - 1] /\ i \in 0..n + 1 /\ i - 1 \in 0..n + 1 /\ i - 1 # 0
      <4>1. i - 1 \in 1..n /\ (i - 1) + 1 = i
        BY <1>1, <2>2
      <4>2. u[(i - 1) + 1] = s[i - 1]
        BY <1>1, <4>1
      <4> QED
        BY <1>1, <4>1, <4>2
    <3>2. t[i - 1] = t[(i - 1) - 1] + s[i - 1] /\ t[(i - 1) - 1] \in Nat /\ s[i - 1] \in Nat
      <4>1. (i - 1) - 1 \in 0..n
        BY <3>1
      <4> QED
        BY <1>1, <1>2, <3>1, <4>1, ElementOfSeq DEF Sums
    <3>3. w[i] = u[1] + t[i - 1] /\ w[i - 1] = u[1] + t[(i - 1) - 1]
      BY <3>1
    <3> QED
      BY <1>1, <3>1, <3>2, <3>3
  <2> QED
    BY <2>1, <2>2
<1>5. Sums(u, n + 1, w)
  BY <1>3, <1>4 DEF Sums
<1>6. w[n + 1] = u[1] + t[n]
  BY <1>1
<1> QED
  BY <1>1, <1>2, <1>5, <1>6, TotalIs
-----------------------------------------------------------------------------
(* What the encoder of streams does to the two variables of Kinds.          *)
LEMMA StreamSteps ==
  ASSUME Kinds
  PROVE  /\ Stream!GetByteStream => encodes' = encodes + 1 /\ UNCHANGED objversion
         /\ Stream!Encode \/ Stream!OutOfMemory => UNCHANGED encodes /\ objversion' \in Int
<1>1. ASSUME NEW n, NEW l PROVE Stream!MinimumVersion(n, l) \in Int
  <2> DEFINE S == {v \in 1..VMax : Stream!Fits(n, v, l)}
  <2>1. CASE S = {}
    BY <2>1, CallsAssumption DEF Stream!MinimumVersion
  <2>2. CASE S # {}
    <3>1. S \subseteq Nat
      OBVIOUS
    <3> HIDE DEF S
    <3>2. PICK m \in S : \A v \in S : m <= v
      BY <2>2, <3>1, LeastElement
    <3> USE DEF S
    <3>3. m \in 1..VMax /\ Stream!Fits(n, m, l) /\ \A w \in 1..m - 1 : ~Stream!Fits(n, w, l)
      BY <3>2, CallsAssumption
    <3> QED
      BY <3>3 DEF Stream!MinimumVersion
  <2> QED
    BY <2>1, <2>2
<1>2. ASSUME Stream!Estimate PROVE UNCHANGED encodes /\ objversion' \in Int
  <2>1. Stream!NextGuess(source, level, prev) \in Int
    BY <1>1 DEF Stream!NextGuess, Stream!Found
  <2> QED
    BY <1>2, <2>1 DEF Stream!Estimate, Stream!Raise, Kinds
<1>3. ASSUME Stream!Convert PROVE UNCHANGED encodes /\ objversion' \in Int
  BY <1>1, <1>3 DEF Stream!Convert, Kinds
<1> QED
  BY <1>2, <1>3 DEF Stream!GetByteStream, Stream!Encode, Stream!ConvertMQR, Stream!Pad,
     Stream!OutOfMemory, Kinds
-----------------------------------------------------------------------------
LEMMA InitMInv == CallInit => MInv
<1> SUFFICES ASSUME CallInit PROVE MInv
  OBVIOUS
<1>1. objversion \in Int
  BY CallsAssumption DEF CallInit
<1>2. Blocks(codes) = {}
  BY NoBlocks DEF CallInit
<1> QED
  BY <1>1, <1>2 DEF CallInit, MInv, Kinds, Live, Earlier, Fresh, Owned, Making, OfStream,
     OfSymbol, OfList

LEMMA NewObjectKeeps == ASSUME MInv, NewObject PROVE MInv'
<1>1. Kinds'
  BY DEF NewObject, MInv, Kinds, Block, BlockOf, streamVars, Fine, Starve
<1>2. Live'
  BY DEF NewObject, MInv, Live, streamVars, Fine, Starve, Failed, Structured, Micro,
     OfSymbol, OfList, OfStream
<1>3. Blocks(codes)' = Blocks(codes)
  BY DEF NewObject, Blocks
<1>4. Earlier' /\ Fresh'
  BY <1>3 DEF NewObject, MInv, Earlier, Fresh, Making, OfStream, Failed, streamVars
<1>5. Owned'
  BY <1>3 DEF NewObject, MInv, Owned, Live
<1> QED
  BY <1>1, <1>2, <1>4, <1>5 DEF MInv

LEMMA AppendTextKeeps == ASSUME MInv, AppendText PROVE MInv'
<1>1. Kinds'
  BY StreamSteps DEF AppendText, MInv, Kinds, Block, BlockOf, RawNames, CodeNames,
     memory, streamVars, Fine, Starve, GiveUp, FreeObject
<1>2. Live'
  BY DEF AppendText, MInv, Live, memory, streamVars, Fine, Starve, Failed, GiveUp,
     FreeObject, Structured, Micro, Block, OfSymbol, OfList, OfStream
<1>3. Blocks(codes)' = Blocks(codes)
  BY DEF AppendText, Blocks, memory
<1>4. Earlier' /\ Fresh'
  BY <1>3, StreamSteps DEF AppendText, MInv, Kinds, Live, Earlier, Fresh, Making,
     OfStream, Failed, memory, streamVars, Block, GiveUp, FreeObject
<1>5. Owned'
  BY <1>3, Apart DEF AppendText, MInv, Owned, Live, memory, Fine, Starve, GiveUp,
     FreeObject, OfSymbol, OfList, OfStream
<1> QED
  BY <1>1, <1>2, <1>4, <1>5 DEF MInv

LEMMA NextVersionKeeps == ASSUME MInv, NextVersion PROVE MInv'
<1>1. Kinds'
  BY StreamSteps DEF NextVersion, MInv, Kinds, Block, BlockOf, RawNames, CodeNames,
     memory, streamVars, Fine, Starve, GiveUp, FreeObject
<1>2. Live'
  BY DEF NextVersion, MInv, Live, memory, streamVars, Fine, Starve, Failed, GiveUp,
     FreeObject, Structured, Micro, Block, OfSymbol, OfList, OfStream
<1>3. Blocks(codes)' = Blocks(codes)
  BY DEF NextVersion, Blocks, memory
<1>4. Earlier' /\ Fresh'
  BY <1>3, StreamSteps DEF NextVersion, MInv, Kinds, Live, Earlier, Fresh, Making,
     OfStream, Failed, memory, streamVars, Block, GiveUp, FreeObject
<1>5. Owned'
  BY <1>3, Apart DEF NextVersion, MInv, Owned, Live, memory, Fine, Starve, GiveUp,
     FreeObject, OfSymbol, OfList, OfStream
<1> QED
  BY <1>1, <1>2, <1>4, <1>5 DEF MInv

LEMMA SplitKeeps == ASSUME MInv, Split PROVE MInv'
<1>1. Kinds'
  BY StreamSteps DEF Split, MInv, Kinds, Block, BlockOf, RawNames, CodeNames, memory,
     streamVars, Fine, Starve, GiveUp, FreeObject
<1>2. Live'
  BY DEF Split, MInv, Live, memory, streamVars, Fine, Starve, Failed, GiveUp, FreeObject,
     Structured, Micro, Block, OfSymbol, OfList, OfStream
<1>3. Blocks(codes)' = Blocks(codes)
  BY DEF Split, Blocks, memory
<1>4. Earlier' /\ Fresh'
  BY <1>3, StreamSteps DEF Split, MInv, Kinds, Live, Earlier, Fresh, Making, OfStream,
     Failed, memory, streamVars, Block, GiveUp, FreeObject
<1>5. Owned'
  BY <1>3, Apart DEF Split, MInv, Owned, Live, memory, Fine, Starve, GiveUp, FreeObject,
     OfSymbol, OfList, OfStream
<1> QED
  BY <1>1, <1>2, <1>4, <1>5 DEF MInv

LEMMA SplitReturnsKeeps == ASSUME MInv, SplitReturns PROVE MInv'
<1>1. Kinds'
  BY StreamSteps DEF SplitReturns, MInv, Kinds, Block, BlockOf, RawNames, CodeNames,
     memory, streamVars, Fine, Starve, GiveUp, FreeObject
<1>2. Live'
  BY DEF SplitReturns, MInv, Live, memory, streamVars, Fine, Starve, Failed, GiveUp,
     FreeObject, Structured, Micro, Block, OfSymbol, OfList, OfStream
<1>3. Blocks(codes)' = Blocks(codes)
  BY DEF SplitReturns, Blocks, memory
<1>4. Earlier' /\ Fresh'
  BY <1>3, StreamSteps DEF SplitReturns, MInv, Kinds, Live, Earlier, Fresh, Making,
     OfStream, Failed, memory, streamVars, Block, GiveUp, FreeObject
<1>5. Owned'
  BY <1>3, Apart DEF SplitReturns, MInv, Owned, Live, memory, Fine, Starve, GiveUp,
     FreeObject, OfSymbol, OfList, OfStream
<1> QED
  BY <1>1, <1>2, <1>4, <1>5 DEF MInv

LEMMA FreeInputsKeeps == ASSUME MInv, FreeInputs PROVE MInv'
<1>1. Kinds'
  BY StreamSteps DEF FreeInputs, MInv, Kinds, Block, BlockOf, RawNames, CodeNames,
     memory, streamVars, Fine, Starve, GiveUp, FreeObject
<1>2. Live'
  BY DEF FreeInputs, MInv, Live, memory, streamVars, Fine, Starve, Failed, GiveUp,
     FreeObject, Structured, Micro, Block, OfSymbol, OfList, OfStream
<1>3. Blocks(codes)' = Blocks(codes)
  BY DEF FreeInputs, Blocks, memory
<1>4. Earlier' /\ Fresh'
  BY <1>3, StreamSteps DEF FreeInputs, MInv, Kinds, Live, Earlier, Fresh, Making,
     OfStream, Failed, memory, streamVars, Block, GiveUp, FreeObject
<1>5. Owned'
  BY <1>3, Apart DEF FreeInputs, MInv, Owned, Live, memory, Fine, Starve, GiveUp,
     FreeObject, OfSymbol, OfList, OfStream
<1> QED
  BY <1>1, <1>2, <1>4, <1>5 DEF MInv

LEMMA NewRawKeeps == ASSUME MInv, NewRaw PROVE MInv'
<1>1. Kinds'
  BY StreamSteps DEF NewRaw, MInv, Kinds, Block, BlockOf, RawNames, CodeNames, memory,
     streamVars, Fine, Starve, GiveUp, FreeObject
<1>2. Live'
  BY DEF NewRaw, MInv, Live, memory, streamVars, Fine, Starve, Failed, GiveUp,
     FreeObject, Structured, Micro, Block, OfSymbol, OfList, OfStream
<1>3. Blocks(codes)' = Blocks(codes)
  BY DEF NewRaw, Blocks, memory
<1>4. Earlier' /\ Fresh'
  BY <1>3, Apart, StreamSteps DEF NewRaw, MInv, Kinds, Live, Earlier, Fresh, Making,
     OfStream, Failed, memory, streamVars, Block, GiveUp, FreeObject
<1>5. Owned'
  BY <1>3, Apart DEF NewRaw, MInv, Owned, Live, memory, Fine, Starve, GiveUp, FreeObject,
     OfSymbol, OfList, OfStream
<1> QED
  BY <1>1, <1>2, <1>4, <1>5 DEF MInv

LEMMA GetByteStreamKeeps == ASSUME MInv, GetByteStream PROVE MInv'
<1>1. Kinds'
  BY StreamSteps DEF GetByteStream, MInv, Kinds, Block, BlockOf, RawNames, CodeNames,
     memory, streamVars, Fine, Starve, GiveUp, FreeObject
<1>2. Live'
  BY DEF GetByteStream, MInv, Live, memory, streamVars, Fine, Starve, Failed, GiveUp,
     FreeObject, Structured, Micro, Block, OfSymbol, OfList, OfStream
<1>3. Blocks(codes)' = Blocks(codes)
  BY DEF GetByteStream, Blocks, memory
<1>4. Earlier' /\ Fresh'
  BY <1>3, StreamSteps DEF GetByteStream, MInv, Kinds, Live, Earlier, Fresh, Making,
     OfStream, Failed, memory, streamVars, Block, GiveUp, FreeObject
<1>5. Owned'
  BY <1>3, Apart DEF GetByteStream, MInv, Owned, Live, memory, Fine, Starve, GiveUp,
     FreeObject, OfSymbol, OfList, OfStream
<1> QED
  BY <1>1, <1>2, <1>4, <1>5 DEF MInv

LEMMA GetByteStreamReturnsKeeps == ASSUME MInv, GetByteStreamReturns PROVE MInv'
<1>1. Kinds'
  BY StreamSteps DEF GetByteStreamReturns, MInv, Kinds, Block, BlockOf, RawNames,
     CodeNames, memory, streamVars, Fine, Starve, GiveUp, FreeObject
<1>2. Live'
  BY DEF GetByteStreamReturns, MInv, Live, memory, streamVars, Fine, Starve, Failed,
     GiveUp, FreeObject, Structured, Micro, Block, OfSymbol, OfList, OfStream
<1>3. Blocks(codes)' = Blocks(codes)
  BY DEF GetByteStreamReturns, Blocks, memory
<1>4. Earlier' /\ Fresh'
  BY <1>3, StreamSteps DEF GetByteStreamReturns, MInv, Kinds, Live, Earlier, Fresh,
     Making, OfStream, Failed, memory, streamVars, Block, GiveUp, FreeObject
<1>5. Owned'
  BY <1>3, Apart DEF GetByteStreamReturns, MInv, Owned, Live, memory, Fine, Starve,
     GiveUp, FreeObject, OfSymbol, OfList, OfStream
<1> QED
  BY <1>1, <1>2, <1>4, <1>5 DEF MInv

LEMMA NewEcccodeKeeps == ASSUME MInv, NewEcccode PROVE MInv'
<1>1. Kinds'
  BY StreamSteps DEF NewEcccode, MInv, Kinds, Block, BlockOf, RawNames, CodeNames,
     memory, streamVars, Fine, Starve, GiveUp, FreeObject
<1>2. Live'
  BY DEF NewEcccode, MInv, Live, memory, streamVars, Fine, Starve, Failed, GiveUp,
     FreeObject, Structured, Micro, Block, OfSymbol, OfList, OfStream
<1>3. Blocks(codes)' = Blocks(codes)
  BY DEF NewEcccode, Blocks, memory
<1>4. Earlier' /\ Fresh'
  BY <1>3, StreamSteps DEF NewEcccode, MInv, Kinds, Live, Earlier, Fresh, Making,
     OfStream, Failed, memory, streamVars, Block, GiveUp, FreeObject
<1>5. Owned'
  BY <1>3, Apart DEF NewEcccode, MInv, Owned, Live, memory, Fine, Starve, GiveUp,
     FreeObject, OfSymbol, OfList, OfStream
<1> QED
  BY <1>1, <1>2, <1>4, <1>5 DEF MInv

LEMMA NewRsblockKeeps == ASSUME MInv, NewRsblock PROVE MInv'
<1>1. Kinds'
  BY StreamSteps DEF NewRsblock, MInv, Kinds, Block, BlockOf, RawNames, CodeNames,
     memory, streamVars, Fine, Starve, GiveUp, FreeObject
<1>2. Live'
  BY DEF NewRsblock, MInv, Live, memory, streamVars, Fine, Starve, Failed, GiveUp,
     FreeObject, Structured, Micro, Block, OfSymbol, OfList, OfStream
<1>3. Blocks(codes)' = Blocks(codes)
  BY DEF NewRsblock, Blocks, memory
<1>4. Earlier' /\ Fresh'
  BY <1>3, StreamSteps DEF NewRsblock, MInv, Kinds, Live, Earlier, Fresh, Making,
     OfStream, Failed, memory, streamVars, Block, GiveUp, FreeObject
<1>5. Owned'
  BY <1>3, Apart DEF NewRsblock, MInv, Owned, Live, memory, Fine, Starve, GiveUp,
     FreeObject, OfSymbol, OfList, OfStream
<1> QED
  BY <1>1, <1>2, <1>4, <1>5 DEF MInv

LEMMA NewFrameKeeps == ASSUME MInv, NewFrame PROVE MInv'
<1>1. Kinds'
  BY StreamSteps DEF NewFrame, MInv, Kinds, Block, BlockOf, RawNames, CodeNames, memory,
     streamVars, Fine, Starve, GiveUp, FreeObject
<1>2. Live'
  BY DEF NewFrame, MInv, Live, memory, streamVars, Fine, Starve, Failed, GiveUp,
     FreeObject, Structured, Micro, Block, OfSymbol, OfList, OfStream
<1>3. Blocks(codes)' = Blocks(codes)
  BY DEF NewFrame, Blocks, memory
<1>4. Earlier' /\ Fresh'
  BY <1>3, StreamSteps DEF NewFrame, MInv, Kinds, Live, Earlier, Fresh, Making, OfStream,
     Failed, memory, streamVars, Block, GiveUp, FreeObject
<1>5. Owned'
  BY <1>3, Apart DEF NewFrame, MInv, Owned, Live, memory, Fine, Starve, GiveUp,
     FreeObject, OfSymbol, OfList, OfStream
<1> QED
  BY <1>1, <1>2, <1>4, <1>5 DEF MInv

LEMMA FillFrameKeeps == ASSUME MInv, FillFrame PROVE MInv'
<1>1. Kinds'
  BY StreamSteps DEF FillFrame, MInv, Kinds, Block, BlockOf, RawNames, CodeNames, memory,
     streamVars, Fine, Starve, GiveUp, FreeObject
<1>2. Live'
  BY DEF FillFrame, MInv, Live, memory, streamVars, Fine, Starve, Failed, GiveUp,
     FreeObject, Structured, Micro, Block, OfSymbol, OfList, OfStream
<1>3. Blocks(codes)' = Blocks(codes)
  BY DEF FillFrame, Blocks, memory
<1>4. Earlier' /\ Fresh'
  BY <1>3, StreamSteps DEF FillFrame, MInv, Kinds, Live, Earlier, Fresh, Making,
     OfStream, Failed, memory, streamVars, Block, GiveUp, FreeObject
<1>5. Owned'
  BY <1>3, Apart DEF FillFrame, MInv, Owned, Live, memory, Fine, Starve, GiveUp,
     FreeObject, OfSymbol, OfList, OfStream
<1> QED
  BY <1>1, <1>2, <1>4, <1>5 DEF MInv

LEMMA MaskFrameKeeps == ASSUME MInv, MaskFrame PROVE MInv'
<1>1. Kinds'
  BY StreamSteps DEF MaskFrame, MInv, Kinds, Block, BlockOf, RawNames, CodeNames, memory,
     streamVars, Fine, Starve, GiveUp, FreeObject
<1>2. Live'
  BY DEF MaskFrame, MInv, Live, memory, streamVars, Fine, Starve, Failed, GiveUp,
     FreeObject, Structured, Micro, Block, OfSymbol, OfList, OfStream
<1>3. Blocks(codes)' = Blocks(codes)
  BY DEF MaskFrame, Blocks, memory
<1>4. Earlier' /\ Fresh'
  BY <1>3, StreamSteps DEF MaskFrame, MInv, Kinds, Live, Earlier, Fresh, Making,
     OfStream, Failed, memory, streamVars, Block, GiveUp, FreeObject
<1>5. Owned'
  BY <1>3, Apart DEF MaskFrame, MInv, Owned, Live, memory, Fine, Starve, GiveUp,
     FreeObject, OfSymbol, OfList, OfStream
<1> QED
  BY <1>1, <1>2, <1>4, <1>5 DEF MInv

LEMMA QRcode_newKeeps == ASSUME MInv, QRcode_new PROVE MInv'
<1>1. Kinds'
  BY StreamSteps DEF QRcode_new, MInv, Kinds, Block, BlockOf, RawNames, CodeNames,
     memory, streamVars, Fine, Starve, GiveUp, FreeObject
<1>2. Live'
  BY DEF QRcode_new, MInv, Live, memory, streamVars, Fine, Starve, Failed, GiveUp,
     FreeObject, Structured, Micro, Block, OfSymbol, OfList, OfStream
<1>3. Blocks(codes)' = Blocks(codes)
  BY DEF QRcode_new, Blocks, memory
<1>4. Earlier' /\ Fresh'
  BY <1>3, StreamSteps DEF QRcode_new, MInv, Kinds, Live, Earlier, Fresh, Making,
     OfStream, Failed, memory, streamVars, Block, GiveUp, FreeObject
<1>5. masked \cap Blocks(codes) = {} /\ code = {} /\ pc = "code" /\ raw = {}
  <2>1. pc = "code" /\ code = {} /\ raw = {}
    BY DEF QRcode_new, MInv, Live, OfStream
  <2>2. \A b \in masked : b[1] = "masked" /\ b[2] = encodes
    BY <2>1 DEF MInv, Kinds, BlockOf, Fresh, Making
  <2>3. \A b \in Blocks(codes) : b[1] = "masked" => b[2] < encodes
    BY <2>1 DEF MInv, Earlier, Making
  <2> QED
    BY <2>1, <2>2, <2>3 DEF MInv, Kinds
<1>6. Owned'
  BY <1>3, <1>5, Apart DEF QRcode_new, MInv, Owned, Starve, Fine
<1> QED
  BY <1>1, <1>2, <1>4, <1>6 DEF MInv

LEMMA ExitKeeps == ASSUME MInv, Exit PROVE MInv'
<1>1. Kinds'
  BY StreamSteps DEF Exit, MInv, Kinds, Block, BlockOf, RawNames, CodeNames, memory,
     streamVars, Fine, Starve, GiveUp, FreeObject
<1>2. Live'
  BY DEF Exit, MInv, Live, memory, streamVars, Fine, Starve, Failed, GiveUp, FreeObject,
     Structured, Micro, Block, OfSymbol, OfList, OfStream
<1>3. Blocks(codes)' = Blocks(codes)
  BY DEF Exit, Blocks, memory
<1>4. Earlier' /\ Fresh'
  BY <1>3, StreamSteps DEF Exit, MInv, Kinds, Live, Earlier, Fresh, Making, OfStream,
     Failed, memory, streamVars, Block, GiveUp, FreeObject
<1>5. Owned'
  BY <1>3, Apart DEF Exit, MInv, Owned, Live, memory, Fine, Starve, GiveUp, FreeObject,
     OfSymbol, OfList, OfStream
<1> QED
  BY <1>1, <1>2, <1>4, <1>5 DEF MInv

(* The list: an entry, and a symbol in it; all of it given up; or the one   *)
(* symbol for the caller.                                                   *)
LEMMA NewEntryKeeps == ASSUME MInv, version \in Int, NewEntry PROVE MInv'
<1>1. Kinds /\ pc = "entry" /\ Structured
  BY DEF NewEntry, MInv, Live, OfList
<1>2. CASE UNCHANGED codes
  <2>1. pc' \in {"free", "abort"} /\ UNCHANGED <<heap, encodes, objversion>>
    BY <1>1, <1>2 DEF NewEntry, Fine, Starve, Kinds
  <2>2. Blocks(codes)' = Blocks(codes)
    BY <1>2 DEF Blocks
  <2>3. Kinds'
    BY <1>1, <1>2, <2>1 DEF NewEntry, Kinds
  <2>4. Live'
    BY <1>1, <1>2, <2>1 DEF NewEntry, MInv, Live, Structured, OfSymbol, OfList, OfStream
  <2>5. Earlier' /\ Fresh'
    BY <1>1, <2>1, <2>2 DEF NewEntry, MInv, Earlier, Fresh, Making, OfStream
  <2>6. Owned'
    BY <2>1, <2>2 DEF NewEntry, MInv, Owned
  <2> QED
    BY <2>3, <2>4, <2>5, <2>6 DEF MInv
<1>3. CASE pc' = "raw" /\ codes' = Append(codes, [blocks |-> Block("entry"), version |-> 0])
             /\ heap' = heap \cup Block("entry") /\ objversion' = version
  <2>1. Blocks(codes)' = Blocks(codes) \cup Block("entry")
    BY <1>1, <1>3, NextSymbol DEF Kinds
  <2>2. [blocks |-> Block("entry"), version |-> 0] \in SymbolType
    BY <1>1 DEF Kinds, SymbolType, Block, BlockOf
  <2>3. codes' \in Seq(SymbolType) /\ codes' # <<>>
    BY <1>1, <1>3, <2>2 DEF Kinds
  <2>4. Kinds'
    BY <1>1, <1>3, <2>3 DEF NewEntry, Kinds
  <2>5. Live'
    BY <1>1, <1>3, <2>3 DEF NewEntry, MInv, Live, Structured, OfSymbol, OfList, OfStream
  <2>6. Earlier' /\ Fresh'
    <3>1. /\ pc \notin Making /\ pc' \notin Making /\ UNCHANGED <<encodes, masked, code>>
          /\ \A b \in Block("entry") : b[1] = "entry"
      BY <1>1, <1>3 DEF NewEntry, Making, OfStream, Block
    <3> QED
      BY <2>1, <3>1 DEF MInv, Earlier, Fresh
  <2>7. Owned'
    BY <1>1, <1>3, <2>1 DEF NewEntry, MInv, Owned
  <2> QED
    BY <2>4, <2>5, <2>6, <2>7 DEF MInv
<1> QED
  BY <1>1, <1>2, <1>3 DEF NewEntry

LEMMA AbortKeeps == ASSUME MInv, Abort PROVE MInv'
<1>1. pc = "abort" /\ codes' = <<>> /\ Blocks(codes)' = {}
  BY NoBlocks DEF Abort
<1>2. Kinds'
  BY <1>1 DEF Abort, MInv, Kinds, streamVars
<1>3. Live'
  BY <1>1 DEF Abort, MInv, Live, Structured, OfSymbol, OfList, OfStream
<1>4. Earlier' /\ Fresh'
  BY <1>1 DEF Abort, MInv, Earlier, Fresh, Making, OfStream, streamVars
<1>5. Owned'
  BY <1>1, Apart DEF Abort, MInv, Owned, Live, OfStream
<1> QED
  BY <1>2, <1>3, <1>4, <1>5 DEF MInv

LEMMA AddToListKeeps == ASSUME MInv, AddToList PROVE MInv'
<1>1. pc = "encoded" /\ codes \in Seq(SymbolType) /\ codes # <<>>
  BY DEF AddToList, MInv, Kinds, Live, OfSymbol, Structured
<1>2. Blocks(codes)' = Blocks(codes) \cup code
  <2>1. CASE code = {}
    BY <2>1 DEF AddToList, Blocks
  <2>2. CASE code # {}
    BY <1>1, <2>2, LastSymbol DEF AddToList
  <2> QED
    BY <2>1, <2>2
<1>3. codes' \in Seq(SymbolType) /\ codes' # <<>>
  <2>1. Len(codes) \in DOMAIN codes /\ codes[Len(codes)] \in SymbolType
    BY <1>1
  <2>2. [blocks |-> codes[Len(codes)].blocks \cup code, version |-> objversion] \in SymbolType
    BY <2>1 DEF MInv, Kinds, SymbolType, BlockOf, CodeNames
  <2>3. CASE code = {}
    BY <1>1, <2>3 DEF AddToList
  <2>4. CASE code # {}
    <3>1. codes' = [codes EXCEPT ![Len(codes)] =
                      [blocks |-> codes[Len(codes)].blocks \cup code, version |-> objversion]]
      BY <2>4 DEF AddToList
    <3> QED
      BY <1>1, <2>2, <3>1, LastReplaced
  <2> QED
    BY <2>3, <2>4
<1>4. Kinds'
  BY <1>3 DEF AddToList, MInv, Kinds, BlockOf, streamVars
<1>5. Live'
  BY <1>1, <1>3 DEF AddToList, MInv, Live, Structured, OfSymbol, OfList, OfStream
<1>6. Earlier' /\ Fresh'
  BY <1>1, <1>2 DEF AddToList, MInv, Earlier, Fresh, Making, OfStream, streamVars
<1>7. Owned'
  BY <1>2 DEF AddToList, MInv, Owned
<1> QED
  BY <1>4, <1>5, <1>6, <1>7 DEF MInv

LEMMA GiveToCallerKeeps == ASSUME MInv, GiveToCaller PROVE MInv'
<1>1. pc = "encoded" /\ ~Structured /\ codes = <<>> /\ Blocks(codes) = {} /\ Kinds /\ Live
  BY NoBlocks DEF GiveToCaller, MInv, Live
<1>2. Blocks(codes)' = code
  BY NoBlocks, OneSymbol DEF GiveToCaller
<1>3. codes' \in Seq(SymbolType)
  <2>1. [blocks |-> code, version |-> objversion] \in SymbolType
    BY <1>1 DEF Kinds, SymbolType, BlockOf, CodeNames
  <2>2. codes' \in {<<>>, <<[blocks |-> code, version |-> objversion]>>}
    BY DEF GiveToCaller
  <2> QED
    BY <2>1, <2>2, Singleton, EmptySeq
<1>4. Kinds'
  BY <1>1, <1>3 DEF GiveToCaller, FreeObject, Kinds, BlockOf, streamVars
<1>5. Live'
  BY <1>1 DEF GiveToCaller, FreeObject, Live, Structured, OfSymbol, OfList, OfStream
<1>6. Earlier' /\ Fresh'
  BY <1>1, <1>2 DEF GiveToCaller, MInv, Earlier, Fresh, Making, OfStream, streamVars
<1>7. Owned'
  BY <1>1, <1>2, Apart DEF GiveToCaller, FreeObject, MInv, Owned
<1> QED
  BY <1>4, <1>5, <1>6, <1>7 DEF MInv
-----------------------------------------------------------------------------
(* The call does not change.                                                *)
Called == \E c \in Calls : call = c.kind /\ input = c.input /\ version = c.version /\ level = c.level

LEMMA CallKept == ASSUME [CallNext]_callVars PROVE UNCHANGED <<call, input, version, level>>
<1>1. ASSUME Step \/ OutOfMemory PROVE UNCHANGED <<input, version, level>>
  BY <1>1 DEF Step, Begin, PlaceWhole, SplitEntry, MoveEntry, Finish, OutOfMemory
<1>2. CASE Split
  BY <1>1, <1>2 DEF Split
<1>3. CASE CallNext /\ ~Split
  BY <1>3 DEF CallNext, NewObject, AppendText, NextVersion, SplitReturns, NewEntry, Abort,
     FreeInputs, NewRaw, GetByteStream, GetByteStreamReturns, NewEcccode, NewRsblock, NewFrame,
     FillFrame, MaskFrame, QRcode_new, Exit, AddToList, GiveToCaller, splitVars, vars
<1>4. CASE UNCHANGED callVars
  BY <1>4 DEF callVars, vars
<1> QED
  BY <1>2, <1>3, <1>4

LEMMA CallInvariance == CallSpec => []Called
<1>1. CallInit => Called
  BY DEF CallInit, Called
<1>2. ASSUME Called, [CallNext]_callVars PROVE Called'
  BY <1>2, CallKept DEF Called
<1> QED
  BY <1>1, <1>2, PTL DEF CallSpec

LEMMA StutterKeeps == ASSUME MInv, UNCHANGED callVars PROVE MInv'
<1>1. Blocks(codes)' = Blocks(codes)
  BY DEF callVars, memory, Blocks
<1> QED
  BY <1>1 DEF callVars, vars, memory, streamVars, MInv, Kinds, Live, Structured, Earlier,
     Fresh, Owned

LEMMA MInvInductive == ASSUME Called, MInv, [CallNext]_callVars PROVE MInv'
<1>1. version \in Int
  <2>1. PICK c \in Calls : version = c.version
    BY DEF Called
  <2>2. c.version \in Nat
    BY CallsAssumption
  <2> QED
    BY <2>1, <2>2
<1> QED
  BY <1>1, NewObjectKeeps, AppendTextKeeps, NextVersionKeeps, SplitKeeps, SplitReturnsKeeps,
     NewEntryKeeps, AbortKeeps, FreeInputsKeeps, NewRawKeeps, GetByteStreamKeeps,
     GetByteStreamReturnsKeeps, NewEcccodeKeeps, NewRsblockKeeps, NewFrameKeeps, FillFrameKeeps,
     MaskFrameKeeps, QRcode_newKeeps, ExitKeeps, AddToListKeeps, GiveToCallerKeeps, StutterKeeps
  DEF CallNext

(* Whichever allocations fail, every live block is reached by exactly the   *)
(* variables of the code that own it, and a call that has returned leaves   *)
(* nothing but its symbols.                                                 *)
THEOREM MemoryOwned == CallSpec => []BlocksOwned
<1>1. MInv => BlocksOwned
  BY DEF MInv, Owned, Live, BlocksOwned, OfStream, OfSymbol, OfList
<1> QED
  BY <1>1, InitMInv, MInvInductive, CallInvariance, PTL DEF CallSpec
-----------------------------------------------------------------------------
(* The split, as above: within a call nothing else touches its variables.   *)
Errnos    == {"none", "ENOMEM", "ERANGE", "EINVAL"}
Untouched == /\ chunk = 1 /\ offset = 0 /\ placed = <<>> /\ symbols = 0 /\ bits = 0
             /\ status = "called" /\ errno \in Errnos

SInv ==
  /\ IF Structured /\ version > 0 THEN IInv ELSE Untouched
  /\ pc \in {"append", "split"} /\ Structured => version > 0
  /\ pc = "stream" => phase \in {"estimate", "convert", "pad", "done", "ENOMEM", "ERANGE"}

LEMMA InitSInv == CallInit => SInv
<1> SUFFICES ASSUME CallInit PROVE SInv
  OBVIOUS
<1>1. Untouched
  BY DEF CallInit, Untouched, Errnos
<1>2. ASSUME Structured, version > 0 PROVE Init
  <2>1. PICK c \in Calls : call = c.kind /\ input = c.input /\ version = c.version /\ level = c.level
    BY DEF CallInit
  <2>2. input \in Inputs /\ <<version, level>> \in Specs
    BY <1>2, <2>1, CallsAssumption DEF Structured
  <2>3. \E s \in Specs : version = s[1] /\ level = s[2]
    BY <2>2
  <2> QED
    BY <2>2, <2>3 DEF CallInit, Init
<1> QED
  BY <1>1, <1>2, InitHolds DEF SInv, CallInit

\* Only the errno of the invariant can change outside the split.
LEMMA OutsideSplit ==
  ASSUME IInv, UNCHANGED splitVars, errno' \in Errnos
  PROVE  IInv'
<1> USE DEF splitVars
<1>1. Pieces'
  BY PiecesKept
<1>2. Place' /\ Chained'
  BY DEF IInv, Place, WholeUnits, Chained, Follows, Last
<1>3. Counted' /\ Filled'
  BY DEF IInv, Counted, Filled, Active, CurrentEmpty, Last, MaxBits
<1>4. Outcome'
  BY DEF IInv, Outcome, Errnos
<1>5. Snug'
  BY SnugKept
<1> QED
  BY <1>1, <1>2, <1>3, <1>4, <1>5 DEF IInv

LEMMA SInvInductive == ASSUME MInv, SInv, [CallNext]_callVars PROVE SInv'
<1>1. UNCHANGED <<call, version>>
  BY CallKept
<1>2. (pc = "stream" => phase \in {"estimate", "convert", "pad", "done", "ENOMEM", "ERANGE"})'
  BY DEF SInv, CallNext, NewObject, AppendText, NextVersion, SplitReturns, NewEntry,
     Abort, Split,
     FreeInputs, NewRaw, GetByteStream, GetByteStreamReturns, NewEcccode, NewRsblock, NewFrame,
     FillFrame, MaskFrame, QRcode_new, Exit, AddToList, GiveToCaller, GiveUp, Failed, callVars,
     streamVars, Stream!GetByteStream, Stream!Encode, Stream!Estimate, Stream!Convert,
     Stream!ConvertMQR, Stream!Pad, Stream!OutOfMemory
<1>3. (pc \in {"append", "split"} /\ Structured => version > 0)'
  BY <1>1 DEF SInv, Structured, Micro, Valid, CallNext, NewObject, AppendText,
     NextVersion, SplitReturns,
     NewEntry, Abort, Split, FreeInputs, NewRaw, GetByteStream, GetByteStreamReturns, NewEcccode,
     NewRsblock, NewFrame, FillFrame, MaskFrame, QRcode_new, Exit, AddToList, GiveToCaller, GiveUp,
     Failed, callVars, streamVars
<1>4. CASE Split
  <2>1. Structured /\ version > 0 /\ IInv
    BY <1>4 DEF Split, MInv, Live, SInv
  <2>2. [Next]_vars
    BY <1>4 DEF Split, Next
  <2>3. IInv'
    BY <2>1, <2>2, Inductive
  <2> QED
    BY <1>1, <1>2, <1>3, <2>1, <2>3 DEF SInv, Structured
<1>5. CASE ~Split
  <2>1. UNCHANGED splitVars
    BY <1>5 DEF CallNext, NewObject, AppendText, NextVersion, SplitReturns, NewEntry, Abort,
       FreeInputs, NewRaw, GetByteStream, GetByteStreamReturns, NewEcccode, NewRsblock, NewFrame,
       FillFrame, MaskFrame, QRcode_new, Exit, AddToList, GiveToCaller, callVars, vars, splitVars
  <2>2. errno' \in Errnos \cup {errno}
    BY <1>5 DEF SInv, CallNext, NewObject, AppendText, NextVersion, SplitReturns,
       NewEntry, Abort,
       FreeInputs, NewRaw, GetByteStream, GetByteStreamReturns, NewEcccode, NewRsblock, NewFrame,
       FillFrame, MaskFrame, QRcode_new, Exit, AddToList, GiveToCaller, callVars, vars, Fine,
       Starve, Errnos, Stream!Finished
  <2>3. errno \in Errnos
    BY DEF SInv, Untouched, IInv, Outcome, Errnos
  <2>4. IInv => IInv'
    BY <2>1, <2>2, <2>3, OutsideSplit
  <2>5. Untouched => Untouched'
    BY <2>1, <2>2 DEF Untouched, splitVars
  <2> QED
    BY <1>1, <1>2, <1>3, <2>4, <2>5 DEF SInv, Structured
<1> QED
  BY <1>4, <1>5

(* Within any call, whatever fails in it, the split keeps what IInv says of *)
(* it alone: no data is lost, cut inside a character or put in a symbol     *)
(* that has no room for it and its header, and no room of a symbol is       *)
(* wasted.                                                                  *)
THEOREM SplitsWell ==
  CallSpec => [](TypeOK /\ DataInOrder /\ SymbolsFit /\ SymbolsNotEmpty /\ KanjiWhole /\ NoRoomWasted)
<1>1. ASSUME Called, Untouched
      PROVE  TypeOK /\ DataInOrder /\ SymbolsFit /\ SymbolsNotEmpty /\ KanjiWhole /\ NoRoomWasted
  <2>1. PICK c \in Calls : input = c.input
    BY <1>1 DEF Called
  <2>2. c.input \in Seq([mode : STRING, size : Nat, eci : Nat])
    BY CallsAssumption
  <2>3. Len(input) \in Nat
    BY <2>1, <2>2
  <2> QED
    BY <1>1, <2>3 DEF Untouched, Errnos, TypeOK, DataInOrder, SymbolsFit,
       SymbolsNotEmpty, KanjiWhole,
       NoRoomWasted
<1>2. Called /\ SInv => TypeOK /\ DataInOrder /\ SymbolsFit /\ SymbolsNotEmpty /\ KanjiWhole /\ NoRoomWasted
  BY <1>1, Sound DEF SInv
<1> QED
  BY <1>2, InitMInv, MInvInductive, InitSInv, SInvInductive, CallInvariance, PTL
     DEF CallSpec
-----------------------------------------------------------------------------
(* The search for a Micro QR version: no version below the present one      *)
(* takes the text, and the present one does once its stream is padded.      *)
Streamed == OfSymbol \ {"stream", "encoded"}
Least    == \A v \in Taking : objversion <= v

Tried ==
  /\ objversion \in Nat /\ version \in Nat /\ version <= objversion
  /\ pc \in {"append", "raw"} \cup OfSymbol => Stream!ValidMQR(objversion, level)
  /\ pc \in {"raw"} \cup OfSymbol => source = <<"MQR", input>> /\ input # <<>>
Encoding ==
  pc = "stream" =>
    /\ phase \in {"convert", "pad", "done", "ENOMEM", "ERANGE"}
    /\ phase = "pad" => Encodable(source, objversion) /\ streamBits = EncodedList(source, objversion)
    /\ phase = "done" => objversion \in Taking
    /\ phase = "ENOMEM" => starved = TRUE
    /\ phase = "ERANGE" => objversion \notin Taking
Taken ==
  /\ pc \in Streamed \/ code # {} => objversion \in Taking
  /\ pc = "returned" /\ codes # <<>> => objversion \in Taking /\ codes[1].version = objversion
PassedOver ==
  starved # TRUE =>
    /\ pc = "next" \/ (pc = "encoded" /\ code = {}) => objversion \notin Taking
    /\ pc = "exit" => code # {}
    /\ IF pc = "returned" /\ codes = <<>> THEN Taking = {} ELSE Least

MicroInv == Micro => Tried /\ Encoding /\ Taken /\ PassedOver

LEMMA InitMicro == CallInit => MicroInv
<1> SUFFICES ASSUME CallInit, Micro PROVE Tried /\ Encoding /\ Taken /\ PassedOver
  BY DEF MicroInv
<1>1. PICK c \in Calls : /\ call = c.kind /\ version = c.version
                         /\ objversion = IF c.kind = "micro" /\ c.version = 0 THEN 1 ELSE c.version
  BY DEF CallInit
<1>2. c.version \in Nat
  BY CallsAssumption
<1>3. version \in Nat /\ objversion = IF version = 0 THEN 1 ELSE version
  BY <1>1, <1>2 DEF Micro
<1>4. Least
  BY <1>3 DEF Least, Taking
<1> QED
  BY <1>3, <1>4 DEF CallInit, Tried, Encoding, Taken, PassedOver, Streamed, OfSymbol,
     OfStream

\* The object is one of the Micro QR inputs, and what the model assumes of it.
LEMMA MicroObject ==
  ASSUME Called, Micro, Tried, pc \in {"raw"} \cup OfSymbol
  PROVE  /\ Stream!mqr /\ objversion \in 1..MVMax /\ DataLengthBit(objversion, level) \in Nat
         /\ Encodable(source, objversion) => EncodedList(source, objversion) \in Nat
<1>1. PICK c \in Calls : c.kind = "micro" /\ input = c.input /\ level = c.level
  BY DEF Called, Micro
<1>2. source = <<"MQR", c.input>> /\ objversion \in 1..MVMax
  BY <1>1 DEF Tried, Stream!ValidMQR
<1>3. Stream!mqr
  BY <1>1, <1>2 DEF Stream!mqr, MicroInputs
<1>4. EncodedList(source, objversion) \in Nat
  <2> DEFINE sizes == [i \in 1..Len(c.input) |-> EncodedMQR(c.input[i], objversion)]
  <2>1. Len(c.input) \in Nat /\ \A i \in 1..Len(c.input) : EncodedMQR(c.input[i], objversion) \in Nat
    BY <1>1, <1>2, CallsAssumption, LenProperties
  <2>2. sizes \in Seq(Nat)
    BY <2>1
  <2>3. EncodedList(source, objversion) = Total(sizes)
    BY <1>2 DEF EncodedList
  <2> QED
    BY <2>2, <2>3, TotalNat
<1> QED
  BY <1>1, <1>2, <1>3, <1>4, CallsAssumption

LEMMA MicroCalls ==
  ASSUME Called, MInv, MicroInv, Micro, CallNext
  PROVE  \/ NewObject \/ AppendText \/ NextVersion \/ NewRaw \/ GetByteStream
         \/ GetByteStreamReturns \/ NewEcccode \/ NewRsblock \/ NewFrame \/ FillFrame
         \/ MaskFrame \/ QRcode_new \/ Exit \/ GiveToCaller
<1>1. ~Structured /\ pc \notin {"split"} \cup OfList
  BY DEF Micro, Structured, MInv, Live
<1> QED
  BY <1>1 DEF CallNext, Split, SplitReturns, NewEntry, Abort, FreeInputs, AddToList, OfList

LEMMA MicroInductive ==
  ASSUME Called, MInv, MicroInv, [CallNext]_callVars PROVE MicroInv'
<1>1. UNCHANGED <<call, input, version, level>> /\ Taking' = Taking
  BY CallKept DEF Taking, Stream!ValidMQR
<1> SUFFICES ASSUME Micro PROVE (Tried /\ Encoding /\ Taken /\ PassedOver)'
  BY <1>1 DEF MicroInv, Micro
<1> USE DEF OfSymbol, OfStream, Streamed
<1>2. Tried /\ Encoding /\ Taken /\ PassedOver /\ Live /\ ~Structured /\ Failed = "next"
  BY DEF MicroInv, MInv, Micro, Structured, Failed
<1>3. CASE NewObject
  <2>1. /\ pc = "call" /\ code = {} /\ codes = <<>>
        /\ UNCHANGED <<source, code, codes, objversion, phase, streamBits>>
    BY <1>2, <1>3 DEF NewObject, Live, streamVars
  <2>2. \/ ~(objversion <= MVMax) /\ pc' = "returned" /\ starved' = starved
        \/ ~Stream!ValidMQR(objversion, level) /\ pc' = "next" /\ starved' = starved
        \/ starved' = TRUE /\ pc' = "next"
        \/ Stream!ValidMQR(objversion, level) /\ pc' = "append" /\ starved' = starved
    BY <1>2, <1>3 DEF NewObject, VersionsLeft, Valid, Starve, Fine
  <2>3. ASSUME ~(objversion <= MVMax), Least PROVE Taking = {}
    <3>1. ASSUME NEW v \in Taking PROVE FALSE
      <4>1. v \in 1..MVMax /\ objversion <= v /\ objversion \in Nat /\ MVMax \in Nat
        BY <1>2, <2>3, <3>1, CallsAssumption DEF Tried, Least, Taking
      <4> QED
        BY <2>3, <4>1
    <3> QED
      BY <3>1
  <2>4. ~Stream!ValidMQR(objversion, level) => objversion \notin Taking
    BY DEF Taking
  <2>5. Tried'
    BY <1>1, <1>2, <2>1, <2>2 DEF Tried
  <2> QED
    BY <1>1, <1>2, <2>1, <2>2, <2>3, <2>4, <2>5 DEF Encoding, Taken, PassedOver, Least
<1>4. CASE AppendText
  BY <1>1, <1>2, <1>4 DEF AppendText, Fine, Starve, Micro, Tried, Encoding,
     Taken, PassedOver, Least, Live, streamVars, Taking
<1>5. CASE NextVersion
  <2>1. /\ pc = "next" /\ pc' = "call" /\ objversion' = objversion + 1
        /\ UNCHANGED <<starved, code, codes, source, phase, streamBits>>
    BY <1>5 DEF NextVersion, memory
  <2>2. ASSUME starved # TRUE, NEW v \in Taking PROVE objversion + 1 <= v
    <3>1. v \in Int /\ objversion \in Int /\ objversion <= v /\ v # objversion
      BY <1>2, <2>1, <2>2 DEF Tried, PassedOver, Least, Taking
    <3> QED
      BY <3>1
  <2>3. Tried'
    BY <1>1, <1>2, <2>1 DEF Tried
  <2> QED
    BY <1>1, <1>2, <2>1, <2>2, <2>3 DEF Encoding, Taken, PassedOver, Least, Live
<1>6. CASE NewRaw
  <2>1. /\ pc = "raw" /\ code = {} /\ codes = <<>> /\ UNCHANGED <<source, code, codes, objversion>>
        /\ \/ starved' = TRUE /\ pc' = "encoded"
           \/ starved' = starved /\ pc' = "stream" /\ phase' = "convert"
    BY <1>2, <1>6, MicroObject DEF NewRaw, Fine, Starve, Live, streamVars,
       Stream!GetByteStream
  <2>2. Tried'
    BY <1>1, <1>2, <2>1 DEF Tried
  <2> QED
    BY <1>1, <1>2, <2>1, <2>2 DEF Encoding, Taken, PassedOver, Least
<1>7. CASE GetByteStream
  <2>1. /\ pc = "stream" /\ pc' = pc /\ code = {} /\ codes = <<>>
        /\ UNCHANGED <<source, code, codes>>
    BY <1>2, <1>7 DEF GetByteStream, Live, memory
  <2>2. /\ Stream!mqr /\ objversion \in 1..MVMax /\ source = <<"MQR", input>> /\ input # <<>>
        /\ DataLengthBit(objversion, level) \in Nat /\ Stream!ValidMQR(objversion, level)
        /\ Encodable(source, objversion) => EncodedList(source, objversion) \in Nat
        /\ objversion \in Taking <=> /\ Encodable(source, objversion)
                                     /\ EncodedList(source, objversion) <= DataLengthBit(objversion, level)
    BY <1>2, <2>1, MicroObject DEF Tried, Taking
  <2>3. CASE Stream!OutOfMemory /\ Starve
    BY <1>1, <1>2, <2>1, <2>3 DEF Stream!OutOfMemory, Starve, Tried, Encoding, Taken,
       PassedOver
  <2>4. CASE Stream!ConvertMQR /\ Fine
    <3>1. UNCHANGED <<objversion, starved>>
          /\ IF Encodable(source, objversion)
               THEN streamBits' = EncodedList(source, objversion) /\ phase' = "pad"
               ELSE phase' = "ERANGE"
      BY <2>4 DEF Stream!ConvertMQR, Fine
    <3> QED
      BY <1>1, <1>2, <2>1, <2>2, <3>1 DEF Tried, Encoding, Taken, PassedOver, Least
  <2>5. CASE Stream!Pad /\ Fine
    <3>1. /\ UNCHANGED <<objversion, starved>> /\ phase = "pad"
          /\ IF DataLengthBit(objversion, level) < streamBits THEN phase' = "ERANGE" ELSE phase' = "done"
      BY <2>2, <2>5 DEF Stream!Pad, Stream!Capacity, Fine
    <3>2. streamBits = EncodedList(source, objversion) /\ Encodable(source, objversion)
      BY <1>2, <2>1, <3>1 DEF Encoding
    <3>3. phase' = "done" => objversion \in Taking
      BY <2>2, <3>1, <3>2
    <3>4. phase' = "ERANGE" => objversion \notin Taking
      BY <2>2, <3>1, <3>2
    <3> QED
      BY <1>1, <1>2, <2>1, <3>1, <3>3, <3>4 DEF Tried, Encoding, Taken, PassedOver, Least
  <2> QED
    BY <1>2, <1>7, <2>1, <2>2, <2>3, <2>4, <2>5 DEF GetByteStream, Stream!Encode,
       Stream!Estimate,
       Stream!Convert, Encoding
<1>8. CASE GetByteStreamReturns
  <2>1. /\ pc = "stream" /\ code = {} /\ codes = <<>>
        /\ UNCHANGED <<source, code, codes, objversion, starved>>
        /\ \/ phase = "done" /\ pc' = "ecccode"
           \/ phase \in {"ENOMEM", "ERANGE"} /\ pc' = "encoded"
    BY <1>2, <1>8 DEF GetByteStreamReturns, GiveUp, Live, Encoding, Stream!Finished,
       streamVars
  <2>2. Tried'
    BY <1>1, <1>2, <2>1 DEF Tried
  <2> QED
    BY <1>1, <1>2, <2>1, <2>2 DEF Encoding, Taken, PassedOver, Least
<1>9. CASE NewEcccode \/ NewRsblock \/ NewFrame \/ FillFrame \/ MaskFrame \/ QRcode_new \/ Exit
  BY <1>1, <1>2, <1>9 DEF NewEcccode, NewRsblock, NewFrame, FillFrame, MaskFrame,
     QRcode_new, Exit,
     GiveUp, Fine, Starve, Block, Tried, Encoding, Taken, PassedOver, Least, Live, streamVars
<1>10. CASE GiveToCaller
  BY <1>1, <1>2, <1>10 DEF GiveToCaller, FreeObject, Micro, Tried, Encoding, Taken,
     PassedOver,
     Least, Live, streamVars
<1>11. CASE UNCHANGED callVars
  BY <1>1, <1>2, <1>11 DEF callVars, memory, streamVars, Tried, Encoding, Taken,
     PassedOver, Least
<1> QED
  BY <1>3, <1>4, <1>5, <1>6, <1>7, <1>8, <1>9, <1>10, <1>11, MicroCalls DEF MicroInv

(* A text gets the Micro QR symbol of the least version that takes it, and  *)
(* is refused only if none does, unless memory was short: what the loops of *)
(* QRcode_encodeStringMQR and QRcode_encodeDataMQR stop at is what padding  *)
(* refuses.                                                                 *)
THEOREM FindsSmallest == CallSpec => []MicroSmallest
<1>1. MicroInv => MicroSmallest
  <2> SUFFICES ASSUME MicroInv, pc = "returned", Micro, ~starved
               PROVE  IF codes = <<>> THEN Taking = {}
                      ELSE codes[1].version \in Taking /\ \A v \in Taking : codes[1].version <= v
    BY DEF MicroSmallest
  <2>1. Taken /\ PassedOver /\ starved # TRUE
    BY DEF MicroInv
  <2> QED
    BY <2>1 DEF Taken, PassedOver, Least
<1> QED
  BY <1>1, InitMicro, MicroInductive, InitMInv, MInvInductive, CallInvariance, PTL
     DEF CallSpec
-----------------------------------------------------------------------------
(* The list of symbols.  The pieces of a symbol lie together, and the split *)
(* has summed up their bits.                                                *)
PieceOf(i)   == Sized(input[placed[i].chunk], placed[i].hi - placed[i].lo)
PieceBits(i) == Encoded(PieceOf(i), version)

Sorted == \A i, j \in 1..Len(placed) : i <= j => placed[i].symbol <= placed[j].symbol
Summed ==
  \A i \in 1..Len(placed) :
    /\ placed[i].symbol >= 1 /\ placed[i].hi <= input[placed[i].chunk].size
    /\ PieceBits(i) \in Nat
    /\ placed[i].upto = PieceBits(i) + IF i > 1 /\ placed[i - 1].symbol = placed[i].symbol
                                         THEN placed[i - 1].upto ELSE 0
Tallied == Sorted /\ Summed /\ (status \in {"splitting", "done"} => MaxBits > 0)

LEMMA PlacingTallies ==
  ASSUME IInv, Tallied, Splitting, NEW b \in Nat, NEW n \in Nat,
         0 < b, b <= input[chunk].size - offset, WholeUnits(input[chunk], b),
         bits + n <= MaxBits, placed' = Append(placed, Piece(b, n)),
         n = Encoded(Sized(input[chunk], b), version),
         symbols' \in {symbols, symbols + 1}, UNCHANGED <<input, version, level>>
  PROVE  Sorted' /\ Summed'
<1>1. /\ Len(placed') = Len(placed) + 1 /\ \A i \in 1..Len(placed) : placed'[i] = placed[i]
      /\ Last'.chunk = chunk /\ Last'.lo = offset /\ Last'.hi = offset + b
      /\ Last'.symbol = symbols + 1 /\ Last'.upto = bits + n
  BY Placing
<1>2. /\ Len(placed) \in Nat /\ symbols \in Nat /\ bits \in Nat /\ offset \in Nat
      /\ bits = IF CurrentEmpty THEN 0 ELSE Last.upto
      /\ \A i \in 1..Len(placed) : placed[i].symbol \in Nat /\ placed[i].symbol <= symbols + 1
  <2>1. placed \in Seq(PieceType)
    BY DEF IInv, Pieces
  <2>2. \A i \in 1..Len(placed) : placed[i].symbol \in Nat
    <3>1. \A i \in 1..Len(placed) : placed[i] \in PieceType
      BY <2>1, ElementOfSeq
    <3> QED
      BY <3>1 DEF PieceType
  <2> QED
    BY <2>1, <2>2, LenProperties DEF IInv, Pieces, Place, Counted, Active, Splitting
<1>3. input[chunk].size \in Nat
  BY AtChunk DEF IInv, Splitting
<1>4. PICK last \in Nat : last = Len(placed) + 1
  BY <1>2
<1>5. Sorted'
  <2>1. ASSUME NEW i \in 1..last, NEW j \in 1..last, i <= j
        PROVE  placed'[i].symbol <= placed'[j].symbol
    <3>1. CASE j = last
      <4>1. placed'[j].symbol = symbols + 1
        BY <1>1, <1>4, <3>1 DEF Last
      <4>2. i = last \/ (i \in 1..Len(placed) /\ placed'[i].symbol <= symbols + 1)
        BY <1>1, <1>2, <1>4
      <4>3. i = last => placed'[i].symbol = symbols + 1
        BY <3>1, <4>1
      <4>4. symbols + 1 <= symbols + 1
        BY <1>2
      <4> QED
        BY <4>1, <4>2, <4>3, <4>4
    <3>2. CASE j # last
      <4>1. i \in 1..Len(placed) /\ j \in 1..Len(placed)
        BY <1>2, <1>4, <2>1, <3>2
      <4> QED
        BY <1>1, <2>1, <4>1 DEF Tallied, Sorted
    <3> QED
      BY <3>1, <3>2
  <2> QED
    BY <1>1, <1>4, <2>1 DEF Sorted
<1>6. ASSUME NEW i \in 1..last
      PROVE  /\ placed'[i].symbol >= 1 /\ placed'[i].hi <= input[placed'[i].chunk].size
             /\ PieceBits(i)' \in Nat
             /\ placed'[i].upto = PieceBits(i)' + IF i > 1 /\ placed'[i - 1].symbol = placed'[i].symbol
                                                   THEN placed'[i - 1].upto ELSE 0
  <2>1. CASE i = last
    <3>1. placed'[i] = Last'
      BY <1>1, <1>4, <2>1 DEF Last
    <3>2. PieceBits(i)' = n
      <4>1. (offset + b) - offset = b
        BY <1>2
      <4> QED
        BY <1>1, <3>1, <4>1 DEF PieceBits, PieceOf
    <3>3. bits = IF i > 1 /\ placed'[i - 1].symbol = symbols + 1 THEN placed'[i - 1].upto ELSE 0
      <4>1. CASE i = 1
        <5>1. placed = <<>>
          BY <1>2, <1>4, <2>1, <4>1, EmptySeq DEF IInv, Pieces
        <5> QED
          BY <1>2, <4>1, <5>1 DEF CurrentEmpty
      <4>2. CASE i # 1
        <5>1. i > 1 /\ i - 1 = Len(placed) /\ i - 1 \in 1..Len(placed) /\ placed # <<>>
          BY <1>2, <1>4, <2>1, <4>2, EmptySeq
        <5>2. placed'[i - 1] = Last /\ Last.symbol \in Nat /\ Last.symbol <= symbols + 1
          BY <1>1, <1>2, <5>1 DEF Last
        <5>3. CurrentEmpty <=> Last.symbol <= symbols
          BY <5>1 DEF CurrentEmpty, Last
        <5> QED
          BY <1>2, <5>1, <5>2, <5>3
      <4> QED
        BY <4>1, <4>2
    <3>4. /\ placed'[i].symbol = symbols + 1 /\ placed'[i].hi = offset + b
          /\ placed'[i].chunk = chunk /\ placed'[i].upto = bits + n
      BY <1>1, <3>1
    <3>5. placed'[i].symbol >= 1 /\ placed'[i].hi <= input[placed'[i].chunk].size
      <4>1. symbols + 1 >= 1 /\ offset + b <= input[chunk].size
        BY <1>2, <1>3
      <4> QED
        BY <3>4, <4>1
    <3>6. bits + n = n + bits /\ n \in Nat
      BY <1>2
    <3>7. bits = IF i > 1 /\ placed'[i - 1].symbol = placed'[i].symbol THEN placed'[i - 1].upto ELSE 0
      BY <3>3, <3>4
    <3> QED
      BY <3>2, <3>4, <3>5, <3>6, <3>7
  <2>2. CASE i # last
    <3>1. i \in 1..Len(placed) /\ placed'[i] = placed[i] /\ (i > 1 => placed'[i - 1] = placed[i - 1])
      BY <1>1, <1>2, <1>4, <2>2
    <3>2. PieceBits(i)' = PieceBits(i)
      BY <3>1 DEF PieceBits, PieceOf
    <3> QED
      BY <3>1, <3>2 DEF Tallied, Summed
  <2> QED
    BY <2>1, <2>2
<1>7. Summed'
  BY <1>1, <1>4, <1>6 DEF Summed
<1> QED
  BY <1>5, <1>7

LEMMA TalliedKept == ASSUME IInv, Tallied, [Next]_vars PROVE Tallied'
<1>1. CASE PlaceWhole
  <2> DEFINE b == Remaining.size  n == Encoded(Remaining, version)
  <2>1. status = "splitting" /\ chunk <= Len(input) /\ Fits /\ Splitting
    BY <1>1 DEF PlaceWhole, Splitting
  <2>2. UNCHANGED <<input, version, level, symbols, status>> /\ placed' = Append(placed, Piece(b, n))
    BY <1>1 DEF PlaceWhole
  <2>3. n \in Nat /\ bits + n <= MaxBits
    BY <2>1, WholeFits DEF IInv
  <2>4. /\ b \in Nat /\ 0 < b /\ b = input[chunk].size - offset /\ WholeUnits(input[chunk], b)
    BY <2>1, AtChunk DEF IInv
  <2>5. n = Encoded(Sized(input[chunk], b), version)
    BY <2>4 DEF Remaining
  <2> HIDE DEF b, n
  <2>6. b <= input[chunk].size - offset
    BY <2>4
  <2>7. Sorted' /\ Summed'
    BY <2>1, <2>2, <2>3, <2>4, <2>5, <2>6, PlacingTallies
  <2> QED
    BY <2>2, <2>7 DEF Tallied, MaxBits
<1>2. CASE SplitEntry /\ Cut < Remaining.size
  <2> DEFINE n == Encoded(CutOff, version)
  <2>1. /\ status = "splitting" /\ chunk <= Len(input) /\ Splitting /\ Cut > 0
        /\ UNCHANGED <<input, version, level, status>> /\ symbols' = symbols + 1
        /\ placed' = Append(placed, Piece(Cut, n))
    BY <1>2 DEF SplitEntry, Splitting
  <2>2. Cut \in Nat /\ WholeUnits(input[chunk], Cut) /\ n \in Nat /\ bits + n <= MaxBits
    BY <1>2, <2>1, CutFits DEF IInv
  <2>3. Cut < input[chunk].size - offset /\ input[chunk].size \in Nat
    BY <1>2, <2>1, AtChunk DEF IInv
  <2>4. n = Encoded(Sized(input[chunk], Cut), version)
    BY DEF CutOff
  <2> HIDE DEF n
  <2>5. Cut <= input[chunk].size - offset /\ 0 < Cut
    BY <2>1, <2>2, <2>3 DEF IInv, Place
  <2>6. Sorted' /\ Summed'
    BY <2>1, <2>2, <2>4, <2>5, PlacingTallies
  <2> QED
    BY <2>1, <2>6 DEF Tallied, MaxBits
<1>3. CASE UNCHANGED <<input, version, level, placed>> /\
           (status' = status \/ (status' \in {"splitting", "done"} => status \in {"splitting", "done"} \/ MaxBits > 0))
  <2>1. \A i : PieceBits(i)' = PieceBits(i)
    BY <1>3 DEF PieceBits, PieceOf
  <2> QED
    BY <1>3, <2>1 DEF Tallied, Sorted, Summed, MaxBits
<1>4. CASE Begin
  <2>1. DataLength(version, level) * 8 - HeaderSize \in Int
    BY InputsAssumption DEF IInv, Place
  <2> QED
    BY <1>3, <1>4, <2>1 DEF Begin, MaxBits
<1>5. CASE SplitEntry /\ ~(Cut < Remaining.size)
  BY <1>3, <1>5 DEF SplitEntry
<1>6. CASE MoveEntry \/ Finish \/ OutOfMemory \/ UNCHANGED vars
  BY <1>3, <1>6 DEF MoveEntry, Finish, OutOfMemory, Splitting, vars
<1> QED
  BY <1>1, <1>2, <1>4, <1>5, <1>6 DEF Next, Step

(* The pieces of the k-th symbol lie behind those of the symbols before it. *)
Boundary(k, i) == i \in 0..Len(placed) /\ \A j \in 1..Len(placed) : placed[j].symbol <= k <=> j <= i

LEMMA BehindIs ==
  ASSUME IInv, Sorted, NEW k \in Nat
  PROVE  Boundary(k, Behind(k))
<1>1. PICK m \in Nat : m = Len(placed)
  BY LenProperties DEF IInv, Pieces
<1>2. ASSUME NEW i \in 1..m PROVE placed[i].symbol \in Nat
  <2>1. placed[i] \in PieceType
    BY <1>1, ElementOfSeq DEF IInv, Pieces
  <2> QED
    BY <2>1 DEF PieceType
<1> DEFINE S == {i \in 0..m : \A j \in 1..m : j > i => placed[j].symbol > k}
<1>3. S \subseteq Nat /\ m \in S
  BY <1>1
<1> HIDE DEF S
<1>4. PICK i \in S : \A v \in S : i <= v
  BY <1>3, LeastElement
<1> USE DEF S
<1>5. i \in 0..m /\ \A j \in 1..m : j > i => placed[j].symbol > k
  BY <1>4
<1>6. ASSUME i > 0 PROVE placed[i].symbol <= k
  <2> SUFFICES ASSUME placed[i].symbol > k PROVE FALSE
    BY <1>2, <1>5, <1>6
  <2>1. i - 1 \in 0..m /\ i \in 1..m
    BY <1>5, <1>6
  <2>2. \A j \in 1..m : j > i - 1 => placed[j].symbol > k
    BY <1>5, <2>1
  <2>3. i - 1 \in S
    BY <2>1, <2>2
  <2> QED
    BY <1>4, <1>5, <2>3
<1>7. ASSUME NEW j \in 1..m PROVE placed[j].symbol <= k <=> j <= i
  <2>1. CASE j > i
    BY <1>2, <1>5, <2>1
  <2>2. CASE j <= i
    <3>1. i > 0 /\ i \in 1..m
      BY <1>5, <2>2
    <3>2. placed[j].symbol <= placed[i].symbol
      BY <1>1, <2>2, <3>1 DEF Sorted
    <3> QED
      BY <1>2, <1>6, <2>2, <3>1, <3>2
  <2> QED
    BY <1>5, <2>1, <2>2
<1> QED
  BY <1>1, <1>5, <1>7 DEF Behind, Boundary

(* What the k-th symbol holds.                                              *)
LEMMA PiecesOfSymbol ==
  ASSUME IInv, Sorted, NEW k \in Nat, k >= 1
  PROVE  \E a, m \in Nat :
           /\ a + m <= Len(placed) /\ PiecesOf(k) = [n \in 1..m |-> PieceOf(a + n)]
           /\ \A n \in 1..m : placed[a + n].symbol = k
           /\ a > 0 => placed[a].symbol < k
<1>1. k - 1 \in Nat
  OBVIOUS
<1>0. Boundary(k - 1, Behind(k - 1)) /\ Boundary(k, Behind(k))
  BY <1>1, BehindIs
<1>2. PICK a \in Nat : a = Behind(k - 1) /\ Boundary(k - 1, a)
  BY <1>0 DEF Boundary
<1>3. PICK b \in Nat : b = Behind(k) /\ Boundary(k, b)
  BY <1>0 DEF Boundary
<1>4. PICK l \in Nat : l = Len(placed)
  BY LenProperties DEF IInv, Pieces
<1>5. ASSUME NEW i \in 1..l PROVE placed[i].symbol \in Nat
  <2>1. placed[i] \in PieceType
    BY <1>4, ElementOfSeq DEF IInv, Pieces
  <2> QED
    BY <2>1 DEF PieceType
<1>6. a \in 0..l /\ b \in 0..l
  BY <1>2, <1>3, <1>4 DEF Boundary
<1>7. a <= b
  <2>1. CASE a = 0
    BY <2>1
  <2>2. CASE a # 0
    <3>1. a \in 1..l
      BY <1>6, <2>2
    <3>2. placed[a].symbol <= k - 1
      BY <1>2, <1>4, <3>1 DEF Boundary
    <3>3. placed[a].symbol <= k
      BY <1>5, <3>1, <3>2
    <3> QED
      BY <1>3, <1>4, <3>1, <3>3 DEF Boundary
  <2> QED
    BY <2>1, <2>2
<1>8. PICK m \in Nat : m = b - a
  BY <1>7
<1>9. ASSUME NEW n \in 1..m PROVE placed[a + n].symbol = k
  <2>1. a + n \in 1..l /\ a + n <= b /\ ~(a + n <= a)
    BY <1>6, <1>8
  <2>2. placed[a + n].symbol <= k /\ ~(placed[a + n].symbol <= k - 1)
    BY <1>2, <1>3, <1>4, <2>1 DEF Boundary
  <2> QED
    BY <1>5, <2>1, <2>2
<1>10. PiecesOf(k) = [n \in 1..m |-> PieceOf(a + n)]
  BY <1>2, <1>3, <1>8 DEF PiecesOf, PieceOf
<1>11. ASSUME a > 0 PROVE placed[a].symbol < k
  <2>1. a \in 1..l
    BY <1>6, <1>11
  <2>2. placed[a].symbol <= k - 1
    BY <1>2, <1>4, <2>1 DEF Boundary
  <2> QED
    BY <1>5, <2>1, <2>2
<1>12. a + m <= Len(placed)
  BY <1>4, <1>6, <1>8
<1> QED
  BY <1>9, <1>10, <1>11, <1>12

LEMMA PieceIs ==
  ASSUME IInv, Summed, version > 0, NEW i \in 1..Len(placed)
  PROVE  /\ PieceBits(i) \in Nat /\ placed[i].upto \in Nat /\ placed[i].upto <= MaxBits
         /\ PieceOf(i).mode # "ECI" =>
              /\ \A p \in 0..VMax : Estimated(PieceOf(i), p) \in Nat
              /\ Estimated(PieceOf(i), version) <= PieceBits(i)
              /\ \A p \in 0..version : Margin * Estimated(PieceOf(i), p) <= (Margin + 1) * PieceBits(i)
              /\ \A p, q \in 0..VMax :
                   SameEstimates(p, q) => Estimated(PieceOf(i), p) = Estimated(PieceOf(i), q)
<1>1. PICK t \in Specs : version = t[1] /\ level = t[2]
  BY DEF IInv, Place
<1>2. placed[i] \in PieceType
  BY ElementOfSeq DEF IInv, Pieces
<1>3. PICK c \in Chunks : c = input[placed[i].chunk] /\ c \in [mode : STRING, size : Nat, eci : Nat]
  <2>1. placed[i].chunk \in 1..Len(input)
    BY DEF IInv, Pieces
  <2>2. input \in Seq([mode : STRING, size : Nat, eci : Nat]) /\ input \in Inputs
    BY InputsAssumption DEF IInv, Place
  <2>3. placed[i].chunk \in DOMAIN input
    BY <2>1, <2>2
  <2>4. input[placed[i].chunk] \in Chunks
    BY <2>2, <2>3 DEF Chunks
  <2> QED
    BY <2>1, <2>2, <2>4, ElementOfSeq
<1>4. PICK n \in 1..c.size : n = placed[i].hi - placed[i].lo /\ WholeUnits(c, n)
  <2>1. /\ placed[i].lo < placed[i].hi /\ placed[i].hi <= c.size
        /\ WholeUnits(c, placed[i].lo) /\ WholeUnits(c, placed[i].hi)
    BY <1>3 DEF IInv, Pieces, Summed
  <2>2. placed[i].lo \in Nat /\ placed[i].hi \in Nat /\ c.size \in Nat
    BY <1>2, <1>3 DEF PieceType
  <2>3. placed[i].hi - placed[i].lo \in 1..c.size
    BY <2>1, <2>2
  <2>4. WholeUnits(c, placed[i].hi - placed[i].lo)
    BY <2>1, <2>2 DEF WholeUnits
  <2> QED
    BY <2>3, <2>4
<1>5. PieceOf(i) = Sized(c, n) /\ PieceOf(i).mode = c.mode
  BY <1>3, <1>4 DEF PieceOf, Sized
<1>6. /\ PieceBits(i) \in Nat /\ PieceBits(i) = Encoded(Sized(c, n), version)
      /\ placed[i].upto \in Nat /\ placed[i].upto <= MaxBits
      /\ placed[i].upto = PieceBits(i) + IF i > 1 /\ placed[i - 1].symbol = placed[i].symbol
                                           THEN placed[i - 1].upto ELSE 0
  BY <1>2, <1>5 DEF Summed, PieceBits, IInv, Pieces, PieceType
<1>7. PieceBits(i) <= MaximumBits(t)
  <2>1. i > 1 => placed[i - 1].upto \in Nat
    <3> SUFFICES ASSUME i > 1 PROVE placed[i - 1].upto \in Nat
      OBVIOUS
    <3>1. Len(placed) \in Nat
      BY LenProperties DEF IInv, Pieces
    <3>2. i - 1 \in 1..Len(placed)
      BY <3>1
    <3>3. placed[i - 1] \in PieceType
      BY <3>2, ElementOfSeq DEF IInv, Pieces
    <3> QED
      BY <3>3 DEF PieceType
  <2>2. PieceBits(i) <= placed[i].upto
    BY <1>6, <2>1
  <2>3. MaxBits = MaximumBits(t) - HeaderSize /\ MaximumBits(t) \in Int /\ HeaderSize \in Nat
    BY <1>1, InputsAssumption DEF MaxBits, MaximumBits
  <2> QED
    BY <1>6, <2>2, <2>3
<1>8. ASSUME c.mode # "ECI"
      PROVE  /\ \A p \in 0..VMax : Estimated(Sized(c, n), p) \in Nat
             /\ EstimateNear(Sized(c, n), t, 0..version)
  BY <1>1, <1>4, <1>8, EstimatesNearAssumption
<1>9. ASSUME c.mode # "ECI", NEW p \in 0..VMax, NEW q \in 0..VMax, SameEstimates(p, q)
      PROVE  Estimated(Sized(c, n), p) = Estimated(Sized(c, n), q)
  BY <1>4, <1>9 DEF SameEstimates
<1>10. ASSUME c.mode # "ECI"
       PROVE  /\ Estimated(Sized(c, n), version) <= PieceBits(i)
              /\ \A p \in 0..version : Margin * Estimated(Sized(c, n), p) <= (Margin + 1) * PieceBits(i)
  BY <1>1, <1>6, <1>7, <1>8, <1>10 DEF EstimateNear
<1> QED
  BY <1>5, <1>6, <1>8, <1>9, <1>10

LEMMA NatList ==
  ASSUME NEW n \in Nat, NEW s \in [1..n -> Nat]
  PROVE  s \in Seq(Nat) /\ Len(s) = n
OBVIOUS

(* A member of the struct fits a symbol of the version of the input; how    *)
(* far the estimates of it are off.                                         *)
Plain(k) == \A n \in DOMAIN PiecesOf(k) : PiecesOf(k)[n].mode # "ECI"

LEMMA MemberSizes ==
  ASSUME IInv, Tallied, status = "done", version > 0, NEW k \in Nat, k >= 1, Plain(k)
  PROVE  LET d == <<"QR", Member(k)>>
         IN  \E sum \in Nat :
               /\ EncodedList(d, version) = sum /\ sum <= DataLength(version, level) * 8
               /\ \A p \in 0..VMax : EstimatedList(d, p) \in Nat
               /\ EstimatedList(d, version) <= sum
               /\ \A p \in 0..version : Margin * EstimatedList(d, p) <= (Margin + 1) * sum
               /\ \A p, q \in 0..VMax : SameEstimates(p, q) => EstimatedList(d, p) = EstimatedList(d, q)
<1>1. PICK a \in Nat, m \in Nat :
        /\ a + m <= Len(placed) /\ PiecesOf(k) = [n \in 1..m |-> PieceOf(a + n)]
        /\ \A n \in 1..m : placed[a + n].symbol = k
        /\ a > 0 => placed[a].symbol < k
  BY PiecesOfSymbol DEF Tallied
<1>2. PICK t \in Specs : version = t[1] /\ level = t[2]
  BY DEF IInv, Place
<1>3. PICK l \in Nat : l = Len(placed)
  BY LenProperties DEF IInv, Pieces
<1>4. ASSUME NEW n \in 1..m
      PROVE  /\ a + n \in 1..l /\ PieceBits(a + n) \in Nat
             /\ placed[a + n].upto \in Nat /\ placed[a + n].upto <= MaxBits
             /\ \A p \in 0..VMax : Estimated(PieceOf(a + n), p) \in Nat
             /\ Estimated(PieceOf(a + n), version) <= PieceBits(a + n)
             /\ \A p \in 0..version :
                  Margin * Estimated(PieceOf(a + n), p) <= (Margin + 1) * PieceBits(a + n)
             /\ \A p, q \in 0..VMax :
                  SameEstimates(p, q) => Estimated(PieceOf(a + n), p) = Estimated(PieceOf(a + n), q)
  <2>1. a + n \in 1..l
    BY <1>1, <1>3
  <2>2. PieceOf(a + n).mode # "ECI"
    BY <1>1 DEF Plain
  <2> QED
    BY <1>3, <2>1, <2>2, PieceIs DEF Tallied
<1>5. MaxBits \in Int /\ MaxBits > 0 /\ HeaderSize \in Nat /\ DataLength(version, level) * 8 = MaxBits + HeaderSize
  BY <1>2, InputsAssumption DEF Tallied, MaxBits
<1>0. version \in 0..VMax /\ \A p \in 0..version : p \in 0..VMax
  <2>1. version \in 1..VMax /\ VMax \in Nat
    BY <1>2, EstimatesNearAssumption, CallsAssumption
  <2> QED
    BY <2>1
<1> DEFINE sizes == [n \in 1..m |-> PieceBits(a + n)]
<1>6. sizes \in Seq(Nat) /\ Len(sizes) = m
  <2>1. sizes \in [1..m -> Nat]
    BY <1>4
  <2> HIDE DEF sizes
  <2> QED
    BY <2>1, NatList
<1>7. Total(sizes) \in Nat /\ Total(sizes) <= MaxBits
  <2> DEFINE u == [n \in 0..m |-> IF n = 0 THEN 0 ELSE placed[a + n].upto]
  <2>1. u \in [0..m -> Nat] /\ u[0] = 0
    BY <1>4
  <2>2. ASSUME NEW n \in 1..m PROVE u[n] = u[n - 1] + sizes[n]
    <3>1. a + n \in 1..l /\ placed[a + n].symbol = k
      BY <1>1, <1>4
    <3>2. placed[a + n].upto = PieceBits(a + n)
            + IF a + n > 1 /\ placed[(a + n) - 1].symbol = placed[a + n].symbol
                THEN placed[(a + n) - 1].upto ELSE 0
      BY <1>3, <3>1 DEF Tallied, Summed
    <3>3. CASE n = 1
      <4>1. (a + n) - 1 = a /\ ~(a + n > 1 /\ placed[a].symbol = k)
        BY <1>1, <3>3
      <4> QED
        BY <1>4, <3>1, <3>2, <3>3, <4>1
    <3>4. CASE n # 1
      <4>1. n - 1 \in 1..m /\ (a + n) - 1 = a + (n - 1) /\ a + n > 1 /\ n - 1 # 0 /\ n # 0
        BY <3>4
      <4>2. placed[a + (n - 1)].symbol = k /\ placed[a + (n - 1)].upto \in Nat
        BY <1>1, <1>4, <4>1
      <4>3. placed[a + n].upto = PieceBits(a + n) + placed[a + (n - 1)].upto
        BY <3>1, <3>2, <4>1, <4>2
      <4>4. u[n] = placed[a + n].upto /\ u[n - 1] = placed[a + (n - 1)].upto
        BY <4>1
      <4> QED
        BY <1>4, <4>2, <4>3, <4>4
    <3> QED
      BY <3>3, <3>4
  <2>3. Sums(sizes, m, u)
    BY <2>1, <2>2 DEF Sums
  <2>4. Total(sizes) = u[m]
    BY <1>6, <2>3, TotalIs
  <2>5. u[m] \in Nat /\ u[m] <= MaxBits
    BY <1>4, <1>5
  <2> HIDE DEF u, sizes
  <2> QED
    BY <2>4, <2>5
<1> DEFINE pieces  == [n \in 1..m |-> PieceOf(a + n)]
           least(p) == [n \in 1..m |-> Estimated(PieceOf(a + n), p)]
<1>8. ASSUME NEW p \in 0..VMax
      PROVE  least(p) \in Seq(Nat) /\ Len(least(p)) = m /\ Total(least(p)) \in Nat
  <2>1. least(p) \in Seq(Nat) /\ Len(least(p)) = m
    <3>1. least(p) \in [1..m -> Nat]
      BY <1>4
    <3> HIDE DEF least
    <3> QED
      BY <3>1, NatList
  <2> HIDE DEF least
  <2> QED
    BY <2>1, TotalNat
<1>9. Total(least(version)) <= Total(sizes)
  <2>1. \A n \in 1..m : least(version)[n] <= sizes[n]
    BY <1>4
  <2> HIDE DEF least, sizes
  <2> QED
    BY <1>0, <1>6, <1>8, <2>1, TotalMonotone
<1>10. ASSUME NEW p \in 0..version
       PROVE  Margin * Total(least(p)) <= (Margin + 1) * Total(sizes)
  <2>1. \A n \in 1..m : Margin * least(p)[n] <= (Margin + 1) * sizes[n]
    BY <1>4
  <2>2. p \in 0..VMax
    BY <1>0
  <2> HIDE DEF least, sizes
  <2> QED
    BY <1>6, <1>8, <2>1, <2>2, TotalNear
<1>11. ASSUME NEW p \in 0..VMax, NEW q \in 0..VMax, SameEstimates(p, q)
       PROVE  least(p) = least(q)
  BY <1>4, <1>11
<1>12. PiecesOf(k) = pieces /\ Len(pieces) = m
  BY <1>1
(* What a header, or none, adds.                                            *)
<1> DEFINE Longer(d, n) == /\ EncodedList(d, version) = n + Total(sizes)
                           /\ \A p \in 0..VMax : EstimatedList(d, p) = n + Total(least(p))
<1>13. ASSUME NEW d, NEW h \in {0, HeaderSize}, Longer(d, h)
       PROVE  \E sum \in Nat :
               /\ EncodedList(d, version) = sum /\ sum <= DataLength(version, level) * 8
               /\ \A p \in 0..VMax : EstimatedList(d, p) \in Nat
               /\ EstimatedList(d, version) <= sum
               /\ \A p \in 0..version : Margin * EstimatedList(d, p) <= (Margin + 1) * sum
               /\ \A p, q \in 0..VMax : SameEstimates(p, q) => EstimatedList(d, p) = EstimatedList(d, q)
  <2> HIDE DEF sizes, least
  <2>1. PICK total \in Nat : total = Total(sizes) /\ total <= MaxBits
    BY <1>7
  <2>2. h \in Nat /\ h <= HeaderSize
    BY <1>5
  <2>3. PICK sum \in Nat : sum = h + total /\ sum <= DataLength(version, level) * 8
    BY <1>5, <2>1, <2>2
  <2>4. EncodedList(d, version) = sum
    BY <1>13, <2>1, <2>3
  <2>5. ASSUME NEW p \in 0..VMax PROVE EstimatedList(d, p) \in Nat
    <3>1. Total(least(p)) \in Nat
      BY <1>8
    <3> QED
      BY <1>13, <2>2, <3>1
  <2>6. EstimatedList(d, version) <= sum
    <3>1. Total(least(version)) \in Nat
      BY <1>0, <1>8
    <3>2. EstimatedList(d, version) = h + Total(least(version))
      BY <1>0, <1>13
    <3> QED
      BY <1>9, <2>1, <2>2, <2>3, <3>1, <3>2
  <2>7. ASSUME NEW p \in 0..version PROVE Margin * EstimatedList(d, p) <= (Margin + 1) * sum
    <3>1. p \in 0..VMax
      BY <1>0
    <3>2. PICK part \in Nat : part = Total(least(p))
      BY <1>8, <3>1
    <3>3. EstimatedList(d, p) = h + part
      BY <1>13, <3>1, <3>2
    <3>4. 128 * part <= 129 * total
      BY <1>10, <2>1, <3>2 DEF Margin
    <3>5. 128 * (h + part) <= 129 * sum
      BY <2>2, <2>3, <3>4
    <3> QED
      BY <3>3, <3>5 DEF Margin
  <2>8. ASSUME NEW p \in 0..VMax, NEW q \in 0..VMax, SameEstimates(p, q)
        PROVE  EstimatedList(d, p) = EstimatedList(d, q)
    <3>1. least(p) = least(q)
      BY <1>11, <2>8
    <3> QED
      BY <1>13, <3>1
  <2> QED
    BY <2>3, <2>4, <2>5, <2>6, <2>7, <2>8
<1>14. CASE symbols = 1
  <2> DEFINE d == <<"QR", pieces>>
  <2>1. Member(k) = pieces
    BY <1>12, <1>14 DEF Member
  <2>2. EncodedList(d, version) = Total(sizes)
    <3>1. sizes = [i \in 1..Len(pieces) |-> Encoded(pieces[i], version)]
      BY <1>12 DEF PieceBits
    <3> QED
      BY <3>1 DEF EncodedList
  <2>3. ASSUME NEW p \in 0..VMax PROVE EstimatedList(d, p) = Total(least(p))
    <3>1. least(p) = [i \in 1..Len(pieces) |-> Estimated(pieces[i], p)]
      BY <1>12
    <3> QED
      BY <3>1 DEF EstimatedList
  <2> HIDE DEF d, sizes, least
  <2>4. Longer(d, 0)
    BY <1>7, <1>8, <2>2, <2>3
  <2> QED
    BY <1>13, <2>1, <2>4 DEF d
<1>15. CASE symbols # 1
  <2>0. PICK q : q = <<Header>> \o pieces
    OBVIOUS
  <2> DEFINE d == <<"QR", q>>
             longer   == [i \in 1..m + 1 |-> Encoded(q[i], version)]
             under(p) == [i \in 1..m + 1 |-> Estimated(q[i], p)]
  <2>1. Member(k) = q
    BY <1>12, <1>15, <2>0 DEF Member
  <2>2. /\ Len(q) = m + 1 /\ q[1] = Header
        /\ \A n \in 1..m : q[n + 1] = PieceOf(a + n)
    <3> DEFINE S == {Header} \cup {PieceOf(a + n) : n \in 1..m}
    <3>0. Header \in S /\ \A n \in 1..m : PieceOf(a + n) \in S
      OBVIOUS
    <3>1. <<Header>> \in Seq(S) /\ pieces \in Seq(S) /\ Len(<<Header>>) = 1
      <4> HIDE DEF S
      <4> QED
        BY <3>0
    <3> HIDE DEF S
    <3>2. /\ Len(q) = 1 + m
          /\ \A i \in 1..1 + m : q[i] = IF i <= 1 THEN <<Header>>[i] ELSE pieces[i - 1]
      BY <1>12, <2>0, <3>1, ConcatProperties
    <3>3. ASSUME NEW n \in 1..m PROVE q[n + 1] = PieceOf(a + n)
      <4>1. n + 1 \in 1..1 + m /\ ~(n + 1 <= 1) /\ (n + 1) - 1 = n
        OBVIOUS
      <4> QED
        BY <3>2, <4>1
    <3>4. Len(q) = m + 1 /\ q[1] = <<Header>>[1]
      <4>1. 1 \in 1..1 + m /\ 1 <= 1
        OBVIOUS
      <4> HIDE DEF pieces
      <4> QED
        BY <3>2, <4>1
    <3> QED
      BY <3>3, <3>4
  <2>3. /\ Encoded(Header, version) = HeaderSize
        /\ \A p \in 0..VMax : Estimated(Header, p) = HeaderSize
    BY <1>2, EstimatesNearAssumption
  <2>4. ASSUME NEW i \in 1..m + 1
        PROVE  i = 1 \/ \E n \in 1..m : i = n + 1
    <3>1. i = 1 \/ (i - 1 \in 1..m /\ i = (i - 1) + 1)
      OBVIOUS
    <3> QED
      BY <3>1
  <2>5. longer \in Seq(Nat) /\ Len(longer) = m + 1 /\ longer[1] = HeaderSize
        /\ \A n \in 1..m : longer[n + 1] = sizes[n]
    <3>1. ASSUME NEW i \in 1..m + 1 PROVE Encoded(q[i], version) \in Nat
      BY <1>4, <1>5, <2>2, <2>3, <2>4 DEF PieceBits
    <3>2. \A n \in 1..m : n + 1 \in 1..m + 1
      OBVIOUS
    <3>3. longer \in Seq(Nat) /\ Len(longer) = m + 1
      <4>1. longer \in [1..m + 1 -> Nat] /\ m + 1 \in Nat
        BY <3>1
      <4> HIDE DEF longer
      <4> QED
        BY <4>1, NatList
    <3>4. longer[1] = HeaderSize
      BY <2>2, <2>3
    <3>5. \A n \in 1..m : longer[n + 1] = sizes[n]
      BY <2>2, <3>2 DEF PieceBits
    <3> QED
      BY <3>3, <3>4, <3>5
  <2>6. EncodedList(d, version) = HeaderSize + Total(sizes)
    <3>1. EncodedList(d, version) = Total(longer)
      BY <2>2 DEF EncodedList
    <3> HIDE DEF d, longer, sizes
    <3> QED
      BY <1>6, <2>5, <3>1, TotalBehind
  <2>7. ASSUME NEW p \in 0..VMax PROVE EstimatedList(d, p) = HeaderSize + Total(least(p))
    <3>1. under(p) \in Seq(Nat) /\ Len(under(p)) = m + 1 /\ under(p)[1] = HeaderSize
          /\ \A n \in 1..m : under(p)[n + 1] = least(p)[n]
      <4>1. ASSUME NEW i \in 1..m + 1 PROVE Estimated(q[i], p) \in Nat
        BY <1>4, <1>5, <2>2, <2>3, <2>4
      <4>2. \A n \in 1..m : n + 1 \in 1..m + 1
        OBVIOUS
      <4>3. under(p) \in Seq(Nat) /\ Len(under(p)) = m + 1
        <5>1. under(p) \in [1..m + 1 -> Nat] /\ m + 1 \in Nat
          BY <4>1
        <5> HIDE DEF under
        <5> QED
          BY <5>1, NatList
      <4>4. under(p)[1] = HeaderSize
        BY <2>2, <2>3
      <4>5. \A n \in 1..m : under(p)[n + 1] = least(p)[n]
        BY <2>2, <4>2
      <4> QED
        BY <4>3, <4>4, <4>5
    <3>2. EstimatedList(d, p) = Total(under(p))
      BY <2>2 DEF EstimatedList
    <3> HIDE DEF d, under, least
    <3> QED
      BY <1>8, <3>1, <3>2, TotalBehind
  <2> HIDE DEF d, longer, sizes, least
  <2>8. Longer(d, HeaderSize)
    BY <2>6, <2>7
  <2> QED
    BY <1>13, <2>1, <2>8 DEF d
<1> QED
  BY <1>14, <1>15

(* So a member fits that version also by an estimate made there; by one     *)
(* made at a lower version it fits the next.                                *)
LEMMA MemberFits ==
  ASSUME IInv, Tallied, status = "done", version > 0, NEW k \in Nat, k >= 1, Plain(k)
  PROVE  LET d == <<"QR", Member(k)>>
         IN  /\ version \in 1..VMax
             /\ Stream!Fits(EncodedList(d, version), version, level)
             /\ Stream!Fits(EstimatedList(d, version), version, level)
             /\ version < VMax =>
                  /\ \A p \in 0..version : Stream!Fits(EstimatedList(d, p), version + 1, level)
                  /\ \/ Stream!Fits(EstimatedList(d, version + 1), version, level)
                     \/ \A p \in 0..version : \/ EstimatedList(d, p) = EstimatedList(d, version)
                                              \/ EstimatedList(d, p) = EstimatedList(d, 0)
<1> DEFINE d == <<"QR", Member(k)>>
<1>1. PICK t \in Specs : version = t[1] /\ level = t[2]
  BY DEF IInv, Place
<1>2. /\ version \in 1..VMax
      /\ version < VMax => RoomToSpare(t) /\ GrowApart(version)
  BY <1>1, EstimatesNearAssumption
<1>3. PICK sum \in Nat :
        /\ EncodedList(d, version) = sum /\ sum <= DataLength(version, level) * 8
        /\ \A p \in 0..VMax : EstimatedList(d, p) \in Nat
        /\ EstimatedList(d, version) <= sum
        /\ \A p \in 0..version : Margin * EstimatedList(d, p) <= (Margin + 1) * sum
        /\ \A p, q \in 0..VMax : SameEstimates(p, q) => EstimatedList(d, p) = EstimatedList(d, q)
  BY MemberSizes
<1> HIDE DEF d
<1>4. VMax \in Nat /\ DataLength(version, level) \in Nat
  BY <1>1, CallsAssumption, InputsAssumption
<1>5. Stream!Fits(EncodedList(d, version), version, level) /\ Stream!Fits(EstimatedList(d, version), version, level)
  <2>1. EstimatedList(d, version) \in Nat
    BY <1>2, <1>3, <1>4
  <2> QED
    BY <1>3, <1>4, <2>1 DEF Stream!Fits
<1>6. ASSUME version < VMax, NEW p \in 0..version
      PROVE  Stream!Fits(EstimatedList(d, p), version + 1, level)
  <2>1. PICK room \in Nat, next \in Nat :
          /\ room = DataLength(version, level) * 8 /\ next = DataLength(version + 1, level) * 8
          /\ 129 * room <= 128 * next
    <3>1. DataLength(version + 1, level) \in Nat
      BY <1>1, <1>2, <1>6 DEF RoomToSpare
    <3>2. 129 * (DataLength(version, level) * 8) <= 128 * (DataLength(version + 1, level) * 8)
      BY <1>1, <1>2, <1>6 DEF RoomToSpare, MaximumBits, Margin
    <3> QED
      BY <1>4, <3>1, <3>2
  <2>2. PICK e \in Nat : e = EstimatedList(d, p)
    BY <1>2, <1>3, <1>4
  <2>3. 128 * e <= 129 * sum
    BY <1>3, <2>2 DEF Margin
  <2>4. next >= e
    BY <1>3, <2>1, <2>3
  <2> QED
    BY <2>1, <2>2, <2>4 DEF Stream!Fits
<1>7. ASSUME version < VMax
      PROVE  \/ Stream!Fits(EstimatedList(d, version + 1), version, level)
             \/ \A p \in 0..version : \/ EstimatedList(d, p) = EstimatedList(d, version)
                                      \/ EstimatedList(d, p) = EstimatedList(d, 0)
  <2>1. version \in 0..VMax /\ version + 1 \in 0..VMax /\ \A p \in 0..version : p \in 0..VMax
    BY <1>2, <1>4, <1>7
  <2>2. CASE SameEstimates(version, version + 1)
    BY <1>3, <1>5, <2>1, <2>2
  <2>3. CASE \A p \in 0..version : SameEstimates(p, version) \/ SameEstimates(p, 0)
    <3>1. 0 \in 0..VMax
      BY <1>4
    <3> QED
      BY <1>3, <2>1, <2>3, <3>1
  <2> QED
    BY <1>2, <1>7, <2>2, <2>3 DEF GrowApart
<1> QED
  BY <1>2, <1>5, <1>6, <1>7 DEF d

LEMMA GuessAtMost ==
  ASSUME VMax \in Nat, NEW v \in 1..VMax, NEW n, NEW l, Stream!Fits(n, v, l)
  PROVE  Stream!MinimumVersion(n, l) \in 1..v
<1> DEFINE S == {w \in 1..VMax : Stream!Fits(n, w, l)}
<1>1. S \subseteq Nat /\ v \in S
  OBVIOUS
<1> HIDE DEF S
<1>2. PICK m \in S : \A w \in S : m <= w
  BY <1>1, LeastElement
<1> USE DEF S
<1>3. m \in 1..VMax /\ Stream!Fits(n, m, l) /\ \A w \in 1..m - 1 : ~Stream!Fits(n, w, l)
  BY <1>2
<1>4. PICK w \in 1..VMax : /\ w = Stream!MinimumVersion(n, l)
                           /\ Stream!Fits(n, w, l) /\ \A u \in 1..w - 1 : ~Stream!Fits(n, u, l)
  BY <1>3 DEF Stream!MinimumVersion
<1>5. ~(v < w)
  <2> SUFFICES ASSUME v < w PROVE FALSE
    OBVIOUS
  <2>1. v \in 1..w - 1
    OBVIOUS
  <2> QED
    BY <1>4, <2>1
<1> QED
  BY <1>4, <1>5

LEMMA AnyGuess ==
  ASSUME VMax \in Nat, VMax >= 1, NEW n, NEW l
  PROVE  Stream!MinimumVersion(n, l) \in 1..VMax
<1>1. CASE \E v \in 1..VMax : Stream!Fits(n, v, l)
  <2>1. PICK v \in 1..VMax : Stream!Fits(n, v, l)
    BY <1>1
  <2>2. Stream!MinimumVersion(n, l) \in 1..v
    BY <2>1, GuessAtMost
  <2> QED
    BY <2>2
<1>2. CASE ~\E v \in 1..VMax : Stream!Fits(n, v, l)
  BY <1>2 DEF Stream!MinimumVersion
<1> QED
  BY <1>1, <1>2

-----------------------------------------------------------------------------
(* What makes a list complete, at every step: the entries before the last   *)
(* are symbols with all their blocks, each of the version asked for; what   *)
(* is being made is the member of the last one.                             *)
Producing     == {"raw"} \cup OfSymbol
Names(blocks) == {b[1] : b \in blocks}

Whole(k) == /\ Names(codes[k].blocks) = {"entry"} \cup CodeNames
            /\ Plain(k) => codes[k].version = version
Listed ==
  /\ codes # <<>> \/ pc = "entry" => status = "done"
  /\ Len(codes) <= symbols
  /\ \A k \in 1..Len(codes) : k < Len(codes) \/ pc \notin Producing \cup {"abort"} => Whole(k)
  /\ pc \in Producing => Names(codes[Len(codes)].blocks) = {"entry"}
  /\ pc \in {"free", "returned"} /\ codes # <<>> => Len(codes) = symbols
  /\ pc = "code" => Names(masked) = {"masked"}
  /\ code # {} => Names(code) = CodeNames
\* How far the search may have got: it began a version below its first find,
\* and goes past the version only where that version's estimate holds again.
SearchNear ==
  \/ prev = 0
  \/ prev \in 1..version /\ Stream!Found(source, level, 0) <= prev + 1
  \/ prev = version + 1 /\ Stream!Fits(EstimatedList(source, version + 1), version, level)
KeepsVersion ==
  pc \in Producing =>
    /\ source = <<"QR", Member(Len(codes))>>
    /\ Plain(Len(codes)) => /\ objversion = version
                            /\ pc = "stream" /\ phase = "estimate" => SearchNear
ListInv  == Structured => Listed /\ KeepsVersion
TallyInv == Structured /\ version > 0 => Tallied

LEMMA InitListInv == CallInit => ListInv /\ TallyInv
<1> SUFFICES ASSUME CallInit PROVE Listed /\ KeepsVersion /\ Tallied
  BY DEF ListInv, TallyInv
<1>1. Len(codes) = 0 /\ Len(placed) = 0
  BY DEF CallInit
<1> QED
  BY <1>1 DEF CallInit, Listed, KeepsVersion, Tallied, Sorted, Summed, Producing,
     OfSymbol, OfStream

LEMMA TallyInductive == ASSUME MInv, SInv, TallyInv, [CallNext]_callVars PROVE TallyInv'
<1>1. UNCHANGED <<call, version>>
  BY CallKept
<1>2. CASE Split
  <2>1. Structured /\ version > 0 /\ IInv
    BY <1>2 DEF Split, MInv, Live, SInv
  <2>2. [Next]_vars
    BY <1>2 DEF Split, Next
  <2> QED
    BY <2>1, <2>2, TalliedKept DEF TallyInv
<1>3. CASE ~Split
  <2>1. UNCHANGED splitVars
    BY <1>3 DEF CallNext, NewObject, AppendText, NextVersion, SplitReturns, NewEntry, Abort,
       FreeInputs, NewRaw, GetByteStream, GetByteStreamReturns, NewEcccode, NewRsblock, NewFrame,
       FillFrame, MaskFrame, QRcode_new, Exit, AddToList, GiveToCaller, callVars, vars, splitVars
  <2>2. \A i : PieceBits(i)' = PieceBits(i)
    BY <2>1 DEF PieceBits, PieceOf, splitVars
  <2> QED
    BY <1>1, <2>1, <2>2 DEF TallyInv, Tallied, Sorted, Summed, MaxBits, Structured,
       splitVars
<1> QED
  BY <1>2, <1>3

LEMMA MembersKept ==
  ASSUME UNCHANGED splitVars
  PROVE  \A k : PiecesOf(k)' = PiecesOf(k) /\ Member(k)' = Member(k)
<1>1. \A k : Behind(k)' = Behind(k)
  BY DEF Behind, splitVars
<1>2. \A k : PiecesOf(k)' = PiecesOf(k)
  BY <1>1 DEF PiecesOf, splitVars
<1> QED
  BY <1>2 DEF Member, splitVars

(* While a list is being made, the split it is made of is done.             *)
LEMMA SplitDone ==
  ASSUME SInv, TallyInv, Structured, status = "done"
  PROVE  IInv /\ Tallied /\ version > 0
BY DEF SInv, TallyInv, Untouched

(* The search ends at the version or below it.                              *)
LEMMA SearchKeepsNear ==
  ASSUME IInv, Tallied, status = "done", version > 0, NEW k \in Nat, k >= 1, Plain(k),
         source = <<"QR", Member(k)>>, SearchNear
  PROVE  LET next == Stream!NextGuess(source, level, prev)
         IN  /\ next \in Nat /\ prev \in Nat
             /\ next > prev => \/ next \in 1..version /\ Stream!Found(source, level, 0) <= next + 1
                               \/ /\ next = version + 1
                                  /\ Stream!Fits(EstimatedList(source, version + 1), version, level)
             /\ next <= prev => next <= version
<1> DEFINE found(p) == Stream!Found(source, level, p)
<1>1. version \in 1..VMax /\ VMax \in Nat
  BY MemberFits, CallsAssumption
<1>2. ASSUME NEW p, EstimatedList(source, p) = EstimatedList(source, version)
      PROVE  found(p) \in 1..version
  <2>1. Stream!Fits(EstimatedList(source, p), version, level)
    BY <1>2, MemberFits
  <2> QED
    BY <1>1, <2>1, GuessAtMost DEF Stream!Found
<1>3. ASSUME NEW p \in 0..version
      PROVE  found(p) \in 1..VMax /\ found(p) <= version + 1
  <2>1. CASE version = VMax
    <3>1. Stream!MinimumVersion(EstimatedList(source, p), level) \in 1..VMax
      BY <1>1, AnyGuess
    <3> QED
      BY <1>1, <2>1, <3>1 DEF Stream!Found
  <2>2. CASE version # VMax
    <3>1. version + 1 \in 1..VMax /\ version < VMax
      BY <1>1, <2>2
    <3>2. Stream!Fits(EstimatedList(source, p), version + 1, level)
      BY <3>1, MemberFits
    <3>3. found(p) \in 1..version + 1
      BY <1>1, <3>1, <3>2, GuessAtMost DEF Stream!Found
    <3> QED
      BY <1>1, <3>1, <3>3
  <2> QED
    BY <2>1, <2>2
<1>4. CASE prev = 0
  <2>1. PICK f \in 1..VMax : f = found(0) /\ f <= version + 1
    BY <1>1, <1>3
  <2>2. Stream!NextGuess(source, level, prev) = IF f > 1 THEN f - 1 ELSE f
    BY <1>4, <2>1 DEF Stream!NextGuess
  <2> HIDE DEF found
  <2>3. (IF f > 1 THEN f - 1 ELSE f) \in 1..version /\ f <= (IF f > 1 THEN f - 1 ELSE f) + 1
    BY <1>1, <2>1
  <2> QED
    BY <1>1, <1>4, <2>1, <2>2, <2>3 DEF found
<1>5. CASE prev \in 1..version /\ found(0) <= prev + 1
  <2>1. PICK f \in 1..VMax : f = found(prev) /\ f <= version + 1
    BY <1>1, <1>3, <1>5
  <2>2. Stream!NextGuess(source, level, prev) = f
    BY <1>5, <2>1 DEF Stream!NextGuess
  <2>3. found(0) \in 1..VMax
    BY <1>1, <1>3
  <2>4. CASE f <= version
    <3>1. f > prev => f \in 1..version /\ found(0) <= f + 1
      BY <1>1, <1>5, <2>1, <2>3, <2>4
    <3> QED
      BY <1>1, <1>5, <2>1, <2>2, <2>4, <3>1
  <2>5. CASE f = version + 1
    <3>1. version < VMax
      BY <1>1, <2>1, <2>5
    <3>2. EstimatedList(source, prev) # EstimatedList(source, version)
      <4> SUFFICES ASSUME EstimatedList(source, prev) = EstimatedList(source, version) PROVE FALSE
        OBVIOUS
      <4>1. found(prev) \in 1..version
        BY <1>2
      <4> QED
        BY <1>1, <2>1, <2>5, <4>1
    <3>3. EstimatedList(source, prev) # EstimatedList(source, 0)
      <4> SUFFICES ASSUME EstimatedList(source, prev) = EstimatedList(source, 0) PROVE FALSE
        OBVIOUS
      <4>1. found(0) = version + 1
        BY <2>1, <2>5 DEF Stream!Found
      <4>2. prev = version
        BY <1>1, <1>5, <4>1
      <4> QED
        BY <3>2, <4>2
    <3>4. prev \in 0..version
      BY <1>1, <1>5
    <3>5. Stream!Fits(EstimatedList(source, version + 1), version, level)
      BY <3>1, <3>2, <3>3, <3>4, MemberFits
    <3> QED
      BY <1>1, <1>5, <2>2, <2>5, <3>5
  <2> QED
    BY <1>1, <2>1, <2>4, <2>5
<1>6. CASE prev = version + 1 /\ Stream!Fits(EstimatedList(source, version + 1), version, level)
  <2>1. found(prev) \in 1..version
    BY <1>1, <1>6, GuessAtMost DEF Stream!Found
  <2>2. Stream!NextGuess(source, level, prev) = found(prev)
    BY <1>1, <1>6 DEF Stream!NextGuess
  <2> HIDE DEF found
  <2> QED
    BY <1>1, <1>6, <2>1, <2>2
<1> QED
  BY <1>4, <1>5, <1>6 DEF SearchNear

(* The encoding of a member keeps the version.                              *)
LEMMA StreamKeepsVersion ==
  ASSUME IInv, Tallied, version \in Nat, version > 0, status = "done", NEW k \in Nat, k >= 1, Plain(k),
         source = <<"QR", Member(k)>>, objversion = version, UNCHANGED <<source, level, version>>,
         phase = "estimate" => SearchNear, Stream!Encode \/ Stream!OutOfMemory
  PROVE  objversion' = version /\ (phase' = "estimate" => SearchNear')
<1>1. version \in 1..VMax /\ VMax \in Nat
  BY MemberFits, CallsAssumption
<1>2. CASE Stream!Estimate
  <2>1. SearchNear /\ phase = "estimate"
    BY <1>2 DEF Stream!Estimate
  <2>2. PICK next \in Nat :
          /\ next = Stream!NextGuess(source, level, prev) /\ prev \in Nat
          /\ next > prev => \/ next \in 1..version /\ Stream!Found(source, level, 0) <= next + 1
                            \/ /\ next = version + 1
                               /\ Stream!Fits(EstimatedList(source, version + 1), version, level)
          /\ next <= prev => next <= version
    BY <2>1, SearchKeepsNear
  <2>3. CASE next > prev
    <3>1. prev' = next /\ objversion' = version
      BY <1>2, <2>2, <2>3 DEF Stream!Estimate
    <3> QED
      BY <2>2, <2>3, <3>1 DEF SearchNear, Stream!Found
  <2>4. CASE ~(next > prev)
    <3>1. next <= version
      BY <2>2, <2>4
    <3>2. Stream!Raise(next) /\ phase' = "convert"
      BY <1>2, <2>2, <2>4 DEF Stream!Estimate
    <3> QED
      BY <1>1, <3>1, <3>2 DEF Stream!Raise
  <2> QED
    BY <2>3, <2>4
<1>3. CASE Stream!Convert
  <2>1. Stream!Fits(EncodedList(source, objversion), version, level)
    BY MemberFits
  <2>2. Stream!MinimumVersion(EncodedList(source, objversion), level) \in 1..version
    BY <1>1, <2>1, GuessAtMost
  <2> QED
    BY <1>1, <1>3, <2>2 DEF Stream!Convert
<1>4. CASE Stream!ConvertMQR \/ Stream!Pad \/ Stream!OutOfMemory
  BY <1>4 DEF Stream!ConvertMQR, Stream!Pad, Stream!OutOfMemory
<1> QED
  BY <1>2, <1>3, <1>4 DEF Stream!Encode

\* Steps that leave no list, and steps within the making of a symbol.
LEMMA NoList ==
  ASSUME symbols' \in Nat, codes' = <<>>, code' = {}, pc' \notin Producing \cup {"entry"}
  PROVE  (Listed /\ KeepsVersion)'
<1>1. Len(codes') = 0
  OBVIOUS
<1> QED
  BY <1>1 DEF Listed, KeepsVersion, Producing, OfSymbol, OfStream

LEMMA MakingKeeps ==
  ASSUME Listed, KeepsVersion, pc \in Producing, pc' \in OfSymbol,
         UNCHANGED <<splitVars, codes, source>>,
         pc' = "code" => Names(masked)' = {"masked"}, code' # {} => Names(code)' = CodeNames,
         Plain(Len(codes)) => /\ objversion' = version
                              /\ pc' = "stream" /\ phase' = "estimate" => SearchNear'
  PROVE  (Listed /\ KeepsVersion)'
<1>1. \A k : PiecesOf(k)' = PiecesOf(k) /\ Member(k)' = Member(k)
  BY MembersKept
<1>2. UNCHANGED <<codes, source, symbols, status, version>>
  BY DEF splitVars
<1>3. pc' \in Producing /\ pc' \notin {"entry", "abort", "free", "returned"}
  BY DEF Producing, OfSymbol, OfStream
<1>4. \A k : Plain(k)' <=> Plain(k)
  BY <1>1 DEF Plain
<1>5. ASSUME NEW k \in 1..Len(codes), k < Len(codes) PROVE Whole(k)'
  <2>1. Whole(k)
    BY <1>5 DEF Listed
  <2> QED
    BY <1>2, <1>4, <2>1 DEF Whole, Names
<1>6. Listed'
  <2>1. Names(codes[Len(codes)].blocks)' = {"entry"}
    BY <1>2 DEF Listed, Names
  <2> QED
    BY <1>2, <1>3, <1>5, <2>1 DEF Listed
<1>7. KeepsVersion'
  <2>1. source' = <<"QR", Member(Len(codes))'>>
    BY <1>1, <1>2 DEF KeepsVersion
  <2>2. Plain(Len(codes))' => Plain(Len(codes))
    BY <1>1, <1>2 DEF Plain
  <2> QED
    BY <1>2, <2>1, <2>2 DEF KeepsVersion
<1> QED
  BY <1>6, <1>7

LEMMA NewEntryLists ==
  ASSUME MInv, SInv, Structured, Listed, KeepsVersion, NewEntry
  PROVE  (Listed /\ KeepsVersion)'
<1>1. /\ pc = "entry" /\ status = "done" /\ UNCHANGED <<symbols, status, version>>
      /\ code = {} /\ code' = {} /\ codes \in Seq(SymbolType)
  BY DEF NewEntry, Listed, splitVars, MInv, Live, Kinds
<1>2. \A k : PiecesOf(k)' = PiecesOf(k) /\ Member(k)' = Member(k)
  BY MembersKept DEF NewEntry
<1>3. \A k : Plain(k)' <=> Plain(k)
  BY <1>2 DEF Plain
<1>4. \A k \in 1..Len(codes) : Whole(k)
  BY <1>1 DEF Listed, Producing, OfSymbol, OfStream
<1>5. CASE UNCHANGED codes
  <2>1. (Len(codes) = symbols /\ pc' = "free") \/ pc' = "abort"
    <3>1. Append(codes, [blocks |-> Block("entry"), version |-> 0]) # codes
      BY <1>1, AppendProperties
    <3> QED
      BY <1>5, <3>1 DEF NewEntry
  <2>2. \A k \in 1..Len(codes) : Whole(k)'
    BY <1>1, <1>3, <1>4, <1>5 DEF Whole, Names
  <2> QED
    BY <1>1, <1>5, <2>1, <2>2 DEF Listed, KeepsVersion, Producing, OfSymbol, OfStream
<1>6. CASE /\ Len(codes) < symbols /\ pc' = "raw"
           /\ codes' = Append(codes, [blocks |-> Block("entry"), version |-> 0])
           /\ source' = <<"QR", Member(Len(codes'))>> /\ objversion' = version
  <2> DEFINE e == [blocks |-> Block("entry"), version |-> 0]
  <2>1. PICK n \in Nat : n = Len(codes)
    BY <1>1, LenProperties
  <2>2. e \in SymbolType /\ Names(e.blocks) = {"entry"}
    BY DEF MInv, Kinds, SymbolType, Block, BlockOf, Names
  <2>3. /\ Len(codes') = n + 1 /\ codes'[n + 1] = e
        /\ \A i \in 1..n : codes'[i] = codes[i]
    <3> HIDE DEF e
    <3> QED
      BY <1>1, <1>6, <2>1, <2>2, AppendProperties DEF e
  <2>4. ASSUME NEW k \in 1..n + 1, k < n + 1 PROVE Whole(k)'
    <3>1. k \in 1..n
      BY <2>4
    <3> QED
      BY <1>1, <1>3, <1>4, <2>1, <2>3, <3>1 DEF Whole, Names
  <2>5. Names(codes[Len(codes)].blocks)' = {"entry"}
    BY <2>2, <2>3 DEF Names
  <2>6. symbols \in Nat /\ n < symbols
    BY <1>1, <1>6, <2>1 DEF SInv, Untouched, IInv, Counted
  <2>7. Listed'
    <3>1. Len(codes') <= symbols' /\ status' = "done" /\ code' = {}
      BY <1>1, <2>3, <2>6
    <3>2. pc' \in Producing /\ pc' \notin {"entry", "abort", "free", "returned", "code"}
      BY <1>6 DEF Producing, OfSymbol, OfStream
    <3>3. \A k \in 1..Len(codes') : k < Len(codes') => Whole(k)'
      BY <2>3, <2>4
    <3> HIDE DEF e
    <3> QED
      BY <2>5, <3>1, <3>2, <3>3 DEF Listed
  <2>8. KeepsVersion'
    BY <1>1, <1>2, <1>6 DEF KeepsVersion
  <2> QED
    BY <2>7, <2>8
<1> QED
  BY <1>5, <1>6 DEF NewEntry

LEMMA AddToListLists ==
  ASSUME MInv, SInv, Structured, Listed, KeepsVersion, AddToList
  PROVE  (Listed /\ KeepsVersion)'
<1>1. /\ pc = "encoded" /\ codes # <<>> /\ codes \in Seq(SymbolType)
      /\ UNCHANGED splitVars /\ code' = {}
  BY DEF AddToList, MInv, Live, Kinds, OfSymbol, vars, splitVars
<1>2. UNCHANGED <<symbols, status, version>> /\ status = "done" /\ pc \in Producing
  BY <1>1 DEF Listed, splitVars, Producing, OfSymbol
<1>3. \A k : Plain(k)' <=> Plain(k)
  BY <1>1, MembersKept DEF Plain
<1>4. PICK n \in Nat : n = Len(codes) /\ n >= 1
  <2>1. Len(codes) \in Nat /\ Len(codes) # 0
    BY <1>1, LenProperties, EmptySeq
  <2> QED
    BY <2>1
<1>5. CASE code = {}
  <2>1. UNCHANGED codes /\ pc' = "abort"
    BY <1>5 DEF AddToList
  <2>2. \A k \in 1..n : k < n => Whole(k)'
    BY <1>2, <1>3, <1>4, <2>1 DEF Listed, Whole, Names
  <2> QED
    BY <1>1, <1>2, <1>4, <2>1, <2>2 DEF Listed, KeepsVersion, Producing, OfSymbol, OfStream
<1>6. CASE code # {}
  <2> DEFINE e == [blocks |-> codes[n].blocks \cup code, version |-> objversion]
  <2>1. pc' = "entry" /\ codes' = [codes EXCEPT ![n] = e]
    BY <1>4, <1>6 DEF AddToList
  <2>2. Names(e.blocks) = {"entry"} \cup CodeNames /\ (Plain(n) => e.version = version)
    <3>1. Names(codes[n].blocks) = {"entry"} /\ Names(code) = CodeNames
      BY <1>2, <1>4, <1>6 DEF Listed
    <3>2. Plain(n) => objversion = version
      BY <1>2, <1>4 DEF KeepsVersion
    <3> QED
      BY <3>1, <3>2 DEF Names
  <2>3. /\ Len(codes') = n /\ codes'[n] = e
        /\ \A i \in 1..n : i # n => codes'[i] = codes[i]
    <3> HIDE DEF e
    <3>1. codes \in [1..n -> SymbolType]
      BY <1>1, <1>4
    <3>2. DOMAIN codes' = 1..n /\ codes' \in Seq(SymbolType \cup {e})
      BY <1>4, <2>1, <3>1
    <3>3. Len(codes') = n
      BY <1>4, <3>2, LenProperties
    <3> QED
      BY <1>4, <2>1, <3>1, <3>3
  <2>4. ASSUME NEW k \in 1..n PROVE Whole(k)'
    <3>1. CASE k = n
      BY <1>2, <1>3, <2>2, <2>3, <3>1 DEF Whole, Names
    <3>2. CASE k # n
      <4>1. Whole(k)
        BY <1>4, <3>2 DEF Listed
      <4> QED
        BY <1>2, <1>3, <2>3, <3>2, <4>1 DEF Whole, Names
    <3> QED
      BY <3>1, <3>2
  <2> QED
    BY <1>1, <1>2, <1>4, <2>1, <2>3, <2>4 DEF Listed, KeepsVersion, Producing, OfSymbol,
       OfStream
<1> QED
  BY <1>5, <1>6

LEMMA ListInductive ==
  ASSUME Called, MInv, SInv, TallyInv, ListInv, [CallNext]_callVars
  PROVE  ListInv'
<1>1. UNCHANGED <<call, version>>
  BY CallKept
<1> SUFFICES ASSUME Structured PROVE (Listed /\ KeepsVersion)'
  BY <1>1 DEF ListInv, Structured
<1>2. Listed /\ KeepsVersion /\ Live /\ ~Micro
  BY DEF ListInv, MInv, Structured, Micro
<1>3. symbols' \in Nat
  <2>1. SInv'
    BY SInvInductive
  <2> QED
    BY <2>1 DEF SInv, Untouched, IInv, Counted
<1>4. version \in Nat
  BY CallsAssumption DEF Called
<1>5. CASE NewObject \/ AppendText \/ NextVersion \/ Split
  <2>1. pc \in {"call", "append", "next", "split"} /\ UNCHANGED <<codes, code>>
    BY <1>5 DEF NewObject, AppendText, NextVersion, Split, memory
  <2>2. codes = <<>> /\ code = {}
    BY <1>2, <2>1 DEF Live, OfSymbol, OfStream, OfList
  <2>3. pc' \in {"append", "call", "returned", "split"}
    BY <1>2, <1>5 DEF NewObject, AppendText, NextVersion, Split, Failed
  <2> QED
    BY <1>3, <2>1, <2>2, <2>3, NoList DEF Producing, OfSymbol, OfStream
<1>6. CASE SplitReturns
  <2>1. /\ codes = <<>> /\ code = {} /\ UNCHANGED <<codes, code, status>>
        /\ pc' = "free" \/ (pc' = "entry" /\ status = "done")
    BY <1>2, <1>6 DEF SplitReturns, Live, OfSymbol, OfStream, OfList, vars
  <2>2. Len(codes') = 0
    BY <2>1
  <2> QED
    BY <1>3, <2>1, <2>2 DEF Listed, KeepsVersion, Producing, OfSymbol, OfStream
<1>7. CASE Abort
  <2>1. code = {} /\ codes' = <<>> /\ code' = {} /\ pc' = "free"
    BY <1>2, <1>7 DEF Abort, Live
  <2> QED
    BY <1>3, <2>1, NoList DEF Producing, OfSymbol, OfStream
<1>8. CASE FreeInputs \/ UNCHANGED callVars
  <2>1. /\ UNCHANGED <<splitVars, code, codes, source, masked, objversion, phase, prev>>
        /\ pc' = pc \/ (pc = "free" /\ pc' = "returned")
    BY <1>8 DEF FreeInputs, callVars, vars, splitVars, memory, streamVars
  <2>2. \A k : PiecesOf(k)' = PiecesOf(k) /\ Member(k)' = Member(k)
    BY <2>1, MembersKept
  <2>3. \A k : Plain(k)' <=> Plain(k)
    BY <2>2 DEF Plain
  <2>4. UNCHANGED <<status, symbols, version>>
    BY <2>1 DEF splitVars
  <2>5. \A k : Whole(k)' <=> Whole(k)
    BY <2>1, <2>3, <2>4 DEF Whole, Names
  <2>6. Listed'
    BY <1>2, <2>1, <2>4, <2>5 DEF Listed, Names, Producing, OfSymbol, OfStream
  <2>7. KeepsVersion'
    <3> SUFFICES ASSUME pc \in Producing, pc' = pc PROVE KeepsVersion'
      BY <2>1 DEF KeepsVersion, Producing, OfSymbol, OfStream
    <3>1. source' = <<"QR", Member(Len(codes))'>> /\ (Plain(Len(codes))' => Plain(Len(codes)))
      BY <1>2, <2>1, <2>2 DEF KeepsVersion, Plain
    <3>2. SearchNear => SearchNear'
      BY <2>1 DEF SearchNear, splitVars
    <3> QED
      BY <1>2, <2>1, <2>4, <3>1, <3>2 DEF KeepsVersion
  <2> QED
    BY <2>6, <2>7
<1>9. CASE NewRaw
  <2>1. /\ pc = "raw" /\ pc' \in {"stream", "encoded"} /\ UNCHANGED <<splitVars, codes, source, code, objversion>>
        /\ pc' = "stream" => prev' = 0
    BY <1>9 DEF NewRaw, Stream!GetByteStream, streamVars
  <2>2. code = {}
    BY <1>2, <2>1 DEF Live
  <2>3. pc \in Producing /\ pc' \in OfSymbol /\ pc' # "code"
    BY <2>1 DEF Producing, OfSymbol, OfStream
  <2>4. Plain(Len(codes)) => /\ objversion' = version
                             /\ pc' = "stream" /\ phase' = "estimate" => SearchNear'
    BY <1>2, <2>1, <2>3 DEF KeepsVersion, SearchNear
  <2>5. (pc' = "code" => Names(masked)' = {"masked"}) /\ (code' # {} => Names(code)' = CodeNames)
    BY <2>1, <2>2, <2>3
  <2> QED
    BY <1>2, <2>1, <2>3, <2>4, <2>5, MakingKeeps
<1>10. CASE GetByteStream
  <2>1. /\ pc = "stream" /\ pc' = "stream" /\ UNCHANGED <<splitVars, codes, source, code>>
        /\ Stream!Encode \/ Stream!OutOfMemory
    BY <1>10 DEF GetByteStream, memory
  <2>2. code = {} /\ codes # <<>> /\ codes \in Seq(SymbolType)
    BY <1>2, <2>1 DEF Live, MInv, Kinds, OfSymbol, OfStream
  <2>3. pc \in Producing /\ pc' \in OfSymbol /\ pc' # "code"
    BY <2>1 DEF Producing, OfSymbol, OfStream
  <2>4. Len(codes) \in Nat /\ Len(codes) >= 1
    <3>1. Len(codes) \in Nat /\ Len(codes) # 0
      BY <2>2, LenProperties, EmptySeq
    <3> QED
      BY <3>1
  <2>5. IInv /\ Tallied /\ version > 0 /\ status = "done"
    BY <1>2, <2>2, SplitDone DEF Listed
  <2>6. ASSUME Plain(Len(codes))
        PROVE  objversion' = version /\ (phase' = "estimate" => SearchNear')
    <3>1. PICK k \in Nat : k = Len(codes) /\ k >= 1
      BY <2>4
    <3>2. /\ source = <<"QR", Member(k)>> /\ objversion = version /\ Plain(k)
          /\ phase = "estimate" => SearchNear
      BY <1>2, <2>1, <2>3, <2>6, <3>1 DEF KeepsVersion
    <3>3. UNCHANGED <<source, level, version>>
      BY <2>1 DEF splitVars
    <3> QED
      BY <1>4, <2>1, <2>5, <3>1, <3>2, <3>3, StreamKeepsVersion
  <2> QED
    BY <1>2, <2>1, <2>2, <2>3, <2>6, MakingKeeps
<1>11. CASE \/ GetByteStreamReturns \/ NewEcccode \/ NewRsblock \/ NewFrame \/ FillFrame
            \/ MaskFrame \/ QRcode_new \/ Exit
  <2>1. /\ UNCHANGED <<splitVars, codes, source, objversion>>
        /\ pc \in OfSymbol /\ pc' \in OfSymbol \ {"stream"}
    BY <1>11 DEF GetByteStreamReturns, NewEcccode, NewRsblock, NewFrame, FillFrame,
       MaskFrame,
       QRcode_new, Exit, GiveUp, OfSymbol, OfStream, vars, splitVars, streamVars
  <2>2. pc' = "code" => Names(masked)' = {"masked"}
    <3>1. pc' = "code" => masked' = Block("masked")
      BY <1>11 DEF GetByteStreamReturns, NewEcccode, NewRsblock, NewFrame, FillFrame,
         MaskFrame,
         QRcode_new, Exit, GiveUp
    <3>2. Names(Block("masked")) = {"masked"}
      BY DEF Names, Block
    <3> QED
      BY <3>1, <3>2 DEF Names
  <2>3. code' # {} => Names(code)' = CodeNames
    <3>1. CASE QRcode_new
      <4>1. Names(masked) = {"masked"} /\ code = {}
        BY <1>2, <3>1 DEF QRcode_new, Listed, Live
      <4>2. code' = {} \/ code' = masked \cup Block("qrcode")
        BY <3>1, <4>1 DEF QRcode_new
      <4>3. Names(masked \cup Block("qrcode")) = {"masked", "qrcode"}
        <5>1. Names(Block("qrcode")) = {"qrcode"}
          BY DEF Names, Block
        <5>2. Names(masked \cup Block("qrcode")) = Names(masked) \cup Names(Block("qrcode"))
          BY DEF Names
        <5> QED
          BY <4>1, <5>1, <5>2
      <4> QED
        BY <4>2, <4>3 DEF CodeNames, Names
    <3>2. CASE ~QRcode_new
      <4>1. UNCHANGED code
        BY <1>11, <3>2 DEF GetByteStreamReturns, NewEcccode, NewRsblock, NewFrame,
           FillFrame,
           MaskFrame, Exit
      <4> QED
        BY <1>2, <4>1 DEF Listed, Names
    <3> QED
      BY <3>1, <3>2
  <2>4. pc \in Producing /\ pc' \in OfSymbol
    BY <2>1 DEF Producing
  <2>5. Plain(Len(codes)) => objversion' = version /\ pc' # "stream"
    BY <1>2, <2>1, <2>4 DEF KeepsVersion
  <2> QED
    BY <1>2, <2>1, <2>2, <2>3, <2>4, <2>5, MakingKeeps
<1>12. CASE NewEntry
  BY <1>2, <1>12, NewEntryLists
<1>13. CASE AddToList
  BY <1>2, <1>13, AddToListLists
<1>14. CASE GiveToCaller
  BY <1>14 DEF GiveToCaller
<1> QED
  BY <1>5, <1>6, <1>7, <1>8, <1>9, <1>10, <1>11, <1>12, <1>13, <1>14 DEF CallNext

(* A list of symbols is complete or there is none: a call that returns one  *)
(* split its input to the end and made each member a whole symbol, and the  *)
(* version of each is the one asked for, because what the split kept free   *)
(* for the header is enough for it.                                         *)
THEOREM MakesWholeList == CallSpec => []ListComplete
<1>1. MInv /\ ListInv => ListComplete
  <2> SUFFICES ASSUME MInv, ListInv, pc = "returned", Structured, codes # <<>> PROVE ListComplete
    BY DEF ListComplete
  <2>1. /\ Len(codes) = symbols /\ status = "done" /\ \A k \in 1..Len(codes) : Whole(k)
    BY DEF ListInv, Listed, Producing, OfSymbol, OfStream
  <2>2. DOMAIN codes = 1..Len(codes) /\ {"entry"} \cup CodeNames = {"entry", "masked", "qrcode"}
    BY DEF MInv, Kinds, CodeNames
  <2> QED
    BY <2>1, <2>2 DEF ListComplete, Whole, Names, Plain
<1> QED
  BY <1>1, InitListInv, TallyInductive, ListInductive, InitMInv, MInvInductive, InitSInv,
     SInvInductive, CallInvariance, PTL DEF CallSpec
=============================================================================
