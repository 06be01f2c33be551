---------------------------- MODULE MCEntryPoints ----------------------------
(* EntryPoints with the real sizes: lists of symbols for inputs of up to    *)
(* three chunks, from part of a symbol to more than sixteen; one symbol for *)
(* those of one chunk; and Micro QR symbols from every version on, also     *)
(* from one that does not exist.  What EntryPoints and StructSplit assume   *)
(* of the real functions is evaluated at every version and level, for a     *)
(* chunk of any mode that can be cut and of any size that fits.             *)
EXTENDS EntryPoints, BitCounts

CONSTANT ShortSizes, LongSizes

Even(n) == n + (n % 2)
EntriesOf(sizes) == {Entry(m, n) : m \in {"NUM", "AN", "B8"}, n \in sizes}
                      \cup {Entry("KANJI", Even(n)) : n \in sizes}
Short  == EntriesOf(ShortSizes) \cup {ECIEntry(1)}
Long   == EntriesOf(LongSizes)
MCInputs == {<<>>} \cup {<<x>> : x \in Short \cup Long} \cup {<<x, y>> : x, y \in Short \cup Long}
                   \cup {<<x, y, z>> : x, y, z \in Short}
MCSpecs  == {<<1, 3>>, <<1, 0>>, <<10, 0>>}  \* 1-H, 1-L, 10-L

MicroTexts == {<<Entry("NUM", n)>> : n \in {1, 5, 6, 10, 23, 35, 36}}
                \cup {<<Entry("AN", n)>> : n \in {6, 7, 21}} \cup {<<Entry("B8", n)>> : n \in {9, 10, 15}}
                \cup {<<Entry("KANJI", 6), Entry("NUM", 4)>>, <<>>}

Call(kind, list, v, l) == [kind |-> kind, input |-> list, version |-> v, level |-> l]
MCCalls ==
  {Call("structured", list, s[1], s[2]) : list \in Inputs, s \in Specs}
    \cup {Call("structured", list, 0, 0) : list \in {<<Entry("B8", 4)>>}}
    \cup {Call("single", list, v, l) : list \in {x \in Inputs : Len(x) < 2}, v \in {0, 1, 10}, l \in {0, 3}}
    \cup {Call("single", <<Entry("B8", 4)>>, s[1], s[2]) : s \in {<<41, 0>>, <<1, 4>>}}
    \cup {Call("micro", list, v, l) : list \in MicroTexts, v \in 0..5, l \in 0..3}

MCEncodable(d, v) == \A i \in DOMAIN d[2] : EncodableMQR(d[2][i], v)
-----------------------------------------------------------------------------
AllSpecs == (1..QRSPEC_VERSION_MAX) \X (0..3)
\* The first version of each length field, and 0 where a search begins.
Starts == {0, 10, 27}
StartOf(v) == IF v < 10 THEN 0 ELSE IF v < 27 THEN 10 ELSE 27
FieldOf(m, v) == QRspec_lengthIndicator(m, IF v = 0 THEN 1 ELSE v)

\* More than fits a symbol of the spec, by one character at least.
Largest(m, s) == LET room == MaximumBits(s)
                 IN  CASE m = "NUM" -> (room \div 10) * 3 + 3 [] m = "AN"    -> (room \div 11) * 2 + 2
                       [] m = "B8"  -> room \div 8 + 1         [] m = "KANJI" -> (room \div 13) * 2 + 2

ASSUME RealLengthFields ==
  \A m \in Splittable, v \in 0..QRSPEC_VERSION_MAX : FieldOf(m, v) = FieldOf(m, StartOf(v))
ASSUME RealCapacities ==
  \A s \in AllSpecs : s[1] < QRSPEC_VERSION_MAX => RoomToSpare(s)
ASSUME RealEstimates ==
  \A s \in AllSpecs, m \in Splittable : \A n \in 1..Largest(m, s) :
    LET x == Entry(m, n)
    IN  WholeUnits(x, n) => /\ EstimateNear(x, s, {p \in Starts : p <= s[1]})
                            /\ EstimateSafe(x, s)
ASSUME RealRooms ==
  \A s \in AllSpecs, m \in Splittable :
    LET c == Entry(m, Largest(m, s))
    IN  SymbolHoldsSome(c, s) /\ (s[2] = 0 => \A room \in 0..MaximumBits(s) : AnswerFits(c, s, room))
=============================================================================
