-------------------------- MODULE SplitStringProofs --------------------------
(***************************************************************************)
(* Theorems of SplitString, for every string, hint and version: the chunks *)
(* are the text, all of them are accepted, and no Kanji character is lost. *)
(***************************************************************************)
EXTENDS SplitString, WellFoundedInduction, SequenceTheorems, TLAPS

-----------------------------------------------------------------------------
(* Loops.  A turn never leads back or out of the places from a to b.        *)
Advances(next, a, b) ==
  a \in Nat /\ b \in Nat /\ next \in [a..b -> a..b] /\ \A p \in a..b : next[p] >= p

\* S is a loop invariant, as a set of places.
Kept(next, S) == \A p \in S : next[p] \in S

LEMMA LeastElement ==
  ASSUME NEW S, S \subseteq Nat, S # {}
  PROVE  \E m \in S : \A v \in S : m <= v
<1> DEFINE R == OpToRel(<, Nat)
<1>1. \E m \in S : \A v \in S : <<v, m>> \notin R
  BY NatLessThanWellFounded, WFMin, Zenon
<1>2. \A v, m \in Nat : <<v, m>> \notin R => m <= v
  BY DEF OpToRel
<1> QED
  BY <1>1, <1>2

(* The recursive function of Visited exists: the places visited from p are  *)
(* those in every invariant that holds at p.                                *)
LEMMA PathExists ==
  ASSUME NEW a, NEW b, NEW next, Advances(next, a, b)
  PROVE  \E path : path = [p \in DOMAIN next |-> IF next[p] = p THEN {p} ELSE {p} \cup path[next[p]]]
<1> DEFINE D == a..b
           F == [p \in D |-> {x \in D : \A S \in SUBSET D : p \in S /\ Kept(next, S) => x \in S}]
<1>1. DOMAIN next = D /\ \A p \in D : next[p] \in D
  BY DEF Advances
<1> HIDE DEF D
<1>2. ASSUME NEW p \in D PROVE p \in F[p] /\ F[p] \in SUBSET D /\ Kept(next, F[p])
  BY <1>1 DEF Kept
<1>3. ASSUME NEW p \in D PROVE F[p] \subseteq {p} \cup F[next[p]]
  <2> DEFINE S == {p} \cup F[next[p]]
  <2>1. S \in SUBSET D /\ p \in S /\ Kept(next, S)
    BY <1>1, <1>2 DEF Kept
  <2> HIDE DEF S
  <2>2. \A x \in F[p] : x \in S
    BY <2>1
  <2> QED
    BY <2>2 DEF S
<1>4. ASSUME NEW p \in D PROVE F[next[p]] \subseteq F[p]
  BY <1>1 DEF Kept
<1>5. ASSUME NEW p \in D, next[p] = p PROVE F[p] = {p}
  <2>1. {p} \in SUBSET D /\ Kept(next, {p})
    BY <1>5 DEF Kept
  <2>2. F[p] \subseteq {p}
    BY <2>1
  <2> QED
    BY <1>2, <2>2
<1>6. \A p \in D : F[p] = IF next[p] = p THEN {p} ELSE {p} \cup F[next[p]]
  BY <1>2, <1>3, <1>4, <1>5
<1>7. F = [p \in DOMAIN next |-> IF next[p] = p THEN {p} ELSE {p} \cup F[next[p]]]
  <2>1. F = [p \in D |-> F[p]]
    OBVIOUS
  <2> HIDE DEF F
  <2> QED
    BY <1>1, <1>6, <2>1
<1> QED
  BY <1>7

LEMMA VisitedUnfolds ==
  ASSUME NEW a, NEW b, NEW next, Advances(next, a, b), NEW p \in a..b
  PROVE  /\ next[p] \in a..b
         /\ Visited(next, p) = IF next[p] = p THEN {p} ELSE {p} \cup Visited(next, next[p])
<1> DEFINE Is(f) == f = [q \in DOMAIN next |-> IF next[q] = q THEN {q} ELSE {q} \cup f[next[q]]]
           path == CHOOSE f : Is(f)
<1>1. path = [q \in DOMAIN next |-> IF next[q] = q THEN {q} ELSE {q} \cup path[next[q]]]
  <2>1. \E f : Is(f)
    BY PathExists
  <2> HIDE DEF Is
  <2>2. Is(path)
    BY <2>1
  <2> QED
    BY <2>2 DEF Is
<1>2. \A q : Visited(next, q) = path[q]
  BY DEF Visited
<1> HIDE DEF path
<1>3. DOMAIN next = a..b /\ next[p] \in a..b
  BY DEF Advances
<1> QED
  BY <1>1, <1>2, <1>3

(* What a loop visits from p: places from p on, each turn's result, nothing *)
(* that a turn skips, and only what every invariant contains; and it ends.  *)
Trace(next, b, p) ==
  /\ p \in Visited(next, p) /\ Visited(next, p) \subseteq p..b
  /\ Kept(next, Visited(next, p))
  /\ \A x, y \in Visited(next, p) : y <= x \/ y >= next[x]
  /\ \E x \in Visited(next, p) : next[x] = x

LEMMA Traces ==
  ASSUME NEW a, NEW b, NEW next, Advances(next, a, b), NEW S, S \subseteq a..b, Kept(next, S)
  PROVE  \A p \in a..b : Trace(next, b, p) /\ (p \in S => Visited(next, p) \subseteq S)
<1> DEFINE Good(p) == Trace(next, b, p) /\ (p \in S => Visited(next, p) \subseteq S)
           Bad == {d \in Nat : b - d \in a..b /\ ~Good(b - d)}
<1>1. a \in Nat /\ b \in Nat /\ \A p \in a..b : next[p] \in a..b /\ next[p] >= p
  BY DEF Advances
<1>2. ASSUME NEW p \in a..b, next[p] = p PROVE Good(p)
  <2>1. Visited(next, p) = {p}
    BY <1>2, VisitedUnfolds
  <2> QED
    BY <1>1, <1>2, <2>1 DEF Trace, Kept
<1>3. ASSUME NEW p \in a..b, next[p] # p, Good(next[p]) PROVE Good(p)
  <2> DEFINE r == next[p]
  <2>1. /\ Visited(next, p) = {p} \cup Visited(next, r) /\ r \in a..b /\ r > p
        /\ Visited(next, r) \subseteq r..b /\ r \in Visited(next, r)
    BY <1>1, <1>3, VisitedUnfolds DEF Trace
  <2>2. p \in Visited(next, p) /\ Visited(next, p) \subseteq p..b
    BY <1>1, <2>1
  <2>3. Kept(next, Visited(next, p))
    BY <1>3, <2>1 DEF Trace, Kept
  <2>4. \A y \in Visited(next, r) : y >= r /\ y \in Int
    BY <1>1, <2>1
  <2>5. ASSUME NEW x \in Visited(next, p), NEW y \in Visited(next, p) PROVE y <= x \/ y >= next[x]
    <3>1. CASE x = p
      BY <1>1, <2>1, <2>4, <3>1
    <3>2. CASE x # p /\ y = p
      BY <1>1, <2>1, <2>4, <3>2
    <3>3. CASE x # p /\ y # p
      BY <1>3, <2>1, <3>3 DEF Trace
    <3> QED
      BY <3>1, <3>2, <3>3
  <2>6. \E x \in Visited(next, p) : next[x] = x
    BY <1>3, <2>1 DEF Trace
  <2>7. p \in S => Visited(next, p) \subseteq S
    BY <1>3, <2>1 DEF Kept
  <2> QED
    BY <2>2, <2>3, <2>5, <2>6, <2>7 DEF Trace
<1>4. ASSUME Bad # {} PROVE FALSE
  <2>1. PICK d \in Bad : \A e \in Bad : d <= e
    BY <1>4, LeastElement
  <2> DEFINE p == b - d
  <2>2. p \in a..b /\ ~Good(p) /\ d \in Nat
    BY <2>1
  <2>3. next[p] # p
    BY <1>2, <2>2
  <2>4. next[p] \in a..b /\ next[p] > p
    BY <1>1, <2>2, <2>3
  <2>5. b - next[p] \in Nat /\ b - (b - next[p]) = next[p] /\ ~(d <= b - next[p])
    BY <1>1, <2>2, <2>4
  <2> HIDE DEF Good
  <2>6. Good(next[p])
    <3>1. b - next[p] \notin Bad
      BY <2>1, <2>5
    <3> QED
      BY <2>4, <2>5, <3>1
  <2> USE DEF Good
  <2> QED
    BY <1>3, <2>2, <2>3, <2>6
<1>5. ASSUME NEW p \in a..b PROVE Good(p)
  <2>1. b - p \in Nat /\ b - (b - p) = p
    BY <1>1
  <2> HIDE DEF Good
  <2>2. b - p \notin Bad
    BY <1>4
  <2> QED
    BY <2>1, <2>2
<1> QED
  BY <1>5

(* What is needed of it: where the loop ends, and what it keeps.            *)
Loops(next, p, b, S) == Advances(next, p, b) /\ S \subseteq p..b /\ p \in S /\ Kept(next, S)

LEMMA LoopEnds ==
  ASSUME NEW next, NEW p, NEW b, NEW S, Loops(next, p, b, S)
  PROVE  LoopEnd(next, p) \in S /\ next[LoopEnd(next, p)] = LoopEnd(next, p)
<1>1. Trace(next, b, p) /\ Visited(next, p) \subseteq S
  BY Traces DEF Loops
<1>2. \E x \in Visited(next, p) : next[x] = x
  BY <1>1 DEF Trace
<1>3. LoopEnd(next, p) \in Visited(next, p) /\ next[LoopEnd(next, p)] = LoopEnd(next, p)
  BY <1>2 DEF LoopEnd
<1> QED
  BY <1>1, <1>3
-----------------------------------------------------------------------------
(* Bytes and modes.                                                         *)
Text == Seq(1..255)
ChunkModes == {"NUM", "AN", "KANJI", "B8"}
M(s, p, hnt) == Split_identifyMode(s, p, hnt)

LEMMA Reading ==
  ASSUME NEW s \in Text
  PROVE  /\ Len(s) \in Nat
         /\ \A p \in Nat \ {0} : /\ p <= Len(s) => At(s, p) \in 1..255 /\ At(s, p) = s[p]
                                 /\ p > Len(s) => At(s, p) = 0
<1>1. Len(s) \in Nat
  BY DEF Text
<1>2. \A p \in 1..Len(s) : s[p] \in 1..255
  BY ElementOfSeq DEF Text
<1>3. ASSUME NEW p \in Nat \ {0}, p <= Len(s) PROVE At(s, p) \in 1..255 /\ At(s, p) = s[p]
  <2>1. p \in 1..Len(s) /\ At(s, p) = s[p]
    BY <1>1, <1>3 DEF At
  <2> QED
    BY <1>2, <2>1
<1>4. \A p \in Nat \ {0} : p > Len(s) => At(s, p) = 0
  BY <1>1 DEF At
<1> QED
  BY <1>1, <1>3, <1>4

LEMMA ModeOf ==
  ASSUME NEW s \in Text, NEW p \in Nat \ {0}, NEW hnt
  PROVE  /\ M(s, p, hnt) \in ChunkModes \cup {"NUL"}
         /\ M(s, p, hnt) = "NUL" <=> p > Len(s)
         /\ M(s, p, hnt) = "NUM" <=> At(s, p) \in Digits
         /\ M(s, p, hnt) \in {"NUM", "AN"} <=> At(s, p) \in Alnums
         /\ M(s, p, hnt) = "KANJI" => p + 1 <= Len(s) /\ IsKanji(At(s, p) * 256 + At(s, p + 1))
<1>1. 0 \notin Alnums /\ Digits \subseteq Alnums /\ 0 \notin Digits
  BY DEF Alnums, Digits
<1>2. At(s, p) = 0 <=> p > Len(s)
  <2>1. Len(s) \in Nat /\ (p <= Len(s) \/ p > Len(s)) /\ 0 \notin 1..255
    BY Reading
  <2>2. p <= Len(s) => At(s, p) \in 1..255
    BY Reading
  <2>3. p > Len(s) => At(s, p) = 0
    BY Reading
  <2> QED
    BY <2>1, <2>2, <2>3
<1>3. At(s, p + 1) # 0 => p + 1 <= Len(s)
  BY Reading
<1> HIDE DEF Alnums, Digits, IsKanji
<1> QED
  BY <1>1, <1>2, <1>3 DEF M, Split_identifyMode, IsDigit, IsAlnum, ChunkModes

(* A loop over bytes of one class stops behind the last of them.            *)
LEMMA ClassRun ==
  ASSUME NEW s \in Text, NEW p \in 1..Len(s) + 1, NEW class, class \subseteq 1..255
  PROVE  LET e == LoopEnd(ClassTurn(s, p, class), p)
         IN  /\ e \in p..Len(s) + 1 /\ At(s, e) \notin class
             /\ \A r \in p..e - 1 : At(s, r) \in class
             /\ At(s, p) \in class => e > p
<1> DEFINE next == ClassTurn(s, p, class)
           e == LoopEnd(next, p)
           S == {q \in p..Len(s) + 1 : \A r \in p..q - 1 : At(s, r) \in class}
<1>1. Len(s) \in Nat /\ p \in Nat \ {0} /\ p <= Len(s) + 1
  BY Reading
<1>2. \A r \in p..Len(s) + 2 : At(s, r) \in class => r <= Len(s)
  BY <1>1, Reading
<1>3. \A r \in p..Len(s) + 2 : next[r] = IF At(s, r) \in class THEN r + 1 ELSE r
  BY DEF ClassTurn, Places
<1>4. Advances(next, p, Len(s) + 2)
  <2>1. next = [r \in p..Len(s) + 2 |-> IF At(s, r) \in class THEN r + 1 ELSE r]
    BY DEF ClassTurn, Places
  <2> HIDE DEF next
  <2>2. next \in [p..Len(s) + 2 -> p..Len(s) + 2]
    BY <1>1, <1>2, <2>1
  <2> QED
    BY <1>1, <1>3, <2>2 DEF Advances
<1> HIDE DEF next
<1>5. Kept(next, S)
  <2>1. ASSUME NEW q \in S, At(s, q) \in class PROVE q + 1 \in S
    <3>1. q + 1 \in p..Len(s) + 1
      BY <1>1, <1>2, <2>1
    <3>2. \A r \in p..q + 1 - 1 : r \in p..q - 1 \/ r = q
      BY <1>1
    <3> QED
      BY <2>1, <3>1, <3>2
  <2>2. S \subseteq p..Len(s) + 2
    BY <1>1
  <2> HIDE DEF S
  <2> QED
    BY <1>3, <2>1, <2>2 DEF Kept
<1>6. p \in S /\ S \subseteq p..Len(s) + 2 /\ p \in p..Len(s) + 2
  BY <1>1
<1>7. e \in S /\ next[e] = e
  <2> HIDE DEF S
  <2>1. Loops(next, p, Len(s) + 2, S)
    BY <1>4, <1>5, <1>6 DEF Loops
  <2> QED
    BY <2>1, LoopEnds
<1>8. At(s, e) \notin class
  BY <1>1, <1>3, <1>7
<1> QED
  BY <1>1, <1>7, <1>8 DEF next

LEMMA DigitsRun ==
  ASSUME NEW s \in Text, NEW p \in 1..Len(s) + 1
  PROVE  LET e == DigitsEnd(s, p)
         IN  /\ e \in p..Len(s) + 1 /\ At(s, e) \notin Digits
             /\ \A r \in p..e - 1 : At(s, r) \in Digits
             /\ At(s, p) \in Digits => e > p
<1>1. Digits \subseteq 1..255
  BY DEF Digits
<1> QED
  BY <1>1, ClassRun DEF DigitsEnd

LEMMA AlnumRun ==
  ASSUME NEW s \in Text, NEW p \in 1..Len(s) + 1
  PROVE  LET e == AlnumEnd(s, p)
         IN  /\ e \in p..Len(s) + 1 /\ At(s, e) \notin Alnums
             /\ \A r \in p..e - 1 : At(s, r) \in Alnums
             /\ At(s, p) \in Alnums => e > p
<1>1. Alnums \subseteq 1..255
  BY DEF Digits, Alnums
<1> QED
  BY <1>1, ClassRun DEF AlnumEnd
-----------------------------------------------------------------------------
(* The reader from the left.                                                *)
Walk(s, hnt) == Visited(ReadTurn(s, hnt), 1)
\* It stops at q, and finds no Kanji character from p on before q.
Clear(s, hnt, p, q) == q \in Walk(s, hnt) /\ \A r \in p..q - 1 : r \notin Leads(s, hnt)

LEMMA ReadAdvances ==
  ASSUME NEW s \in Text, NEW hnt
  PROVE  /\ Advances(ReadTurn(s, hnt), 1, Len(s) + 2)
         /\ \A p \in 1..Len(s) + 2 :
              ReadTurn(s, hnt)[p] = IF M(s, p, hnt) = "NUL" THEN p
                                    ELSE IF M(s, p, hnt) = "KANJI" THEN p + 2 ELSE p + 1
<1> DEFINE next == ReadTurn(s, hnt)
<1>1. Len(s) \in Nat
  BY Reading
<1>2. next = [p \in 1..Len(s) + 2 |-> IF M(s, p, hnt) = "NUL" THEN p
                                     ELSE IF M(s, p, hnt) = "KANJI" THEN p + 2 ELSE p + 1]
  BY DEF ReadTurn, Places, M
<1>3. \A p \in 1..Len(s) + 2 : /\ M(s, p, hnt) # "NUL" => p <= Len(s)
                               /\ M(s, p, hnt) = "KANJI" => p + 1 <= Len(s)
  BY <1>1, ModeOf
<1> HIDE DEF next
<1>4. next \in [1..Len(s) + 2 -> 1..Len(s) + 2]
  BY <1>1, <1>2, <1>3
<1>5. \A p \in 1..Len(s) + 2 : next[p] >= p
  BY <1>1, <1>2
<1> QED
  BY <1>1, <1>2, <1>4, <1>5 DEF next, Advances

LEMMA Walks ==
  ASSUME NEW s \in Text, NEW hnt
  PROVE  /\ 1 \in Walk(s, hnt) /\ Walk(s, hnt) \subseteq 1..Len(s) + 2
         /\ \A p \in Walk(s, hnt) :
              /\ M(s, p, hnt) = "KANJI" => p + 2 \in Walk(s, hnt) /\ p + 1 \notin Walk(s, hnt)
              /\ M(s, p, hnt) \notin {"NUL", "KANJI"} => p + 1 \in Walk(s, hnt)
<1> DEFINE next == ReadTurn(s, hnt)
<1>1. Len(s) \in Nat /\ 1 \in 1..Len(s) + 2
  BY Reading
<1>2. Trace(next, Len(s) + 2, 1)
  <2>1. Kept(next, {})
    BY DEF Kept
  <2> QED
    BY <1>1, <2>1, ReadAdvances, Traces
<1>3. 1 \in Walk(s, hnt) /\ Walk(s, hnt) \subseteq 1..Len(s) + 2
  BY <1>2 DEF Trace, Walk
<1>4. \A p \in Walk(s, hnt) : next[p] \in Walk(s, hnt)
  BY <1>2 DEF Trace, Walk, Kept
<1>5. \A p, y \in Walk(s, hnt) : y <= p \/ y >= next[p]
  BY <1>2 DEF Trace, Walk
<1> HIDE DEF next
<1>6. ASSUME NEW p \in Walk(s, hnt), M(s, p, hnt) = "KANJI"
      PROVE  p + 2 \in Walk(s, hnt) /\ p + 1 \notin Walk(s, hnt)
  <2>1. p \in Nat /\ next[p] = p + 2
    BY <1>3, <1>6, ReadAdvances DEF next
  <2>2. ~(p + 1 <= p) /\ ~(p + 1 >= p + 2)
    BY <2>1
  <2> QED
    BY <1>4, <1>5, <2>1, <2>2
<1>7. ASSUME NEW p \in Walk(s, hnt), M(s, p, hnt) \notin {"NUL", "KANJI"}
      PROVE  p + 1 \in Walk(s, hnt)
  BY <1>3, <1>4, <1>7, ReadAdvances DEF next
<1> QED
  BY <1>3, <1>6, <1>7

LEMMA LeadsAre ==
  ASSUME NEW s, NEW hnt, NEW p
  PROVE  p \in Leads(s, hnt) <=> p \in Walk(s, hnt) /\ M(s, p, hnt) = "KANJI"
BY DEF Leads, Walk, M

(* It stops at every place of a run that is neither Kanji nor the end.      *)
LEMMA ClearRun ==
  ASSUME NEW s \in Text, NEW hnt, NEW p \in Walk(s, hnt), NEW q \in p..Len(s) + 1,
         \A r \in p..q - 1 : M(s, r, hnt) \notin {"NUL", "KANJI"}
  PROVE  Clear(s, hnt, p, q)
<1> DEFINE T == {r \in p..q : r \notin Walk(s, hnt)}
<1>1. p \in Nat /\ q \in Nat /\ p <= q
  BY Walks, Reading
<1>2. ASSUME T # {} PROVE FALSE
  <2>1. T \subseteq Nat
    BY <1>1
  <2>2. PICK m \in T : \A v \in T : m <= v
    BY <1>2, <2>1, LeastElement
  <2>3. m \in p..q /\ m # p
    OBVIOUS
  <2>4. m - 1 \in p..q - 1 /\ m - 1 \in p..q /\ m - 1 + 1 = m /\ ~(m <= m - 1)
    BY <1>1, <2>3
  <2>5. m - 1 \in Walk(s, hnt)
    BY <2>2, <2>4
  <2>6. m \in Walk(s, hnt)
    BY <2>4, <2>5, Walks
  <2> QED
    BY <2>6
<1>3. q \in Walk(s, hnt)
  BY <1>1, <1>2
<1> QED
  BY <1>3, LeadsAre DEF Clear

LEMMA ClearJoins ==
  ASSUME NEW s, NEW hnt, NEW p \in Nat, NEW q \in Nat, NEW r \in Nat,
         Clear(s, hnt, p, q), Clear(s, hnt, q, r)
  PROVE  Clear(s, hnt, p, r)
<1>1. \A x \in p..r - 1 : x \in p..q - 1 \/ x \in q..r - 1
  OBVIOUS
<1> QED
  BY <1>1 DEF Clear
-----------------------------------------------------------------------------
(* Costs: where alphanumeric mode leaves digits to numeric mode, and where  *)
(* numeric mode leaves them to alphanumeric mode, exclude each other.       *)
AnBetter(n, h) == Num(n) + h + An(1) - An(n + 1) > 0

LEMMA NumHead ==
  ASSUME NEW ver \in 0..QRSPEC_VERSION_MAX
  PROVE  HeadBits("NUM", ver) \in Nat /\ HeadBits("NUM", ver) >= 4
<1>1. QRspec_lengthIndicator("NUM", ver) \in {10, 12, 14}
  BY DEF QRspec_lengthIndicator, Splittable, lengthTableBits, Group, QRSPEC_VERSION_MAX
<1> QED
  BY <1>1 DEF HeadBits

LEMMA AnOf ==
  ASSUME NEW a \in Nat, NEW b \in {0, 1}
  PROVE  An(2 * a + b) = 11 * a + 6 * b
<1>1. (2 * a + b) \div 2 = a /\ (2 * a + b) % 2 = b
  OBVIOUS
<1> QED
  BY <1>1 DEF An, QRinput_estimateBitsModeAn

LEMMA Halves == \A n \in Nat : \E a \in Nat, b \in {0, 1} : n = 2 * a + b
<1> SUFFICES ASSUME NEW n \in Nat PROVE \E a \in Nat, b \in {0, 1} : n = 2 * a + b
  OBVIOUS
<1>1. n \div 2 \in Nat /\ n % 2 \in {0, 1} /\ n = 2 * (n \div 2) + (n % 2)
  OBVIOUS
<1> QED
  BY <1>1

LEMMA Estimates ==
  ASSUME NEW n \in Nat, NEW x \in Nat
  PROVE  /\ Num(n) \in Nat /\ An(n) \in Nat /\ An(x) \in Nat /\ An(x + n) \in Nat /\ An(n + 1) \in Nat
         /\ An(0) = 0 /\ An(1) = 6
         /\ An(x + n) - An(x) <= An(n + 1) - 5
         /\ An(n) <= An(n + 1) - 5
<1>1. Num(n) \in Nat
  <2>1. n \div 3 \in Nat /\ n % 3 \in 0..2
    OBVIOUS
  <2>2. <<0, 4, 7>>[(n % 3) + 1] \in Nat
    <3>1. (n % 3) + 1 \in 1..3
      BY <2>1
    <3> QED
      BY <3>1
  <2> QED
    BY <2>1, <2>2 DEF Num, QRinput_estimateBitsModeNum
<1>2. PICK a \in Nat, b \in {0, 1} : n = 2 * a + b
  BY Halves
<1>3. PICK c \in Nat, d \in {0, 1} : x = 2 * c + d
  BY Halves
<1>4. An(n) = 11 * a + 6 * b /\ An(x) = 11 * c + 6 * d
  BY <1>2, <1>3, AnOf
<1>5. An(0) = 0 /\ An(1) = 6
  BY DEF An, QRinput_estimateBitsModeAn
<1>6. An(n + 1) = IF b = 0 THEN 11 * a + 6 ELSE 11 * a + 11
  <2>1. CASE b = 0
    <3>1. n + 1 = 2 * a + 1
      BY <1>2, <2>1
    <3>2. An(2 * a + 1) = 11 * a + 6 * 1
      BY AnOf
    <3> QED
      BY <2>1, <3>1, <3>2
  <2>2. CASE b = 1
    <3>1. n + 1 = 2 * (a + 1) + 0 /\ a + 1 \in Nat
      BY <1>2, <2>2
    <3>2. An(2 * (a + 1) + 0) = 11 * (a + 1) + 6 * 0
      BY <3>1, AnOf
    <3> QED
      BY <2>2, <3>1, <3>2
  <2> QED
    BY <2>1, <2>2
<1>7. An(x + n) = IF b = 1 /\ d = 1 THEN 11 * (a + c) + 11 ELSE 11 * (a + c) + 6 * (b + d)
  <2>1. CASE b = 1 /\ d = 1
    <3>1. x + n = 2 * (a + c + 1) + 0 /\ a + c + 1 \in Nat
      BY <1>2, <1>3, <2>1
    <3>2. An(2 * (a + c + 1) + 0) = 11 * (a + c + 1) + 6 * 0
      BY <3>1, AnOf
    <3> QED
      BY <2>1, <3>1, <3>2
  <2>2. CASE ~(b = 1 /\ d = 1)
    <3>1. x + n = 2 * (a + c) + (b + d) /\ a + c \in Nat /\ b + d \in {0, 1}
      BY <1>2, <1>3, <2>2
    <3>2. An(2 * (a + c) + (b + d)) = 11 * (a + c) + 6 * (b + d)
      BY <3>1, AnOf
    <3> QED
      BY <2>2, <3>1, <3>2
  <2> QED
    BY <2>1, <2>2
<1>8. An(x) \in Nat /\ An(n) \in Nat /\ An(x + n) \in Nat /\ An(n + 1) \in Nat
  BY <1>4, <1>6, <1>7
<1> QED
  BY <1>1, <1>4, <1>5, <1>6, <1>7, <1>8

LEMMA NoReturn ==
  ASSUME NEW n \in Nat, NEW x \in Nat, NEW h \in Nat, h >= 4
  PROVE  /\ AnBetter(n, h) => ~(An(0) + Num(n) + h + h - An(n) < 0)
         /\ An(x) + Num(n) + h + h - An(x + n) < 0 => ~AnBetter(n, h)
<1> DEFINE a == An(x)  b == An(x + n)  c == An(n)  d == An(n + 1)  e == Num(n)
<1>1. /\ a \in Nat /\ b \in Nat /\ c \in Nat /\ d \in Nat /\ e \in Nat
      /\ b - a <= d - 5 /\ c <= d - 5
  BY Estimates
<1>2. An(0) = 0 /\ AnBetter(n, h) = (e + h + 6 - d > 0)
  BY Estimates DEF AnBetter
<1> HIDE DEF a, b, c, d, e
<1>3. e + h + 6 - d > 0 => ~(0 + e + h + h - c < 0)
  BY <1>1
<1>4. a + e + h + h - b < 0 => ~(e + h + 6 - d > 0)
  BY <1>1
<1> QED
  BY <1>2, <1>3, <1>4 DEF a, b, c, d, e
-----------------------------------------------------------------------------
(* Where each eater's loop ends, when it is called at p.                    *)
LEMMA RunIsClear ==
  ASSUME NEW s \in Text, NEW hnt, NEW p \in 1..Len(s) + 1, NEW q \in p..Len(s) + 1, p \in Walk(s, hnt),
         \A r \in p..q - 1 : At(s, r) \in Alnums
  PROVE  Clear(s, hnt, p, q)
<1>1. ASSUME NEW r \in p..q - 1 PROVE M(s, r, hnt) \notin {"NUL", "KANJI"}
  <2>1. r \in Nat \ {0} /\ At(s, r) \in Alnums
    BY Reading
  <2> QED
    BY <2>1, ModeOf
<1> QED
  BY <1>1, ClearRun

LEMMA BytesRun ==
  ASSUME NEW s \in Text, NEW hnt, NEW ver, NEW p \in Walk(s, hnt), p <= Len(s), M(s, p, hnt) # "KANJI"
  PROVE  BytesEnd(s, p, hnt, ver) \in p + 1..Len(s) + 1 /\ Clear(s, hnt, p, BytesEnd(s, p, hnt, ver))
<1> DEFINE next == BytesTurn(s, p, hnt, ver)
           N == Len(s)
           S == {p} \cup {q \in p + 1..N + 1 : Clear(s, hnt, p, q)}
<1>1. N \in Nat /\ p \in Nat \ {0} /\ p <= N /\ p \in 1..N + 1
  BY Reading, Walks
<1> DEFINE turn(r) == LET mode == M(s, r, hnt)
                          n    == DigitsEnd(s, r)
                          a    == AlnumEnd(s, r)
                      IN  CASE r = p -> r + 1
                            [] r # p /\ mode \in {"NUL", "KANJI"} -> r
                            [] r # p /\ mode = "NUM" ->
                                 IF StaysInBytes(s, p, r, n, Num(n - r), "NUM", hnt, ver) THEN n ELSE r
                            [] r # p /\ mode = "AN" ->
                                 IF StaysInBytes(s, p, r, a, An(a - r), "AN", hnt, ver) THEN a ELSE r
                            [] r # p /\ mode = "B8" -> r + 1
<1>0. next = [r \in p..N + 2 |-> turn(r)]
  BY DEF BytesTurn, Places, M
<1> HIDE DEF next
<1>2. next[p] = p + 1
  BY <1>0, <1>1
<1>3. ASSUME NEW r \in p + 1..N + 2
      PROVE  \/ next[r] = r
             \/ M(s, r, hnt) = "NUM" /\ next[r] = DigitsEnd(s, r)
             \/ M(s, r, hnt) = "AN" /\ next[r] = AlnumEnd(s, r)
             \/ M(s, r, hnt) = "B8" /\ next[r] = r + 1
  <2>1. r \in p..N + 2 /\ r # p /\ r \in Nat \ {0}
    BY <1>1
  <2>2. M(s, r, hnt) \in {"NUL", "NUM", "AN", "KANJI", "B8"}
    BY <2>1, ModeOf DEF ChunkModes
  <2>3. next[r] = turn(r)
    <3> HIDE DEF turn
    <3> QED
      BY <1>0, <2>1
  <2> QED
    BY <2>1, <2>2, <2>3
<1>4. ASSUME NEW r \in p + 1..N + 2, next[r] # r
      PROVE  /\ r \in p + 1..N + 1 /\ next[r] \in r + 1..N + 1
             /\ r \in Walk(s, hnt) => Clear(s, hnt, r, next[r])
  <2>1. r \in Nat \ {0}
    BY <1>1
  <2>2. r <= N
    BY <1>1, <1>3, <1>4, <2>1, ModeOf
  <2>3. r \in 1..N + 1
    BY <1>1, <2>1, <2>2
  <2>4. CASE M(s, r, hnt) = "NUM" /\ next[r] = DigitsEnd(s, r)
    <3> DEFINE e == DigitsEnd(s, r)
    <3>1. At(s, r) \in Digits
      BY <2>1, <2>4, ModeOf
    <3>2. e \in r..N + 1 /\ e > r /\ \A x \in r..e - 1 : At(s, x) \in Alnums
      BY <2>3, <3>1, DigitsRun DEF Alnums
    <3> HIDE DEF e
    <3>3. r \in Walk(s, hnt) => Clear(s, hnt, r, e)
      BY <2>3, <3>2, RunIsClear
    <3> QED
      BY <1>1, <2>2, <2>3, <2>4, <3>2, <3>3 DEF e
  <2>5. CASE M(s, r, hnt) = "AN" /\ next[r] = AlnumEnd(s, r)
    <3> DEFINE e == AlnumEnd(s, r)
    <3>1. At(s, r) \in Alnums
      BY <2>1, <2>5, ModeOf
    <3>2. e \in r..N + 1 /\ e > r /\ \A x \in r..e - 1 : At(s, x) \in Alnums
      BY <2>3, <3>1, AlnumRun
    <3> HIDE DEF e
    <3>3. r \in Walk(s, hnt) => Clear(s, hnt, r, e)
      BY <2>3, <3>2, RunIsClear
    <3> QED
      BY <1>1, <2>2, <2>3, <2>5, <3>2, <3>3 DEF e
  <2>6. CASE M(s, r, hnt) = "B8" /\ next[r] = r + 1
    <3>1. r + 1 \in r..N + 1 /\ \A x \in r..r + 1 - 1 : x = r
      BY <1>1, <2>2, <2>3
    <3>2. r \in Walk(s, hnt) => Clear(s, hnt, r, r + 1)
      BY <2>6, <3>1, ClearRun
    <3> QED
      BY <1>1, <2>2, <2>3, <2>6, <3>1, <3>2
  <2> QED
    BY <1>3, <1>4, <2>4, <2>5, <2>6
<1>5. Clear(s, hnt, p, p + 1) /\ p + 1 \in p + 1..N + 1
  <2>1. p + 1 \in p..N + 1 /\ (\A x \in p..p + 1 - 1 : x = p) /\ M(s, p, hnt) # "NUL"
    BY <1>1, ModeOf
  <2> QED
    BY <1>1, <2>1, ClearRun
<1>6. Advances(next, p, N + 2)
  <2>1. DOMAIN next = p..N + 2 /\ next = [r \in p..N + 2 |-> next[r]]
    <3> HIDE DEF turn
    <3> QED
      BY <1>0
  <2>2. \A r \in p..N + 2 : next[r] \in p..N + 2 /\ next[r] >= r
    <3>1. ASSUME NEW r \in p..N + 2 PROVE next[r] \in p..N + 2 /\ next[r] >= r
      <4>1. CASE r = p
        BY <1>1, <1>2, <4>1
      <4>2. CASE r # p /\ next[r] = r
        BY <1>1, <4>2
      <4>3. CASE r # p /\ next[r] # r
        <5>1. r \in p + 1..N + 2
          BY <1>1, <4>3
        <5>2. next[r] \in r + 1..N + 1
          BY <1>4, <4>3, <5>1
        <5> QED
          BY <1>1, <5>1, <5>2
      <4> QED
        BY <4>1, <4>2, <4>3
    <3> QED
      BY <3>1
  <2> QED
    BY <1>1, <2>1, <2>2 DEF Advances
<1>7. Kept(next, S)
  <2>1. ASSUME NEW q \in S PROVE next[q] \in S
    <3>1. CASE q = p
      BY <1>2, <1>5, <3>1
    <3>2. CASE q # p /\ next[q] = q
      BY <3>2
    <3>3. CASE q # p /\ next[q] # q
      <4>1. q \in p + 1..N + 1 /\ Clear(s, hnt, p, q)
        BY <3>3
      <4>2. q \in p + 1..N + 2 /\ q \in Walk(s, hnt) /\ q \in Nat
        BY <1>1, <4>1 DEF Clear
      <4>3. next[q] \in q + 1..N + 1 /\ Clear(s, hnt, q, next[q])
        BY <1>4, <3>3, <4>2
      <4>4. next[q] \in Nat /\ next[q] \in p + 1..N + 1
        BY <1>1, <4>1, <4>3
      <4>5. Clear(s, hnt, p, next[q])
        BY <1>1, <4>1, <4>2, <4>3, <4>4, ClearJoins
      <4> QED
        BY <4>4, <4>5
    <3> QED
      BY <3>1, <3>2, <3>3
  <2> QED
    BY <2>1 DEF Kept
<1>8. Loops(next, p, N + 2, S)
  <2>1. p \in S /\ S \subseteq p..N + 2
    BY <1>1
  <2> QED
    BY <1>6, <1>7, <2>1 DEF Loops
<1> DEFINE e == LoopEnd(next, p)
<1>9. e \in S /\ next[e] = e
  <2> HIDE DEF S
  <2> QED
    BY <1>8, LoopEnds
<1>10. e # p
  BY <1>1, <1>2, <1>9
<1>11. BytesEnd(s, p, hnt, ver) = e
  BY DEF BytesEnd, next
<1> QED
  BY <1>9, <1>10, <1>11

\* What comes where alphanumeric mode ends: no such byte, or digits that
\* numeric mode does not hand back.
NumHeadBits(ver) == HeadBits("NUM", ver)
HandsBack(s, q, ver) ==
  At(s, DigitsEnd(s, q)) \in Alnums /\ AnBetter(DigitsEnd(s, q) - q, NumHeadBits(ver))
AnStops(s, q, ver) == At(s, q) \in Alnums => At(s, q) \in Digits /\ ~HandsBack(s, q, ver)

LEMMA AnRun ==
  ASSUME NEW s \in Text, NEW hnt, NEW ver \in 0..QRSPEC_VERSION_MAX, NEW p \in Walk(s, hnt), p <= Len(s),
         At(s, p) \in Alnums, At(s, p) \in Digits => HandsBack(s, p, ver)
  PROVE  LET e == AnEnd(s, p, ver)
         IN  /\ e \in p + 1..Len(s) + 1 /\ Clear(s, hnt, p, e)
             /\ \A r \in p..e - 1 : At(s, r) \in Alnums
             /\ AnStops(s, e, ver)
<1> DEFINE next == AnTurn(s, p, ver)
           N == Len(s)
           S == {q \in p..N + 1 : \A r \in p..q - 1 : At(s, r) \in Alnums}
           turn(r) == IF At(s, r) \notin Alnums THEN r
                      ELSE IF At(s, r) \notin Digits THEN r + 1
                      ELSE IF LeavesAn(s, p, r, DigitsEnd(s, r), ver) THEN r ELSE DigitsEnd(s, r)
<1>0. next = [r \in p..N + 2 |-> turn(r)]
  BY DEF AnTurn, Places, IsAlnum, IsDigit
<1> HIDE DEF next
<1>1. N \in Nat /\ p \in Nat \ {0} /\ p <= N /\ p \in 1..N + 1
  BY Reading, Walks
<1>2. \A r \in p..N + 2 : r \in Nat \ {0} /\ next[r] = turn(r)
  <2> HIDE DEF turn
  <2> QED
    BY <1>0, <1>1
<1>3. \A r \in p..N + 2 : At(s, r) \in Alnums => r <= N /\ r \in 1..N + 1
  <2>1. 0 \notin Alnums
    BY DEF Alnums, Digits
  <2> QED
    BY <1>1, <2>1, Reading
<1>4. ASSUME NEW r \in p..N + 2, next[r] # r
      PROVE  r \in p..N /\ next[r] \in r + 1..N + 1 /\ \A x \in r..next[r] - 1 : At(s, x) \in Alnums
  <2>1. At(s, r) \in Alnums /\ r <= N /\ r \in 1..N + 1
    BY <1>2, <1>3, <1>4
  <2>2. CASE At(s, r) \notin Digits
    <3>1. next[r] = r + 1 /\ \A x \in r..r + 1 - 1 : x = r
      BY <1>1, <1>2, <2>1, <2>2
    <3> QED
      BY <1>1, <2>1, <3>1
  <2>3. CASE At(s, r) \in Digits
    <3>1. next[r] = DigitsEnd(s, r)
      BY <1>2, <1>4, <2>1, <2>3
    <3>2. /\ DigitsEnd(s, r) \in r..N + 1 /\ DigitsEnd(s, r) > r
          /\ \A x \in r..DigitsEnd(s, r) - 1 : At(s, x) \in Alnums
      BY <2>1, <2>3, DigitsRun DEF Alnums
    <3> QED
      BY <1>1, <2>1, <3>1, <3>2
  <2> QED
    BY <2>2, <2>3
<1>5. Advances(next, p, N + 2)
  <2>1. DOMAIN next = p..N + 2 /\ next = [r \in p..N + 2 |-> next[r]]
    <3> HIDE DEF turn
    <3> QED
      BY <1>0
  <2>2. ASSUME NEW r \in p..N + 2 PROVE next[r] \in p..N + 2 /\ next[r] >= r
    <3>1. CASE next[r] = r
      BY <1>1, <3>1
    <3>2. CASE next[r] # r
      BY <1>1, <1>4, <3>2
    <3> QED
      BY <3>1, <3>2
  <2> QED
    BY <1>1, <2>1, <2>2 DEF Advances
<1>6. Kept(next, S)
  <2>1. ASSUME NEW q \in S, next[q] # q PROVE next[q] \in S
    <3>1. q \in p..N + 2 /\ q \in Nat
      BY <1>1
    <3>2. next[q] \in q + 1..N + 1 /\ \A x \in q..next[q] - 1 : At(s, x) \in Alnums
      BY <1>4, <2>1, <3>1
    <3>3. next[q] \in p..N + 1 /\ \A x \in p..next[q] - 1 : x \in p..q - 1 \/ x \in q..next[q] - 1
      BY <1>1, <3>1, <3>2
    <3> QED
      BY <3>2, <3>3
  <2> HIDE DEF S
  <2> QED
    BY <2>1 DEF Kept
<1>7. Loops(next, p, N + 2, S)
  <2>1. p \in S /\ S \subseteq p..N + 2
    BY <1>1
  <2> QED
    BY <1>5, <1>6, <2>1 DEF Loops
<1> DEFINE e == LoopEnd(next, p)
<1>8. e \in S /\ next[e] = e
  <2> HIDE DEF S
  <2> QED
    BY <1>7, LoopEnds
<1> DEFINE q == DigitsEnd(s, e)
<1>9. e \in p..N + 1 /\ e \in Nat /\ \A r \in p..e - 1 : At(s, r) \in Alnums
  BY <1>1, <1>8
<1> HIDE DEF e, S
<1>10. ASSUME At(s, e) \in Alnums
       PROVE  At(s, e) \in Digits /\ LeavesAn(s, p, e, q, ver) /\ q \in e + 1..N + 1
  <2>1. next[e] = turn(e) /\ e \in 1..N + 1
    BY <1>1, <1>2, <1>9
  <2>2. e + 1 # e
    BY <1>9
  <2>3. At(s, e) \in Digits
    BY <1>8, <1>10, <2>1, <2>2
  <2>4. q \in e + 1..N + 1
    BY <1>1, <1>9, <2>1, <2>3, DigitsRun
  <2>5. q # e
    BY <1>9, <2>4
  <2> HIDE DEF q
  <2>6. LeavesAn(s, p, e, q, ver)
    BY <1>8, <1>10, <2>1, <2>3, <2>5 DEF q
  <2> QED
    BY <2>3, <2>4, <2>6
<1>11. ASSUME At(s, e) \in Alnums, At(s, q) \in Alnums
       PROVE  An(e - p) + Num(q - e) + NumHeadBits(ver) + NumHeadBits(ver) - An((e - p) + (q - e)) < 0
  <2>1. (e - p) + (q - e) = q - p
    BY <1>1, <1>9, <1>10, <1>11
  <2> QED
    BY <1>10, <1>11, <2>1 DEF LeavesAn, IsAlnum, NumHeadBits
<1>12. NumHeadBits(ver) \in Nat /\ NumHeadBits(ver) >= 4
  BY NumHead DEF NumHeadBits
<1>13. AnStops(s, e, ver)
  <2>1. ASSUME At(s, e) \in Alnums, HandsBack(s, e, ver) PROVE FALSE
    <3>1. e - p \in Nat /\ q - e \in Nat
      BY <1>1, <1>9, <1>10, <2>1
    <3>2. At(s, q) \in Alnums /\ AnBetter(q - e, NumHeadBits(ver))
      BY <2>1 DEF HandsBack
    <3> HIDE DEF q
    <3> QED
      BY <1>11, <1>12, <2>1, <3>1, <3>2, NoReturn
  <2> QED
    BY <1>10, <2>1 DEF AnStops
<1>14. e # p
  <2>1. ASSUME e = p PROVE FALSE
    <3>1. At(s, e) \in Alnums /\ HandsBack(s, e, ver)
      BY <1>10, <2>1
    <3> QED
      BY <1>13, <3>1 DEF AnStops
  <2> QED
    BY <2>1
<1>15. Clear(s, hnt, p, e)
  BY <1>1, <1>9, RunIsClear
<1>16. AnEnd(s, p, ver) = e /\ e \in p + 1..N + 1
  BY <1>1, <1>9, <1>14 DEF AnEnd, e, next
<1> QED
  BY <1>9, <1>13, <1>15, <1>16

\* Every other place from p on.
Evens(p) == {r \in Nat : r >= p /\ (r - p) % 2 = 0}

LEMMA KanjiRun ==
  ASSUME NEW s \in Text, NEW hnt, NEW p \in Walk(s, hnt), M(s, p, hnt) = "KANJI"
  PROVE  LET e == LoopEnd(KanjiTurn(s, p, hnt), p)
         IN  /\ e \in p + 1..Len(s) + 1 /\ e \in Evens(p) /\ e \in Walk(s, hnt)
             /\ \A r \in p..e - 1 : r \in Leads(s, hnt) <=> r \in Evens(p)
             /\ M(s, e, hnt) # "KANJI"
<1> DEFINE next == KanjiTurn(s, p, hnt)
           N == Len(s)
           S == {q \in p..N + 1 : /\ q \in Evens(p) /\ q \in Walk(s, hnt)
                                  /\ \A r \in p..q - 1 : r \in Leads(s, hnt) <=> r \in Evens(p)}
<1>0. next = [r \in p..N + 2 |-> IF M(s, r, hnt) = "KANJI" THEN r + 2 ELSE r]
  BY DEF KanjiTurn, Places, M
<1> HIDE DEF next
<1>1. N \in Nat /\ p \in Nat \ {0} /\ p <= N
  BY Reading, Walks, ModeOf
<1>2. \A r \in p..N + 2 : M(s, r, hnt) = "KANJI" => r + 1 <= N
  BY <1>1, ModeOf
<1>3. Advances(next, p, N + 2)
  BY <1>0, <1>1, <1>2 DEF Advances
<1>4. ASSUME NEW q \in S, M(s, q, hnt) = "KANJI" PROVE q + 2 \in S
  <2>1. q \in p..N + 1 /\ q \in Nat /\ q + 1 <= N /\ q + 2 \in p..N + 1
    BY <1>1, <1>2, <1>4
  <2>2. q + 2 \in Evens(p) /\ q + 1 \notin Evens(p) /\ q \in Evens(p)
    BY <1>1, <2>1 DEF Evens
  <2>3. q \in Leads(s, hnt) /\ q + 1 \notin Leads(s, hnt) /\ q + 2 \in Walk(s, hnt)
    BY <1>4, Walks, LeadsAre
  <2>4. ASSUME NEW r \in p..q + 2 - 1 PROVE r \in Leads(s, hnt) <=> r \in Evens(p)
    <3>1. r \in p..q - 1 \/ r = q \/ r = q + 1
      BY <1>1, <2>1
    <3>2. CASE r \in p..q - 1
      BY <3>2
    <3>3. CASE r \in {q, q + 1}
      BY <2>2, <2>3, <3>3
    <3> QED
      BY <3>1, <3>2, <3>3
  <2> QED
    BY <2>1, <2>2, <2>3, <2>4
<1>5. S \subseteq p..N + 2 /\ p \in S
  <2>1. p \in Evens(p) /\ p \in p..N + 1
    BY <1>1 DEF Evens
  <2> QED
    BY <1>1, <2>1
<1>6. Kept(next, S)
  <2> HIDE DEF S
  <2> QED
    BY <1>0, <1>4, <1>5 DEF Kept
<1> DEFINE e == LoopEnd(next, p)
<1>7. e \in S /\ next[e] = e
  <2> HIDE DEF S
  <2>1. Loops(next, p, N + 2, S)
    BY <1>3, <1>5, <1>6 DEF Loops
  <2> QED
    BY <2>1, LoopEnds
<1>8. e \in p..N + 1 /\ M(s, e, hnt) # "KANJI"
  BY <1>0, <1>1, <1>7
<1>9. e \in p + 1..N + 1
  <2>1. e # p
    BY <1>8
  <2> QED
    BY <1>1, <1>8, <2>1
<1>10. LoopEnd(KanjiTurn(s, p, hnt), p) = e
  BY DEF next
<1> QED
  BY <1>7, <1>8, <1>9, <1>10
-----------------------------------------------------------------------------
(* What an eater called at p, a place of the reader, appends.               *)
Stops(s, hnt, ver, mode, q) ==
  /\ mode = "NUM" => At(s, q) \notin Digits
  /\ mode = "KANJI" => M(s, q, hnt) # "KANJI"
  /\ mode = "AN" => AnStops(s, q, ver)

Encodable(s, mode, p, q) ==
  /\ mode = "NUM" => \A r \in p..q - 1 : At(s, r) \in Digits
  /\ mode = "AN" => \A r \in p..q - 1 : At(s, r) \in Alnums
  /\ mode = "KANJI" => q \in Evens(p)

KanjiFound(s, hnt, mode, p, q) ==
  \A r \in p..q - 1 : r \in Leads(s, hnt) <=> mode = "KANJI" /\ r \in Evens(p)

CutOK(s, hnt, ver, mode, p, q) ==
  /\ q \in p + 1..Len(s) + 1 /\ q \in Walk(s, hnt) /\ mode \in ChunkModes
  /\ KanjiFound(s, hnt, mode, p, q) /\ Encodable(s, mode, p, q) /\ Stops(s, hnt, ver, mode, q)

PieceOK(s, hnt, ver, p, piece) ==
  \E q \in Nat : /\ CutOK(s, hnt, ver, piece.mode, p, q)
                 /\ piece.run = q - p

LEMMA ClearFound ==
  ASSUME NEW s, NEW hnt, NEW p, NEW q, NEW mode, mode # "KANJI", Clear(s, hnt, p, q)
  PROVE  KanjiFound(s, hnt, mode, p, q)
BY DEF Clear, KanjiFound

LEMMA Eat8OK ==
  ASSUME NEW s \in Text, NEW hnt, NEW ver, NEW p \in Walk(s, hnt), p <= Len(s), M(s, p, hnt) # "KANJI"
  PROVE  PieceOK(s, hnt, ver, p, Split_eat8(s, p, hnt, ver)) /\ Split_eat8(s, p, hnt, ver).mode = "B8"
<1> DEFINE q == BytesEnd(s, p, hnt, ver)
<1>1. q \in p + 1..Len(s) + 1 /\ Clear(s, hnt, p, q)
  BY BytesRun
<1>2. Split_eat8(s, p, hnt, ver) = [mode |-> "B8", run |-> q - p]
  BY DEF Split_eat8, Piece
<1> HIDE DEF q
<1>3. CutOK(s, hnt, ver, "B8", p, q)
  BY <1>1, ClearFound DEF CutOK, Clear, Encodable, Stops, ChunkModes
<1>4. q \in Nat
  BY <1>1, Walks, Reading
<1> QED
  BY <1>2, <1>3, <1>4 DEF PieceOK

LEMMA EatAnOK ==
  ASSUME NEW s \in Text, NEW hnt, NEW ver \in 0..QRSPEC_VERSION_MAX, NEW p \in Walk(s, hnt), p <= Len(s),
         At(s, p) \in Alnums, At(s, p) \in Digits => HandsBack(s, p, ver)
  PROVE  /\ PieceOK(s, hnt, ver, p, Split_eatAn(s, p, hnt, ver))
         /\ Split_eatAn(s, p, hnt, ver).mode \in {"AN", "B8"}
<1> DEFINE q == AnEnd(s, p, ver)
           piece == Split_eatAn(s, p, hnt, ver)
<1>1. /\ q \in p + 1..Len(s) + 1 /\ Clear(s, hnt, p, q) /\ AnStops(s, q, ver)
      /\ \A r \in p..q - 1 : At(s, r) \in Alnums
  BY AnRun
<1>2. piece = Split_eat8(s, p, hnt, ver) \/ piece = [mode |-> "AN", run |-> q - p]
  BY DEF Split_eatAn, Piece
<1>3. M(s, p, hnt) # "KANJI"
  BY Walks, Reading, ModeOf
<1> HIDE DEF q, piece
<1>4. CutOK(s, hnt, ver, "AN", p, q)
  BY <1>1, ClearFound DEF CutOK, Clear, Encodable, Stops, ChunkModes
<1>5. q \in Nat
  BY <1>1, Walks, Reading
<1>6. CASE piece = Split_eat8(s, p, hnt, ver)
  BY <1>3, <1>6, Eat8OK DEF piece
<1>7. CASE piece = [mode |-> "AN", run |-> q - p]
  <2>1. piece.mode = "AN" /\ piece.run = q - p
    BY <1>7
  <2>2. PieceOK(s, hnt, ver, p, piece)
    BY <1>4, <1>5, <2>1 DEF PieceOK
  <2> QED
    BY <2>1, <2>2 DEF piece
<1> QED
  BY <1>2, <1>6, <1>7

LEMMA EatNumOK ==
  ASSUME NEW s \in Text, NEW hnt, NEW ver \in 0..QRSPEC_VERSION_MAX, NEW p \in Walk(s, hnt), p <= Len(s),
         M(s, p, hnt) = "NUM"
  PROVE  /\ PieceOK(s, hnt, ver, p, Split_eatNum(s, p, hnt, ver))
         /\ Split_eatNum(s, p, hnt, ver).mode \in {"NUM", "AN", "B8"}
         /\ Split_eatNum(s, p, hnt, ver).mode = "AN" => HandsBack(s, p, ver)
<1> DEFINE q == DigitsEnd(s, p)
           piece == Split_eatNum(s, p, hnt, ver)
<1>1. p \in 1..Len(s) + 1 /\ p \in Nat \ {0}
  BY Walks, Reading
<1>2. At(s, p) \in Digits /\ At(s, p) \in Alnums
  BY <1>1, ModeOf
<1>3. q \in p + 1..Len(s) + 1 /\ At(s, q) \notin Digits /\ \A r \in p..q - 1 : At(s, r) \in Digits
  BY <1>1, <1>2, DigitsRun, Reading
<1>4. q \in Nat \ {0} /\ p + (q - p) = q
  BY <1>1, <1>3, Reading
<1> HIDE DEF q
<1>5. \/ piece = Split_eat8(s, p, hnt, ver)
      \/ piece = Split_eatAn(s, p, hnt, ver) /\ M(s, q, hnt) = "AN" /\ AnBetter(q - p, NumHeadBits(ver))
      \/ piece = [mode |-> "NUM", run |-> q - p]
  <2> DEFINE dif8 == Num(q - p) + HeadBits("NUM", ver) + Byte(1) - Byte(q - p + 1) > 0
             difA == Num(q - p) + HeadBits("NUM", ver) + An(1) - An(q - p + 1) > 0
  <2>1. piece = IF M(s, q, hnt) = "B8" /\ dif8 THEN Split_eat8(s, p, hnt, ver)
                ELSE IF M(s, q, hnt) = "AN" /\ difA THEN Split_eatAn(s, p, hnt, ver)
                ELSE [mode |-> "NUM", run |-> q - p]
    BY <1>4 DEF Split_eatNum, Piece, M, q
  <2>2. difA => AnBetter(q - p, NumHeadBits(ver))
    BY DEF AnBetter, NumHeadBits
  <2> HIDE DEF dif8, difA, piece
  <2> QED
    BY <2>1, <2>2
<1> HIDE DEF piece
<1>6. CASE piece = Split_eat8(s, p, hnt, ver)
  BY <1>6, Eat8OK DEF piece
<1>7. CASE piece = Split_eatAn(s, p, hnt, ver) /\ M(s, q, hnt) = "AN" /\ AnBetter(q - p, NumHeadBits(ver))
  <2>1. At(s, q) \in Alnums
    BY <1>4, <1>7, ModeOf
  <2>2. HandsBack(s, p, ver)
    BY <1>7, <2>1 DEF HandsBack, q
  <2> QED
    BY <1>2, <1>7, <2>2, EatAnOK DEF piece
<1>8. CASE piece = [mode |-> "NUM", run |-> q - p]
  <2>1. piece.mode = "NUM" /\ piece.run = q - p
    BY <1>8
  <2>2. Clear(s, hnt, p, q)
    <3>1. \A r \in p..q - 1 : At(s, r) \in Alnums
      BY <1>3 DEF Alnums
    <3>2. q \in p..Len(s) + 1
      BY <1>1, <1>3, Reading
    <3> QED
      BY <1>1, <3>1, <3>2, RunIsClear
  <2>3. CutOK(s, hnt, ver, "NUM", p, q)
    BY <1>3, <2>2, ClearFound DEF CutOK, Clear, Encodable, Stops, ChunkModes
  <2>4. PieceOK(s, hnt, ver, p, piece)
    BY <1>4, <2>1, <2>3 DEF PieceOK
  <2> QED
    BY <2>1, <2>4 DEF piece
<1> QED
  BY <1>5, <1>6, <1>7, <1>8

LEMMA EatKanjiOK ==
  ASSUME NEW s \in Text, NEW hnt, NEW ver, NEW p \in Walk(s, hnt), M(s, p, hnt) = "KANJI"
  PROVE  PieceOK(s, hnt, ver, p, Split_eatKanji(s, p, hnt)) /\ Split_eatKanji(s, p, hnt).mode = "KANJI"
<1> DEFINE q == LoopEnd(KanjiTurn(s, p, hnt), p)
<1>1. /\ q \in p + 1..Len(s) + 1 /\ q \in Evens(p) /\ q \in Walk(s, hnt)
      /\ \A r \in p..q - 1 : r \in Leads(s, hnt) <=> r \in Evens(p)
      /\ M(s, q, hnt) # "KANJI"
  BY KanjiRun
<1>2. Split_eatKanji(s, p, hnt) = [mode |-> "KANJI", run |-> q - p]
  BY DEF Split_eatKanji, Piece
<1> HIDE DEF q
<1>3. CutOK(s, hnt, ver, "KANJI", p, q)
  BY <1>1 DEF CutOK, KanjiFound, Encodable, Stops, ChunkModes
<1>4. q \in Nat
  BY <1>1, Walks, Reading
<1> QED
  BY <1>2, <1>3, <1>4 DEF PieceOK
-----------------------------------------------------------------------------
(* Changing case.                                                           *)
LEMMA WalkWithin ==
  ASSUME NEW s \in Text, NEW hnt, NEW S, S \subseteq 1..Len(s) + 2, 1 \in S, Kept(ReadTurn(s, hnt), S)
  PROVE  Walk(s, hnt) \subseteq S
<1>1. 1 \in 1..Len(s) + 2
  BY Reading
<1> QED
  BY <1>1, ReadAdvances, Traces DEF Walk

LEMMA WalkKept ==
  ASSUME NEW s \in Text, NEW hnt
  PROVE  Kept(ReadTurn(s, hnt), Walk(s, hnt))
<1>1. 1 \in 1..Len(s) + 2
  BY Reading
<1>2. Kept(ReadTurn(s, hnt), {})
  BY DEF Kept
<1> QED
  BY <1>1, <1>2, ReadAdvances, Traces DEF Walk, Trace

\* Whether a byte is the first of a Kanji character does not depend on the
\* case of the next.
KanjiWords == 33088..40956 \cup 57408..60351

LEMMA KanjiRows ==
  ASSUME NEW c \in 1..255, NEW d \in 65..122, NEW e \in 65..122,
         NEW w \in KanjiWords, w = c * 256 + d, NEW x, x = c * 256 + e
  PROVE  x \in KanjiWords
<1>1. w \in 33088..40956 => c \in 129..159
  OBVIOUS
<1>2. c \in 129..159 => x \in 33088..40956
  OBVIOUS
<1>3. w \in 57408..60351 => c \in 224..235
  OBVIOUS
<1>4. c \in 224..235 => x \in 57408..60351
  OBVIOUS
<1> QED
  BY <1>1, <1>2, <1>3, <1>4 DEF KanjiWords

LEMMA FunctionIsSeq ==
  ASSUME NEW T, NEW n \in Nat, NEW f \in [1..n -> T]
  PROVE  f \in Seq(T) /\ Len(f) = n
<1>1. f \in Seq(T)
  BY SeqDef
<1>2. DOMAIN f = 1..n /\ DOMAIN f = 1..Len(f) /\ Len(f) \in Nat
  BY <1>1, LenProperties
<1>3. ASSUME NEW m \in Nat, 1..m = 1..n PROVE m = n
  <2>1. m \in 1..m => m \in 1..n
    BY <1>3
  <2>2. n \in 1..n => n \in 1..m
    BY <1>3
  <2> QED
    BY <2>1, <2>2
<1> QED
  BY <1>1, <1>2, <1>3

LEMMA UpperText ==
  ASSUME NEW s \in Text, NEW hnt
  PROVE  LET t == dupAndToUpper(s, hnt)
         IN  /\ t \in Text /\ Len(t) = Len(s)
             /\ \A i \in 1..Len(s) :
                  \/ t[i] = s[i]
                  \/ /\ s[i] \in 97..122 /\ t[i] = s[i] - 32
                     /\ i \notin Leads(s, hnt) /\ i - 1 \notin Leads(s, hnt)
<1> DEFINE t == dupAndToUpper(s, hnt)
           n == Len(s)
<1>1. n \in Nat /\ DOMAIN s = 1..n /\ \A i \in 1..n : s[i] \in 1..255
  BY ElementOfSeq DEF Text
<1>2. t = [i \in 1..n |-> IF {i, i - 1} \cap Leads(s, hnt) # {} THEN s[i] ELSE UpperByte(s[i])]
  BY <1>1 DEF dupAndToUpper
<1> HIDE DEF t
<1>4. \A i \in 1..n : t[i] = IF {i, i - 1} \cap Leads(s, hnt) # {} THEN s[i] ELSE UpperByte(s[i])
  BY <1>2
<1>5. ASSUME NEW i \in 1..n
      PROVE  /\ t[i] \in 1..255
             /\ \/ t[i] = s[i]
                \/ /\ s[i] \in 97..122 /\ t[i] = s[i] - 32
                   /\ i \notin Leads(s, hnt) /\ i - 1 \notin Leads(s, hnt)
  <2>1. CASE {i, i - 1} \cap Leads(s, hnt) # {}
    BY <1>1, <1>4, <2>1
  <2>2. CASE {i, i - 1} \cap Leads(s, hnt) = {}
    <3>1. t[i] = UpperByte(s[i]) /\ i \notin Leads(s, hnt) /\ i - 1 \notin Leads(s, hnt)
      BY <1>4, <2>2
    <3>2. PICK c \in 1..255 : c = s[i]
      BY <1>1
    <3>3. \/ UpperByte(c) \in 1..255 /\ UpperByte(c) = c
          \/ UpperByte(c) \in 1..255 /\ c \in 97..122 /\ UpperByte(c) = c - 32
      BY DEF UpperByte, IsLower
    <3> QED
      BY <3>1, <3>2, <3>3
  <2> QED
    BY <2>1, <2>2
<1>6. t \in [1..n -> 1..255]
  <2>1. t \in [1..n -> {t[i] : i \in 1..n}]
    BY <1>2
  <2>2. \A i \in 1..n : t[i] \in 1..255
    BY <1>5
  <2> QED
    BY <2>1, <2>2
<1>7. t \in Text /\ Len(t) = n
  <2> HIDE DEF n
  <2>1. t \in Seq(1..255) /\ Len(t) = n
    BY <1>1, <1>6, FunctionIsSeq
  <2> QED
    BY <2>1 DEF Text
<1> QED
  BY <1>5, <1>7 DEF t

LEMMA SameReading ==
  ASSUME NEW s \in Text, NEW hnt, NEW t, t = dupAndToUpper(s, hnt), NEW p \in Walk(s, hnt)
  PROVE  /\ M(t, p, hnt) = "NUL" <=> M(s, p, hnt) = "NUL"
         /\ M(t, p, hnt) = "KANJI" <=> M(s, p, hnt) = "KANJI"
<1>1. /\ t \in Text /\ Len(t) = Len(s) /\ Len(s) \in Nat /\ p \in Nat \ {0} /\ p + 1 \in Nat \ {0}
  BY UpperText, Reading, Walks
<1>2. ASSUME NEW i \in 1..Len(s)
      PROVE  /\ At(s, i) \in 1..255 /\ At(t, i) \in 1..255
             /\ \/ At(t, i) = At(s, i)
                \/ /\ At(s, i) \in 97..122 /\ At(t, i) = At(s, i) - 32
                   /\ i \notin Leads(s, hnt) /\ i - 1 \notin Leads(s, hnt)
  <2>1. i \in Nat \ {0} /\ i <= Len(s) /\ i <= Len(t)
    BY <1>1
  <2>2. At(s, i) \in 1..255 /\ At(t, i) \in 1..255 /\ At(s, i) = s[i] /\ At(t, i) = t[i]
    BY <1>1, <2>1, Reading
  <2> QED
    BY <2>2, UpperText
<1>3. M(t, p, hnt) = "NUL" <=> M(s, p, hnt) = "NUL"
  BY <1>1, ModeOf
<1>4. ASSUME M(s, p, hnt) = "KANJI" PROVE M(t, p, hnt) = "KANJI"
  <2>1. p \in Leads(s, hnt) /\ p \in 1..Len(s) /\ p + 1 \in 1..Len(s) /\ p + 1 - 1 = p
    BY <1>1, <1>4, LeadsAre, ModeOf
  <2>2. At(t, p) = At(s, p) /\ At(t, p + 1) = At(s, p + 1)
    BY <1>2, <2>1
  <2> QED
    BY <1>4, <2>2 DEF M, Split_identifyMode
<1>5. ASSUME M(t, p, hnt) = "KANJI" PROVE M(s, p, hnt) = "KANJI"
  <2> DEFINE c == At(s, p)  d == At(s, p + 1)  cc == At(t, p)  dd == At(t, p + 1)
  <2>1. p \in 1..Len(s) /\ p + 1 \in 1..Len(s) /\ IsKanji(cc * 256 + dd)
    BY <1>1, <1>5, ModeOf
  <2>2. /\ c \in 1..255 /\ d \in 1..255
        /\ cc = c \/ (c \in 97..122 /\ cc = c - 32)
        /\ dd = d \/ (d \in 97..122 /\ dd = d - 32)
    BY <1>2, <2>1
  <2>3. cc \notin Alnums /\ hnt = "KANJI"
    <3>1. cc \notin Alnums
      BY <1>1, <1>5, ModeOf
    <3>2. hnt = "KANJI"
      BY <1>5 DEF M, Split_identifyMode
    <3> QED
      BY <3>1, <3>2
  <2> HIDE DEF c, d, cc, dd
  <2>4. cc = c
    <3>1. \A x \in 97..122 : x - 32 \in Alnums
      BY DEF Alnums
    <3> QED
      BY <2>2, <2>3, <3>1
  <2>5. IsKanji(c * 256 + d)
    <3>1. CASE dd = d
      BY <2>1, <2>4, <3>1
    <3>2. CASE d \in 97..122 /\ dd = d - 32
      <4>1. d \in 65..122 /\ dd \in 65..122
        BY <3>2
      <4> DEFINE w == c * 256 + dd
                 x == c * 256 + d
      <4>2. c \in 1..255 /\ w \in KanjiWords
        BY <2>1, <2>2, <2>4 DEF IsKanji, KanjiWords
      <4>3. w = c * 256 + dd /\ x = c * 256 + d
        OBVIOUS
      <4> HIDE DEF w, x
      <4>4. x \in KanjiWords
        BY <4>1, <4>2, <4>3, KanjiRows
      <4> QED
        BY <4>4 DEF x, IsKanji, KanjiWords
    <3> QED
      BY <2>2, <3>1, <3>2
  <2>6. c # 0 /\ d # 0 /\ ~IsDigit(c) /\ ~IsAlnum(c)
    BY <2>2, <2>3, <2>4 DEF IsDigit, IsAlnum, Alnums
  <2>7. M(s, p, hnt) = IF c = 0 THEN "NUL"
      ELSE IF IsDigit(c) THEN "NUM"
      ELSE IF IsAlnum(c) THEN "AN"
      ELSE IF hnt = "KANJI" /\ d # 0 /\ IsKanji(c * 256 + d) THEN "KANJI" ELSE "B8"
    BY DEF M, Split_identifyMode, c, d
  <2> QED
    BY <2>3, <2>5, <2>6, <2>7
<1> QED
  BY <1>3, <1>4, <1>5

LEMMA SameLeads ==
  ASSUME NEW s \in Text, NEW hnt, NEW t, t = dupAndToUpper(s, hnt)
  PROVE  Leads(t, hnt) = Leads(s, hnt)
<1>1. t \in Text /\ Len(t) = Len(s)
  BY UpperText
<1>2. /\ Walk(s, hnt) \subseteq 1..Len(s) + 2 /\ 1 \in Walk(s, hnt)
      /\ Walk(t, hnt) \subseteq 1..Len(s) + 2 /\ 1 \in Walk(t, hnt)
  BY <1>1, Walks
<1>3. \A p \in Walk(s, hnt) : ReadTurn(t, hnt)[p] = ReadTurn(s, hnt)[p]
  <2>1. ASSUME NEW p \in Walk(s, hnt) PROVE ReadTurn(t, hnt)[p] = ReadTurn(s, hnt)[p]
    <3>1. p \in 1..Len(s) + 2 /\ p \in 1..Len(t) + 2
      BY <1>1, <1>2
    <3>2. ReadTurn(s, hnt)[p] = IF M(s, p, hnt) = "NUL" THEN p
                                ELSE IF M(s, p, hnt) = "KANJI" THEN p + 2 ELSE p + 1
      BY <3>1, ReadAdvances
    <3>3. ReadTurn(t, hnt)[p] = IF M(t, p, hnt) = "NUL" THEN p
                                ELSE IF M(t, p, hnt) = "KANJI" THEN p + 2 ELSE p + 1
      BY <1>1, <3>1, ReadAdvances
    <3> QED
      BY <3>2, <3>3, SameReading
  <2> QED
    BY <2>1
<1>4. Kept(ReadTurn(s, hnt), Walk(s, hnt)) /\ Kept(ReadTurn(t, hnt), Walk(t, hnt))
  BY <1>1, WalkKept
<1>5. Kept(ReadTurn(t, hnt), Walk(s, hnt)) /\ Kept(ReadTurn(s, hnt), Walk(s, hnt) \cap Walk(t, hnt))
  BY <1>3, <1>4 DEF Kept
<1>6. Walk(t, hnt) \subseteq Walk(s, hnt)
  BY <1>1, <1>2, <1>5, WalkWithin
<1>7. Walk(s, hnt) \subseteq Walk(s, hnt) \cap Walk(t, hnt)
  <2> DEFINE S == Walk(s, hnt) \cap Walk(t, hnt)
  <2>1. S \subseteq 1..Len(s) + 2 /\ 1 \in S /\ Kept(ReadTurn(s, hnt), S)
    BY <1>2, <1>5
  <2> HIDE DEF S
  <2>2. Walk(s, hnt) \subseteq S
    BY <2>1, WalkWithin
  <2> QED
    BY <2>2 DEF S
<1>8. \A p \in Walk(s, hnt) : M(t, p, hnt) = "KANJI" <=> M(s, p, hnt) = "KANJI"
  BY SameReading
<1> QED
  BY <1>6, <1>7, <1>8, LeadsAre
-----------------------------------------------------------------------------
(* The inductive invariant.  The pointer is where the reader stops too.     *)
ChunkType == [mode : ChunkModes, data : Text]
LastChunk == list[Len(list)]

Types ==
  /\ string \in Text /\ text \in Text /\ version \in 0..QRSPEC_VERSION_MAX
  /\ list \in Seq(ChunkType) /\ from \in Seq(Nat) /\ Len(from) = Len(list)
  /\ status \in {"splitting", "done", "invalid"}
AtPlace ==
  /\ pos \in 1..Len(text) + 1 /\ pos \in Walk(text, hint)
  /\ pos = IF list = <<>> THEN 1 ELSE End(Len(list))
  /\ status = "done" => pos = Len(text) + 1
CutAt(k) ==
    /\ from[k] = (IF k = 1 THEN 1 ELSE End(k - 1)) /\ from[k] >= 1 /\ from[k] < End(k) /\ End(k) <= pos
    /\ \A i \in 1..Len(list[k].data) : list[k].data[i] = text[from[k] + i - 1]
Cuts == \A k \in 1..Len(list) : CutAt(k)
Found ==
  \A r \in 1..pos - 1 :
    r \in Leads(text, hint) <=>
      \E k \in 1..Len(list) : list[k].mode = "KANJI" /\ r \in from[k]..End(k) - 1 /\ r \in Evens(from[k])
Heads ==
  /\ \A k \in 1..Len(list) - 1 : list[k].mode = list[k + 1].mode => list[k].mode = "B8"
  /\ list # <<>> => Stops(text, hint, version, LastChunk.mode, pos)

IInv == Types /\ AtPlace /\ Cuts /\ Found /\ Heads /\ CaseOnly

LEMMA InitIInv == Init => IInv
<1> SUFFICES ASSUME Init PROVE IInv
  OBVIOUS
<1>1. string \in Text /\ version \in 0..QRSPEC_VERSION_MAX /\ list = <<>> /\ from = <<>> /\ pos = 1
  BY StringsAssumption DEF Init, Text
<1>2. text = string \/ text = dupAndToUpper(string, hint)
  BY DEF Init
<1>3. text \in Text /\ CaseOnly
  <2>1. DOMAIN string = 1..Len(string)
    BY <1>1, LenProperties DEF Text
  <2>2. CASE text = string
    BY <1>1, <2>2 DEF CaseOnly
  <2>3. CASE text = dupAndToUpper(string, hint)
    <3>1. text \in Text /\ Leads(text, hint) = Leads(string, hint)
      BY <1>1, <2>3, UpperText, SameLeads
    <3>2. ASSUME NEW i \in 1..Len(string), text[i] # string[i]
          PROVE  IsLower(string[i]) /\ {i, i - 1} \cap Leads(string, hint) = {}
      <4>1. string[i] \in 97..122 /\ i \notin Leads(string, hint) /\ i - 1 \notin Leads(string, hint)
        BY <1>1, <2>3, <3>2, UpperText
      <4> QED
        BY <4>1 DEF IsLower
    <3> QED
      BY <2>1, <3>1, <3>2 DEF CaseOnly
  <2> QED
    BY <1>2, <2>2, <2>3
<1>4. Len(list) = 0 /\ list \in Seq(ChunkType) /\ from \in Seq(Nat) /\ Len(from) = 0
  BY <1>1
<1>5. status \in {"splitting", "done", "invalid"} /\ status # "done"
  BY DEF Init
<1>6. Types
  BY <1>1, <1>3, <1>4, <1>5 DEF Types
<1>7. AtPlace
  BY <1>1, <1>3, <1>5, Walks, Reading DEF AtPlace
<1>8. Cuts /\ Heads
  BY <1>1, <1>4 DEF Cuts, Heads
<1>9. Found
  BY <1>1 DEF Found
<1> QED
  BY <1>3, <1>6, <1>7, <1>8, <1>9 DEF IInv
-----------------------------------------------------------------------------
(* One turn: what is cut is appended.                                       *)
LEMMA DataOK ==
  ASSUME NEW p \in Nat \ {0}, NEW q \in Nat, NEW mode, text \in Text,
         CutOK(text, hint, version, mode, p, q)
  PROVE  /\ Taken(p, q - p) \in Text /\ Len(Taken(p, q - p)) = q - p
         /\ \A i \in 1..q - p : Taken(p, q - p)[i] = text[p + i - 1]
         /\ QRinput_check(mode, Taken(p, q - p))
<1> DEFINE data == Taken(p, q - p)
<1>1. /\ q \in p + 1..Len(text) + 1 /\ mode \in ChunkModes
      /\ KanjiFound(text, hint, mode, p, q) /\ Encodable(text, mode, p, q)
  BY DEF CutOK
<1>2. Len(text) \in Nat /\ q - p \in Nat \ {0}
  BY <1>1, Reading
<1>3. \A r \in p..q - 1 : At(text, r) \in 1..255 /\ At(text, r) = text[r]
  <2>1. ASSUME NEW r \in p..q - 1 PROVE r \in Nat \ {0} /\ r <= Len(text)
    BY <1>1, <1>2
  <2> QED
    BY <2>1, Reading
<1>4. data = [i \in 1..q - p |-> At(text, p + i - 1)]
  BY DEF Taken
<1>5. \A i \in 1..q - p : p + i - 1 \in p..q - 1
  BY <1>1, <1>2
<1> HIDE DEF data
<1>6. \A i \in 1..q - p : data[i] = At(text, p + i - 1)
  BY <1>4
<1>7. data \in [1..q - p -> 1..255]
  BY <1>3, <1>4, <1>5
<1>8. data \in Text /\ Len(data) = q - p /\ DOMAIN data = 1..q - p
  <2> DEFINE m == q - p
  <2>1. m \in Nat /\ data \in [1..m -> 1..255]
    BY <1>2, <1>7
  <2> HIDE DEF m
  <2>2. data \in Seq(1..255) /\ Len(data) = m
    BY <2>1, FunctionIsSeq
  <2>3. DOMAIN data = 1..m
    BY <2>1
  <2> QED
    BY <2>2, <2>3 DEF Text, m
<1>9. data # <<>>
  BY <1>2, <1>8
<1>10. ASSUME mode = "NUM" PROVE QRinput_check(mode, data)
  <2>1. \A i \in DOMAIN data : IsDigit(data[i])
    BY <1>1, <1>5, <1>6, <1>8, <1>10 DEF Encodable, IsDigit
  <2> QED
    BY <1>9, <1>10, <2>1 DEF QRinput_check
<1>11. ASSUME mode = "AN" PROVE QRinput_check(mode, data)
  <2>1. \A i \in DOMAIN data : IsAlnum(data[i])
    BY <1>1, <1>5, <1>6, <1>8, <1>11 DEF Encodable, IsAlnum
  <2> QED
    BY <1>9, <1>11, <2>1 DEF QRinput_check
<1>12. ASSUME mode = "KANJI" PROVE QRinput_check(mode, data)
  <2>1. (q - p) % 2 = 0
    BY <1>1, <1>12 DEF Encodable, Evens
  <2>2. ASSUME NEW i \in 1..((q - p) \div 2)
        PROVE  IsKanji(data[2 * i - 1] * 256 + data[2 * i])
    <3>1. 2 * i - 1 \in 1..q - p /\ 2 * i \in 1..q - p /\ i \in Nat
      BY <1>2, <2>1
    <3> DEFINE r == p + (2 * i - 1) - 1
    <3>2. r \in p..q - 1 /\ r \in Nat \ {0} /\ r + 1 = p + 2 * i - 1 /\ r \in Evens(p)
      <4>1. r - p = 2 * (i - 1) /\ i - 1 \in Nat
        BY <3>1
      <4>2. (2 * (i - 1)) % 2 = 0
        BY <4>1
      <4> QED
        BY <1>2, <3>1, <4>1, <4>2 DEF Evens
    <3> HIDE DEF r
    <3>3. r \in Leads(text, hint)
      BY <1>1, <1>12, <3>2 DEF KanjiFound
    <3>4. IsKanji(At(text, r) * 256 + At(text, r + 1))
      BY <3>2, <3>3, LeadsAre, ModeOf
    <3>5. data[2 * i - 1] = At(text, r) /\ data[2 * i] = At(text, r + 1)
      BY <1>6, <3>1, <3>2 DEF r
    <3> QED
      BY <3>4, <3>5
  <2> QED
    BY <1>8, <1>9, <1>12, <2>1, <2>2 DEF QRinput_check
<1>13. ASSUME mode = "B8" PROVE QRinput_check(mode, data)
  BY <1>9, <1>13 DEF QRinput_check
<1>14. \A i \in 1..q - p : data[i] = text[p + i - 1]
  BY <1>3, <1>5, <1>6
<1>15. mode \in {"NUM", "AN", "KANJI", "B8"}
  BY <1>1 DEF ChunkModes
<1>16. QRinput_check(mode, data)
  BY <1>10, <1>11, <1>12, <1>13, <1>15
<1> QED
  BY <1>8, <1>14, <1>16 DEF data

\* The chunk cut from p to q is appended.
Appended(mode, q) ==
  /\ list' = Append(list, [mode |-> mode, data |-> Taken(pos, q - pos)])
  /\ from' = Append(from, pos) /\ pos' = q /\ status' = "splitting" /\ Unchanged

LEMMA EatenAppends ==
  ASSUME IInv, NEW piece, PieceOK(text, hint, version, pos, piece), Eaten(piece)
  PROVE  \E q \in Nat : CutOK(text, hint, version, piece.mode, pos, q) /\ Appended(piece.mode, q)
<1>1. text \in Text /\ pos \in Nat \ {0}
  BY Reading DEF IInv, Types, AtPlace
<1>2. PICK q \in Nat : CutOK(text, hint, version, piece.mode, pos, q) /\ piece.run = q - pos
  BY DEF PieceOK
<1>3. QRinput_check(piece.mode, Taken(pos, q - pos))
  BY <1>1, <1>2, DataOK
<1>4. pos + (q - pos) = q
  BY <1>1, <1>2
<1> QED
  BY <1>2, <1>3, <1>4 DEF Eaten, Appended

LEMMA AppendedKept ==
  ASSUME IInv, NEW mode, NEW q \in Nat, CutOK(text, hint, version, mode, pos, q), Appended(mode, q),
         list # <<>> /\ LastChunk.mode = mode => mode = "B8"
  PROVE  IInv'
<1> DEFINE data == Taken(pos, q - pos)
           e == [mode |-> mode, data |-> data]
<1>0. PICK n \in Nat : n = Len(list)
  BY LenProperties DEF IInv, Types
<1>1. /\ text \in Text /\ string \in Text /\ version \in 0..QRSPEC_VERSION_MAX
      /\ list \in Seq(ChunkType) /\ from \in Seq(Nat) /\ Len(from) = n /\ pos \in Nat \ {0} /\ n = Len(list)
  BY <1>0, Reading DEF IInv, Types, AtPlace
<1>2. /\ q \in pos + 1..Len(text) + 1 /\ q \in Walk(text, hint) /\ mode \in ChunkModes
      /\ KanjiFound(text, hint, mode, pos, q) /\ Stops(text, hint, version, mode, q)
  BY DEF CutOK
<1>3. data \in Text /\ Len(data) = q - pos /\ \A i \in 1..q - pos : data[i] = text[pos + i - 1]
  BY <1>1, DataOK
<1>4. e \in ChunkType
  BY <1>2, <1>3 DEF ChunkType
<1>5. /\ list' = Append(list, e) /\ from' = Append(from, pos) /\ pos' = q /\ status' = "splitting"
      /\ string' = string /\ text' = text /\ hint' = hint /\ version' = version
  BY DEF Appended, Unchanged
<1>6. /\ list' \in Seq(ChunkType) /\ Len(list') = n + 1 /\ list' # <<>>
      /\ from' \in Seq(Nat) /\ Len(from') = n + 1
      /\ \A k \in 1..n : list'[k] = list[k] /\ from'[k] = from[k]
      /\ list'[n + 1] = e /\ from'[n + 1] = pos
  <2> HIDE DEF e
  <2> QED
    BY <1>1, <1>4, <1>5, AppendProperties
<1>7. e.mode = mode /\ e.data = data
  OBVIOUS
<1>8. /\ \A k \in 1..n : (End(k))' = End(k)
      /\ (End(n + 1))' = q
  <2>1. ASSUME NEW k \in 1..n PROVE (End(k))' = End(k)
    BY <1>6 DEF End
  <2>2. Len(e.data) = q - pos /\ pos + (q - pos) = q
    BY <1>1, <1>3, <1>7
  <2>3. (End(n + 1))' = from'[n + 1] + Len(list'[n + 1].data)
    BY DEF End
  <2> HIDE DEF e
  <2> QED
    BY <1>6, <2>1, <2>2, <2>3
<1> HIDE DEF e
<1>9. \A k \in 1..n + 1 : k \in 1..n \/ k = n + 1
  BY <1>1
<1>10. Types'
  BY <1>1, <1>5, <1>6 DEF Types
<1>11. AtPlace'
  <2>1. q \in 1..Len(text) + 1
    BY <1>1, <1>2, Reading
  <2> QED
    BY <1>2, <1>5, <1>6, <1>8, <2>1 DEF AtPlace, Walk
<1>12. Cuts'
  <2>1. pos = (IF n + 1 = 1 THEN 1 ELSE End(n + 1 - 1))
    <3>1. list = <<>> <=> n = 0
      BY <1>1
    <3>2. n + 1 - 1 = n /\ (n + 1 = 1 <=> n = 0)
      BY <1>1
    <3> QED
      BY <1>0, <3>1, <3>2 DEF IInv, AtPlace
  <2>2. ASSUME NEW k \in 1..n + 1
        PROVE  /\ from'[k] = (IF k = 1 THEN 1 ELSE (End(k - 1))') /\ from'[k] >= 1
               /\ from'[k] < (End(k))' /\ (End(k))' <= q
               /\ \A i \in 1..Len(list'[k].data) : list'[k].data[i] = text[from'[k] + i - 1]
    <3>1. CASE k \in 1..n
      <4>1. k = 1 \/ k - 1 \in 1..n
        BY <1>1, <3>1
      <4>2. /\ from[k] = (IF k = 1 THEN 1 ELSE End(k - 1)) /\ from[k] >= 1 /\ from[k] < End(k)
            /\ End(k) <= pos
            /\ \A i \in 1..Len(list[k].data) : list[k].data[i] = text[from[k] + i - 1]
        BY <1>0, <3>1 DEF IInv, Cuts, CutAt
      <4>3. End(k) \in Nat
        <5>1. list[k] \in ChunkType /\ from[k] \in Nat
          BY <1>1, <3>1, ElementOfSeq
        <5>2. Len(list[k].data) \in Nat
          BY <5>1, Reading DEF ChunkType
        <5> QED
          BY <5>1, <5>2 DEF End
      <4>4. End(k) <= q
        BY <1>1, <1>2, <4>2, <4>3
      <4> QED
        BY <1>6, <1>8, <3>1, <4>1, <4>2, <4>4
    <3>2. CASE k = n + 1
      <4>1. n = 0 \/ n + 1 - 1 \in 1..n
        BY <1>1
      <4>2. (IF k = 1 THEN 1 ELSE (End(k - 1))') = (IF n + 1 = 1 THEN 1 ELSE End(n + 1 - 1))
        BY <1>1, <1>8, <3>2, <4>1
      <4>3. pos >= 1 /\ pos < q /\ q <= q
        BY <1>1, <1>2
      <4> QED
        BY <1>3, <1>6, <1>7, <1>8, <2>1, <3>2, <4>2, <4>3
    <3> QED
      BY <1>9, <3>1, <3>2
  <2>3. ASSUME NEW k \in 1..n + 1 PROVE (CutAt(k))'
    <3>1. (CutAt(k))' <=>
            /\ from'[k] = (IF k = 1 THEN 1 ELSE (End(k - 1))') /\ from'[k] >= 1
            /\ from'[k] < (End(k))' /\ (End(k))' <= q
            /\ \A i \in 1..Len(list'[k].data) : list'[k].data[i] = text[from'[k] + i - 1]
      BY <1>5 DEF CutAt
    <3> QED
      BY <2>2, <3>1
  <2> QED
    BY <1>6, <2>3 DEF Cuts
<1>13. Found'
  <2>1. ASSUME NEW r \in 1..q - 1
        PROVE  r \in Leads(text, hint) <=>
                 \E k \in 1..n + 1 : list'[k].mode = "KANJI" /\ r \in from'[k]..(End(k))' - 1
                                                            /\ r \in Evens(from'[k])
    <3>1. CASE r \in 1..pos - 1
      <4>1. r \notin pos..q - 1
        BY <1>1, <3>1
      <4>2. r \in Leads(text, hint) <=>
              \E k \in 1..n : list[k].mode = "KANJI" /\ r \in from[k]..End(k) - 1 /\ r \in Evens(from[k])
        BY <1>0, <3>1 DEF IInv, Found
      <4>3. \A k \in 1..n : k \in 1..n + 1
        BY <1>1
      <4> QED
        BY <1>6, <1>8, <1>9, <4>1, <4>2, <4>3
    <3>2. CASE r \in pos..q - 1
      <4>1. r \in Leads(text, hint) <=> mode = "KANJI" /\ r \in Evens(pos)
        BY <1>2, <3>2 DEF KanjiFound
      <4>2. ASSUME NEW k \in 1..n PROVE r \notin (from[k])..End(k) - 1
        <5>1. End(k) <= pos
          BY <1>0 DEF IInv, Cuts, CutAt
        <5>2. list[k] \in ChunkType /\ from[k] \in Nat
          BY <1>1, ElementOfSeq
        <5>3. End(k) \in Nat
          BY <5>2, Reading DEF ChunkType, End
        <5> QED
          BY <1>1, <3>2, <5>1, <5>2, <5>3
      <4>3. n + 1 \in 1..n + 1
        BY <1>1
      <4> QED
        BY <1>6, <1>7, <1>8, <1>9, <3>2, <4>1, <4>2, <4>3
    <3> QED
      BY <1>1, <1>2, <3>1, <3>2
  <2> QED
    BY <1>5, <1>6, <2>1 DEF Found
<1>14. Heads'
  <2>1. ASSUME NEW k \in 1..n + 1 - 1, list'[k].mode = list'[k + 1].mode PROVE list'[k].mode = "B8"
    <3>1. CASE k \in 1..n - 1
      <4>1. k \in 1..n /\ k + 1 \in 1..n
        BY <1>1, <3>1
      <4> QED
        BY <1>0, <1>6, <2>1, <3>1, <4>1 DEF IInv, Heads
    <3>2. CASE k = n
      <4>1. n \in 1..n /\ n # 0
        BY <1>1, <3>2
      <4>2. list # <<>>
        BY <1>0, <4>1
      <4> QED
        BY <1>0, <1>6, <1>7, <2>1, <3>2, <4>1, <4>2 DEF LastChunk
    <3> QED
      BY <1>1, <3>1, <3>2
  <2>2. Stops(text, hint, version, (LastChunk)'.mode, q)
    BY <1>2, <1>6, <1>7 DEF LastChunk
  <2>3. Stops(text, hint, version, LastChunk.mode, pos)'
    BY <1>5, <2>2 DEF Stops, AnStops, HandsBack
  <2> QED
    BY <1>6, <2>1, <2>3 DEF Heads
<1>15. CaseOnly'
  BY <1>5 DEF IInv, CaseOnly
<1> QED
  BY <1>10, <1>11, <1>12, <1>13, <1>14, <1>15 DEF IInv
LEMMA ModeNow ==
  ASSUME IInv
  PROVE  /\ text \in Text /\ version \in 0..QRSPEC_VERSION_MAX /\ pos \in Walk(text, hint) /\ pos \in Nat \ {0}
         /\ M(text, pos, hint) # "NUL" => pos <= Len(text)
         /\ M(text, pos, hint) = "NUL" => pos = Len(text) + 1
         /\ M(text, pos, hint) = "NUM" <=> At(text, pos) \in Digits
         /\ M(text, pos, hint) \in {"NUM", "AN"} <=> At(text, pos) \in Alnums
<1>1. text \in Text /\ pos \in 1..Len(text) + 1 /\ Len(text) \in Nat
  BY Reading DEF IInv, Types, AtPlace
<1>2. pos \in Nat \ {0} /\ (pos > Len(text) => pos = Len(text) + 1) /\ (pos <= Len(text) \/ pos > Len(text))
  BY <1>1
<1> QED
  BY <1>1, <1>2, ModeOf DEF IInv, Types, AtPlace

LEMMA CutKept ==
  ASSUME IInv, NEW piece, PieceOK(text, hint, version, pos, piece), Eaten(piece),
         list # <<>> /\ LastChunk.mode = piece.mode => piece.mode = "B8"
  PROVE  IInv'
BY EatenAppends, AppendedKept

LEMMA EatNumKept == IInv /\ EatNum => IInv'
<1> SUFFICES ASSUME IInv, EatNum PROVE IInv'
  OBVIOUS
<1> DEFINE piece == Split_eatNum(text, pos, hint, version)
<1>1. M(text, pos, hint) = "NUM" /\ Eaten(piece)
  BY DEF EatNum, Mode, M
<1>2. At(text, pos) \in Digits /\ At(text, pos) \in Alnums
  BY <1>1, ModeNow
<1>3. /\ PieceOK(text, hint, version, pos, piece) /\ piece.mode \in {"NUM", "AN", "B8"}
      /\ piece.mode = "AN" => HandsBack(text, pos, version)
  BY <1>1, ModeNow, EatNumOK
<1> HIDE DEF piece
<1>4. ASSUME list # <<>>, LastChunk.mode = piece.mode PROVE piece.mode = "B8"
  <2>1. Stops(text, hint, version, piece.mode, pos)
    BY <1>4 DEF IInv, Heads
  <2> QED
    BY <1>2, <1>3, <2>1 DEF Stops, AnStops
<1> QED
  BY <1>1, <1>3, <1>4, CutKept

LEMMA EatAnKept == IInv /\ EatAn => IInv'
<1> SUFFICES ASSUME IInv, EatAn PROVE IInv'
  OBVIOUS
<1> DEFINE piece == Split_eatAn(text, pos, hint, version)
<1>1. M(text, pos, hint) = "AN" /\ Eaten(piece)
  BY DEF EatAn, Mode, M
<1>2. At(text, pos) \notin Digits /\ At(text, pos) \in Alnums
  BY <1>1, ModeNow
<1>3. PieceOK(text, hint, version, pos, piece) /\ piece.mode \in {"AN", "B8"}
  BY <1>1, <1>2, ModeNow, EatAnOK
<1> HIDE DEF piece
<1>4. ASSUME list # <<>>, LastChunk.mode = piece.mode PROVE piece.mode = "B8"
  <2>1. Stops(text, hint, version, piece.mode, pos)
    BY <1>4 DEF IInv, Heads
  <2> QED
    BY <1>2, <1>3, <2>1 DEF Stops, AnStops
<1> QED
  BY <1>1, <1>3, <1>4, CutKept

LEMMA EatKanjiKept == IInv /\ EatKanji => IInv'
<1> SUFFICES ASSUME IInv, EatKanji PROVE IInv'
  OBVIOUS
<1> DEFINE piece == Split_eatKanji(text, pos, hint)
<1>1. M(text, pos, hint) = "KANJI" /\ Eaten(piece)
  BY DEF EatKanji, Mode, M
<1>2. PieceOK(text, hint, version, pos, piece) /\ piece.mode = "KANJI"
  BY <1>1, ModeNow, EatKanjiOK
<1> HIDE DEF piece
<1>3. ~(list # <<>> /\ LastChunk.mode = piece.mode)
  BY <1>1, <1>2 DEF IInv, Heads, Stops
<1> QED
  BY <1>1, <1>2, <1>3, CutKept

LEMMA Eat8Kept == IInv /\ Eat8 => IInv'
<1> SUFFICES ASSUME IInv, Eat8 PROVE IInv'
  OBVIOUS
<1> DEFINE piece == Split_eat8(text, pos, hint, version)
<1>1. M(text, pos, hint) = "B8" /\ Eaten(piece)
  BY DEF Eat8, Mode, M
<1>2. PieceOK(text, hint, version, pos, piece) /\ piece.mode = "B8"
  BY <1>1, ModeNow, Eat8OK
<1> HIDE DEF piece
<1> QED
  BY <1>1, <1>2, CutKept

\* Nothing the invariant speaks of changes but the status.
LEMMA OthersKept ==
  ASSUME IInv, Unchanged, UNCHANGED <<pos, list, from>>, status' \in {"splitting", "done", "invalid"},
         status' = "done" => pos = Len(text) + 1
  PROVE  IInv'
<1>1. /\ string' = string /\ text' = text /\ hint' = hint /\ version' = version
      /\ pos' = pos /\ list' = list /\ from' = from
  BY DEF Unchanged
<1>2. \A k : (End(k))' = End(k)
  BY <1>1 DEF End
<1>3. Types'
  BY <1>1 DEF IInv, Types
<1>4. AtPlace'
  BY <1>1, <1>2 DEF IInv, AtPlace, End
<1>5. Cuts'
  BY <1>1 DEF IInv, Cuts, CutAt, End
<1>6. Found'
  BY <1>1 DEF IInv, Found, End
<1>7. Heads'
  BY <1>1 DEF IInv, Heads, LastChunk
<1>8. CaseOnly'
  BY <1>1 DEF IInv, CaseOnly
<1> QED
  BY <1>3, <1>4, <1>5, <1>6, <1>7, <1>8 DEF IInv

LEMMA NextIInv == IInv /\ [Next]_vars => IInv'
<1> SUFFICES ASSUME IInv, [Next]_vars PROVE IInv'
  OBVIOUS
<1>1. CASE EatNum
  BY <1>1, EatNumKept
<1>2. CASE EatAn
  BY <1>2, EatAnKept
<1>3. CASE EatKanji
  BY <1>3, EatKanjiKept
<1>4. CASE Eat8
  BY <1>4, Eat8Kept
<1>5. CASE Return
  <2>1. M(text, pos, hint) = "NUL" /\ status' = "done" /\ UNCHANGED <<pos, list, from>> /\ Unchanged
    BY <1>5 DEF Return, Mode, M
  <2> QED
    BY <2>1, ModeNow, OthersKept
<1>6. CASE UNCHANGED vars
  <2>1. Unchanged /\ UNCHANGED <<pos, list, from>> /\ status' = status
    BY <1>6 DEF vars, Unchanged
  <2> QED
    BY <2>1, OthersKept DEF IInv, Types, AtPlace
<1> QED
  BY <1>1, <1>2, <1>3, <1>4, <1>5, <1>6 DEF Next

LEMMA Inductive == Spec => []IInv
BY InitIInv, NextIInv, PTL DEF Spec
-----------------------------------------------------------------------------
LEMMA ChunkAt ==
  ASSUME IInv, NEW k \in 1..Len(list)
  PROVE  /\ from[k] \in Nat /\ list[k].data \in Text /\ End(k) \in Nat
         /\ from[k] >= 1 /\ from[k] < End(k) /\ End(k) <= pos
<1>1. list \in Seq(ChunkType) /\ from \in Seq(Nat) /\ Len(from) = Len(list)
  BY DEF IInv, Types
<1>2. list[k] \in ChunkType /\ from[k] \in Nat
  BY <1>1, ElementOfSeq
<1>3. list[k].data \in Text
  BY <1>2 DEF ChunkType
<1>4. from[k] >= 1 /\ from[k] < End(k) /\ End(k) <= pos
  BY DEF IInv, Cuts, CutAt
<1> QED
  BY <1>2, <1>3, <1>4, Reading DEF End

LEMMA KeepsText == IInv => TextKept
<1> SUFFICES ASSUME IInv PROVE TextKept
  OBVIOUS
<1>1. /\ list \in Seq(ChunkType) /\ Len(from) = Len(list) /\ DOMAIN list = 1..Len(list)
      /\ pos <= Len(text) + 1 /\ (status = "done" => pos = Len(text) + 1)
      /\ pos = IF list = <<>> THEN 1 ELSE End(Len(list))
  BY LenProperties DEF IInv, Types, AtPlace
<1>2. ASSUME NEW k \in 1..Len(list)
      PROVE  /\ list[k].data # <<>>
             /\ from[k] = IF k = 1 THEN 1 ELSE End(k - 1)
             /\ \A i \in DOMAIN list[k].data : list[k].data[i] = text[from[k] + i - 1]
  <2>1. /\ from[k] = IF k = 1 THEN 1 ELSE End(k - 1)
        /\ \A i \in 1..Len(list[k].data) : list[k].data[i] = text[from[k] + i - 1]
    BY DEF IInv, Cuts, CutAt
  <2>2. list[k].data \in Text /\ from[k] \in Nat /\ from[k] < from[k] + Len(list[k].data)
    BY ChunkAt DEF End
  <2>3. DOMAIN list[k].data = 1..Len(list[k].data) /\ Len(list[k].data) # 0
    BY <2>2, LenProperties DEF Text
  <2> QED
    BY <2>1, <2>3
<1> QED
  BY <1>1, <1>2 DEF TextKept

LEMMA FindsPairs == IInv => PairsWhole
<1> SUFFICES ASSUME IInv PROVE PairsWhole
  OBVIOUS
<1> DEFINE kanji == {k \in DOMAIN list : list[k].mode = "KANJI"}
           leads == {p \in Leads(text, hint) : p < pos}
<1>1. /\ text \in Text /\ pos \in 1..Len(text) + 1 /\ Len(text) \in Nat /\ DOMAIN list = 1..Len(list)
      /\ Leads(text, hint) \subseteq 1..Len(text) + 2
  <2>1. Leads(text, hint) \subseteq Walk(text, hint)
    BY LeadsAre
  <2> QED
    BY <2>1, Reading, Walks, LenProperties DEF IInv, Types, AtPlace
<1>2. ASSUME NEW k \in 1..Len(list)
      PROVE  /\ \A r \in Nat : r \in Pairs(k) <=> r \in from[k]..End(k) - 1 /\ r \in Evens(from[k])
             /\ Pairs(k) \subseteq 1..pos - 1
  <2> DEFINE f == from[k]  g == End(k)
  <2>4. Pairs(k) = {p \in f..g - 1 : (p - f) % 2 = 0}
    BY DEF Pairs
  <2> HIDE DEF f, g
  <2>5. f \in Nat /\ g \in Nat /\ f >= 1 /\ g <= pos
    BY ChunkAt DEF f, g
  <2>6. \A r \in f..g - 1 : r \in Evens(f) <=> (r - f) % 2 = 0
    BY <2>5 DEF Evens
  <2>7. Pairs(k) \subseteq 1..pos - 1
    BY <1>1, <2>4, <2>5
  <2>8. \A r : r \in Pairs(k) <=> r \in f..g - 1 /\ r \in Evens(f)
    BY <2>4, <2>6
  <2> QED
    BY <2>7, <2>8 DEF f, g
<1>3. \A r \in 1..pos - 1 :
        r \in Leads(text, hint) <=> \E k \in 1..Len(list) : list[k].mode = "KANJI" /\ r \in Pairs(k)
  <2>1. \A r \in 1..pos - 1 : r \in Nat
    BY <1>1
  <2> QED
    BY <1>2, <2>1 DEF IInv, Found
<1>4. ASSUME NEW r PROVE r \in leads <=> r \in 1..pos - 1 /\ r \in Leads(text, hint)
  BY <1>1
<1>5. ASSUME NEW r
      PROVE  r \in UNION {Pairs(k) : k \in kanji} <=>
               \E k \in 1..Len(list) : list[k].mode = "KANJI" /\ r \in Pairs(k)
  BY <1>1
<1>6. ASSUME NEW r PROVE r \in UNION {Pairs(k) : k \in kanji} <=> r \in leads
  BY <1>2, <1>3, <1>4, <1>5
<1>7. UNION {Pairs(k) : k \in kanji} = leads
  BY <1>6
<1> QED
  BY <1>7 DEF PairsWhole

(* Every byte is taken once and in order, whichever eater hands its work to *)
(* which: the chunks appended by Split_splitStringToQRinput, end to end,    *)
(* are the text.                                                            *)
THEOREM CutsTheText == Spec => []TextKept
BY Inductive, KeepsText, PTL

(* QRinput_append accepts every chunk the eaters cut, for any text, version *)
(* and hint: an eater never takes a byte its mode cannot encode.            *)
THEOREM NeverRefuses == Spec => []NeverRefused
<1>1. IInv => NeverRefused
  BY DEF IInv, Types, NeverRefused
<1> QED
  BY <1>1, Inductive, PTL

(* The Kanji characters Split_eatKanji takes are those that a reader from   *)
(* the left finds; no other eater stops inside one or takes one.            *)
THEOREM KeepsPairs == Spec => []PairsWhole
BY Inductive, FindsPairs, PTL

(* dupAndToUpper changes lower-case letters outside Kanji characters and    *)
(* leaves the characters where they were.                                   *)
THEOREM ChangesCaseOnly == Spec => []CaseOnly
<1>1. IInv => CaseOnly
  BY DEF IInv
<1> QED
  BY <1>1, Inductive, PTL

(* The eater called next never begins a chunk of the mode just left, except *)
(* for bytes: where alphanumeric mode leaves digits to numeric mode, the    *)
(* estimates of numeric mode do not hand them back.                         *)
THEOREM RepeatsNoHead == Spec => []NoRepeatedHead
<1>1. IInv => NoRepeatedHead
  BY DEF IInv, Heads, NoRepeatedHead
<1> QED
  BY <1>1, Inductive, PTL
=============================================================================
