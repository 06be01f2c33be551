------------------------- MODULE EncodeStreamProofs -------------------------
(* Proofs about EncodeStream for every input, level and table of sizes that *)
(* meets its assumptions.                                                   *)
EXTENDS EncodeStream, WellFoundedInduction, TLAPS

USE SizesAssumption, BitsAssumption, CapacityAssumption

(* The least-number principle, for sets.                                    *)
LEMMA LeastElement ==
  ASSUME NEW S, S \subseteq Nat, S # {}
  PROVE  \E m \in S : \A v \in S : m <= v
<1> DEFINE R == OpToRel(<, Nat)
<1>1. \E m \in S : \A v \in S : <<v, m>> \notin R
  BY NatLessThanWellFounded, WFMin, Zenon
<1>2. \A v, m \in Nat : <<v, m>> \notin R => m <= v
  BY DEF OpToRel
<1> QED BY <1>1, <1>2

(* QRspec_getMinimumVersion returns a version, the least sufficient one if  *)
(* there is one.                                                            *)
LEMMA MinimumVersionProperties ==
  ASSUME NEW n \in Nat, NEW l \in Levels
  PROVE  /\ MinimumVersion(n, l) \in 1..VMax
         /\ \A v \in 1..VMax : Fits(n, v, l) =>
              /\ Fits(n, MinimumVersion(n, l), l)
              /\ MinimumVersion(n, l) <= v
<1> DEFINE P(v) == Fits(n, v, l)
<1>1. CASE \A v \in 1..VMax : ~P(v)
  BY <1>1 DEF MinimumVersion
<1>2. CASE \E v \in 1..VMax : P(v)
  <2> DEFINE S == {v \in 1..VMax : P(v)}
  <2>0. S \subseteq Nat /\ S # {}
    BY <1>2
  <2> HIDE DEF S
  <2>1. PICK m \in S : \A v \in S : m <= v
    BY <2>0, LeastElement
  <2> USE DEF S
  <2>2. m \in 1..VMax /\ P(m) /\ \A w \in 1..m - 1 : ~P(w)
    BY <2>1
  <2>3. \A v \in 1..VMax : P(v) /\ (\A w \in 1..v - 1 : ~P(w)) => v = m
    BY <2>1, <2>2
  <2>4. MinimumVersion(n, l) = m
    BY <1>2, <2>2, <2>3 DEF MinimumVersion
  <2> QED BY <2>1, <2>2, <2>4
<1> QED BY <1>1, <1>2
-----------------------------------------------------------------------------
(* Where the search may be: a Micro QR object never searches, a conversion  *)
(* starts from a real version, and the stream to pad was encoded with the   *)
(* version the object now has, at least the one its bits need.              *)
SearchInv ==
  /\ mqr => version \in 1..MVMax /\ phase # "estimate"
  /\ phase = "estimate" => version = base
  /\ phase = "convert" => version \in 1..VersionLimit
  /\ phase \in {"pad", "done"} =>
       /\ version \in 1..VersionLimit
       /\ bits = Encoded(data, version)
       /\ ~mqr => MinimumVersion(bits, level) <= version
IInv == TypeOK /\ SearchInv /\ StreamFillsSymbol

(* A padded stream has the length of the capacity.                          *)
LEMMA PaddedLengthIsCapacity ==
  ASSUME NEW n \in Nat, NEW words \in Nat, n <= words * 8
  PROVE  PaddedLength(n, words * 8) = words * 8
BY DEF PaddedLength

(* A padded Micro QR stream takes the bytes of the symbol's data.           *)
LEMMA PaddedLengthMQRBytes ==
  ASSUME NEW n \in Nat, NEW cap \in Nat, NEW v \in Nat, n <= cap, cap % 4 = 0
  PROVE  /\ PaddedLengthMQR(n, cap, v) \in Nat
         /\ n <= PaddedLengthMQR(n, cap, v)
         /\ (PaddedLengthMQR(n, cap, v) + 7) \div 8 = (cap + 4) \div 8
BY DEF PaddedLengthMQR

LEMMA InitInvariant == Init => IInv
BY DEF Init, IInv, TypeOK, SearchInv, StreamFillsSymbol, mqr, VersionLimit, ValidMQR,
       Working, Finished

LEMMA NextGuessType ==
  ASSUME NEW d \in Data, NEW l \in Levels, NEW p \in 0..VMax
  PROVE  NextGuess(d, l, p) \in 1..VMax /\ Found(d, l, p) \in 1..VMax
<1>1. Estimated(d, p) \in Nat
  OBVIOUS
<1>2. Found(d, l, p) \in 1..VMax
  BY <1>1, MinimumVersionProperties DEF Found
<1> QED BY <1>2 DEF NextGuess

LEMMA StepInvariant == IInv /\ [Next]_vars => IInv'
<1> SUFFICES ASSUME IInv, [Next]_vars PROVE IInv'
  OBVIOUS
<1> USE DEF IInv, TypeOK, SearchInv, StreamFillsSymbol, mqr, VersionLimit, Working, Finished
<1>1. CASE UNCHANGED vars
  BY <1>1 DEF vars, Capacity
<1>2. ASSUME NEW l \in Levels, SetErrorCorrectionLevel(l) PROVE IInv'
  BY <1>2 DEF SetErrorCorrectionLevel
<1>3. ASSUME NEW v \in Requests, SetVersion(v) PROVE IInv'
  BY <1>3 DEF SetVersion
<1>4. ASSUME NEW v \in 1..MVMax, NEW l \in Levels, SetVersionAndErrorCorrectionLevel(v, l)
      PROVE IInv'
  BY <1>4 DEF SetVersionAndErrorCorrectionLevel
<1>5. CASE GetByteStream
  BY <1>5 DEF GetByteStream
<1>6. CASE Estimate
  <2> DEFINE next == NextGuess(data, level, prev)
  <2>1. next \in 1..VMax /\ ~mqr
    BY <1>6, NextGuessType DEF Estimate
  <2> HIDE DEF next
  <2>2. CASE next > prev
    BY <1>6, <2>1, <2>2 DEF Estimate, next
  <2>3. CASE ~(next > prev)
    BY <1>6, <2>1, <2>3 DEF Estimate, Raise, next
  <2> QED BY <2>2, <2>3
<1>7. CASE Convert
  <2>1. Encoded(data, version) \in Nat /\ data \in Data /\ ~mqr /\ bits' = Encoded(data, version)
    BY <1>7 DEF Convert
  <2>2. MinimumVersion(bits', level) \in 1..VMax
    BY <2>1, MinimumVersionProperties
  <2> QED BY <1>7, <2>1, <2>2 DEF Convert
<1>8. CASE ConvertMQR
  BY <1>8 DEF ConvertMQR
<1>9. CASE OutOfMemory
  BY <1>9 DEF OutOfMemory
<1>10. CASE Pad
  <2>1. bits \in Nat /\ Capacity \in Nat
    BY <1>10 DEF Pad, Capacity
  <2>2. CASE Capacity < bits
    BY <1>10, <2>2 DEF Pad
  <2>3. CASE mqr /\ bits <= Capacity
    <3>1. length' = PaddedLengthMQR(bits, Capacity, version) /\ phase' = "done"
      BY <1>10, <2>1, <2>3 DEF Pad
    <3>2. Capacity % 4 = 0 /\ version \in Nat
      BY <1>10, <2>3 DEF Pad, Capacity
    <3>3. /\ length' \in Nat /\ bits <= length'
          /\ (length' + 7) \div 8 = (Capacity + 4) \div 8
      BY <2>1, <2>3, <3>1, <3>2, PaddedLengthMQRBytes
    <3>4. Capacity' = Capacity
      BY <1>10 DEF Pad, Capacity
    <3> QED BY <1>10, <2>3, <3>1, <3>3, <3>4 DEF Pad
  <2>4. CASE ~mqr /\ bits <= Capacity
    <3>1. length' = PaddedLength(bits, Capacity) /\ phase' = "done"
      BY <1>10, <2>1, <2>4 DEF Pad
    <3>2. Capacity = DataLength(version, level) * 8 /\ DataLength(version, level) \in Nat
      BY <2>4 DEF Capacity
    <3>3. length' = Capacity
      BY <2>1, <2>4, <3>1, <3>2, PaddedLengthIsCapacity
    <3>4. Capacity' = Capacity
      BY <1>10 DEF Pad, Capacity
    <3> QED BY <1>10, <2>1, <2>4, <3>1, <3>3, <3>4 DEF Pad
  <2> QED BY <2>1, <2>2, <2>3, <2>4
<1> QED BY <1>1, <1>2, <1>3, <1>4, <1>5, <1>6, <1>7, <1>8, <1>9, <1>10 DEF Next, Encode

THEOREM TypeCorrect == Spec => []TypeOK
BY InitInvariant, StepInvariant, PTL DEF Spec, IInv

(* Whatever the input and the tables, a stream that is returned has the      *)
(* length of the symbol and holds all the data.                             *)
THEOREM StreamsFillSymbols == Spec => []StreamFillsSymbol
BY InitInvariant, StepInvariant, PTL DEF Spec, IInv

(* No turn of the search repeats: each one that stays in a loop raises the   *)
(* number it searches with, so the loops run at most VMax times.            *)
THEOREM SearchRises == Spec => SearchOnlyRises
<1> DEFINE Rises == (phase \in Working) =>
                      /\ version' >= version
                      /\ phase' = phase => prev' > prev \/ version' > version
<1>1. IInv /\ [Next]_vars => [Rises]_vars
  <2> SUFFICES ASSUME IInv, Next, phase \in Working PROVE Rises
    BY DEF vars
  <2> USE DEF IInv, TypeOK, SearchInv, mqr, VersionLimit, Working, Finished
  <2>1. CASE Estimate
    <3>1. NextGuess(data, level, prev) \in 1..VMax
      BY <2>1, NextGuessType DEF Estimate
    <3> QED BY <2>1, <3>1 DEF Estimate, Raise
  <2>2. CASE Convert
    <3>1. Encoded(data, version) \in Nat /\ bits' = Encoded(data, version)
      BY <2>2 DEF Convert
    <3>2. MinimumVersion(bits', level) \in 1..VMax
      BY <3>1, MinimumVersionProperties
    <3> QED BY <2>2, <3>2 DEF Convert
  <2>3. CASE ConvertMQR \/ OutOfMemory \/ Pad
    BY <2>3 DEF ConvertMQR, OutOfMemory, Pad
  <2> QED BY <2>1, <2>2, <2>3 DEF Next, Encode, SetErrorCorrectionLevel, SetVersion,
             SetVersionAndErrorCorrectionLevel, GetByteStream
<1> QED BY <1>1, InitInvariant, StepInvariant, PTL DEF Spec, SearchOnlyRises
-----------------------------------------------------------------------------
(* Under an estimate to be trusted the search passes a version that would do *)
(* only to come back to it, and no result is below every version it tried.  *)
Results(d, l) == {Found(d, l, p) : p \in NextGuess(d, l, 0)..VMax}

(* No version from base on that holds the data is below n.                   *)
AtMostNeeded(n) == \A v \in 1..VMax : v >= base /\ Fits(Encoded(data, v), v, level) => n <= v

(* A guess such a version is above leads back to it or below.               *)
ReturnsTo(p, v) == p <= v \/ Found(data, level, p) <= v

LeastInv ==
  ~mqr => /\ phase = "estimate" /\ prev # 0 =>
                /\ prev >= NextGuess(data, level, 0)
                /\ \A v \in 1..VMax : v >= base /\ Fits(Encoded(data, v), v, level) => ReturnsTo(prev, v)
          /\ phase \in {"convert", "pad", "done"} =>
                /\ AtMostNeeded(version)
                /\ \E r \in Results(data, level) : r <= version
          /\ phase = "ERANGE" =>
                \A v \in 1..VMax : v >= base => ~Fits(Encoded(data, v), v, level)

LEMMA StepLeast ==
  ASSUME EstimateTrusted, IInv, LeastInv, [Next]_vars
  PROVE  LeastInv'
<1> USE DEF IInv, TypeOK, SearchInv, mqr, VersionLimit, Working, Finished, LeastInv
<1>1. CASE UNCHANGED vars
  BY <1>1 DEF vars, AtMostNeeded, ReturnsTo
<1>2. ASSUME NEW l \in Levels, SetErrorCorrectionLevel(l) PROVE LeastInv'
  BY <1>2 DEF SetErrorCorrectionLevel
<1>3. ASSUME NEW v \in Requests, SetVersion(v) PROVE LeastInv'
  BY <1>3 DEF SetVersion
<1>4. ASSUME NEW v \in 1..MVMax, NEW l \in Levels, SetVersionAndErrorCorrectionLevel(v, l)
      PROVE LeastInv'
  BY <1>4 DEF SetVersionAndErrorCorrectionLevel
<1>5. CASE GetByteStream
  BY <1>5 DEF GetByteStream
<1>6. CASE Estimate
  <2>1. /\ Estimated(data, prev) \in Nat
        /\ data \in Data /\ level \in Levels /\ ~mqr /\ version = base
        /\ UNCHANGED <<data, level, base>>
    BY <1>6 DEF Estimate
  <2> DEFINE next  == NextGuess(data, level, prev)
             first == NextGuess(data, level, 0)
  <2>2. next \in 1..VMax /\ first \in 1..VMax
    BY <2>1, NextGuessType
  <2>3. prev # 0 => next = Found(data, level, prev) /\ prev \in first..VMax
    BY <1>6, <2>1, <2>2 DEF NextGuess, Estimate, first, next
  <2>4. prev = 0 => next = first
    OBVIOUS
  <2> HIDE DEF next, first
  <2>5. ASSUME NEW v \in 1..VMax, v >= base, Fits(Encoded(data, v), v, level)
        PROVE  ReturnsTo(next, v) /\ (next <= prev => next <= v)
    <3>1. first <= v
      BY <2>1, <2>5 DEF EstimateTrusted, first
    <3>2. prev # 0 => ReturnsTo(prev, v)
      BY <1>6, <2>1, <2>5 DEF Estimate
    <3>3. CASE prev = 0
      BY <2>2, <2>4, <3>1, <3>3 DEF ReturnsTo
    <3>4. CASE prev # 0 /\ prev <= v
      <4>1. next <= v \/ Found(data, level, next) <= v
        BY <2>1, <2>3, <2>5, <3>4 DEF EstimateTrusted, first
      <4> QED BY <2>2, <3>4, <4>1 DEF ReturnsTo
    <3>5. CASE prev # 0 /\ ~(prev <= v)
      BY <2>3, <3>2, <3>5 DEF ReturnsTo
    <3> QED BY <3>3, <3>4, <3>5
  <2>6. CASE next > prev
    <3>1. prev' = next /\ phase' = "estimate" /\ prev' # 0
      BY <1>6, <2>2, <2>6 DEF Estimate, next
    <3>2. prev' >= NextGuess(data', level', 0)
      BY <2>1, <2>2, <2>3, <2>4, <2>6, <3>1 DEF first
    <3>3. \A v \in 1..VMax : v >= base' /\ Fits(Encoded(data', v), v, level') => ReturnsTo(prev, v)'
      BY <2>1, <2>5, <3>1 DEF ReturnsTo
    <3> QED BY <2>1, <3>1, <3>2, <3>3
  <2>7. CASE ~(next > prev)
    <3>1. Raise(next) /\ phase' = "convert" /\ prev # 0
      BY <1>6, <2>2, <2>7 DEF Estimate, next
    <3>2. AtMostNeeded(version)'
      BY <2>1, <2>2, <2>5, <2>7, <3>1 DEF Raise, AtMostNeeded
    <3>3. next <= version' /\ next \in Results(data', level')
      BY <2>1, <2>2, <2>3, <3>1 DEF Raise, Results, first
    <3> QED BY <2>1, <3>1, <3>2, <3>3
  <2> QED BY <2>6, <2>7
<1>7. CASE Convert
  <2>1. /\ Encoded(data, version) \in Nat /\ bits' = Encoded(data, version)
        /\ data \in Data /\ level \in Levels /\ ~mqr /\ version \in 1..VMax
        /\ UNCHANGED <<data, level, base>>
    BY <1>7 DEF Convert
  <2> DEFINE needed == MinimumVersion(bits', level)
  <2>2. needed \in 1..VMax
    BY <2>1, MinimumVersionProperties
  <2>3. PICK r \in Results(data, level) : r <= version
    BY <1>7, <2>1 DEF Convert
  <2>4. CASE needed > version
    <3>1. version' = needed /\ phase' = "convert"
      BY <1>7, <2>4 DEF Convert
    <3>2. ASSUME NEW v \in 1..VMax, v >= base, Fits(Encoded(data, v), v, level)
          PROVE  needed <= v
      <4>1. version <= v
        BY <1>7, <2>1, <3>2 DEF Convert, AtMostNeeded
      <4>2. Fits(Encoded(data, version), v, level)
        BY <2>1, <2>3, <3>2, <4>1 DEF EstimateTrusted, Results
      <4> QED BY <2>1, <4>2, MinimumVersionProperties
    <3>3. AtMostNeeded(version)'
      BY <2>1, <3>1, <3>2 DEF AtMostNeeded
    <3>4. r \in Results(data, level)' /\ r <= version'
      BY <2>1, <2>2, <2>3, <2>4, <3>1, NextGuessType DEF Results
    <3> QED BY <2>1, <3>1, <3>3, <3>4
  <2>5. CASE ~(needed > version)
    <3>1. version' = version /\ phase' = "pad"
      BY <1>7, <2>5 DEF Convert
    <3>2. AtMostNeeded(version)'
      BY <1>7, <2>1, <3>1 DEF Convert, AtMostNeeded
    <3>3. r \in Results(data, level)' /\ r <= version'
      BY <2>1, <2>3, <3>1 DEF Results
    <3> QED BY <2>1, <3>1, <3>2, <3>3
  <2> QED BY <2>4, <2>5
<1>8. CASE ConvertMQR
  BY <1>8 DEF ConvertMQR
<1>9. CASE OutOfMemory
  BY <1>9 DEF OutOfMemory, AtMostNeeded
<1>10. CASE Pad
  <2> SUFFICES ASSUME ~mqr PROVE LeastInv'
    BY <1>10 DEF Pad
  <2>1. ~mqr
    OBVIOUS
  <2>2. /\ bits = Encoded(data, version) /\ bits \in Nat /\ version \in 1..VMax
        /\ data \in Data /\ level \in Levels
        /\ UNCHANGED <<data, level, base, version>>
    BY <1>10, <2>1 DEF Pad
  <2>3. AtMostNeeded(version) /\ \E r \in Results(data, level) : r <= version
    BY <1>10, <2>1 DEF Pad
  <2>4. CASE Capacity < bits
    <3>1. phase' = "ERANGE" /\ ~Fits(bits, version, level)
      BY <1>10, <2>1, <2>2, <2>4 DEF Pad, Capacity, Fits
    <3>2. ASSUME NEW v \in 1..VMax, v >= base, Fits(Encoded(data, v), v, level)
          PROVE  FALSE
      <4>1. version <= v
        BY <2>3, <3>2 DEF AtMostNeeded
      <4>2. Fits(bits, v, level)
        BY <2>2, <2>3, <3>2, <4>1 DEF EstimateTrusted, Results
      <4>3. Fits(bits, MinimumVersion(bits, level), level)
        BY <2>2, <4>2, MinimumVersionProperties
      <4>4. MinimumVersion(bits, level) \in 1..version
        BY <1>10, <2>1, <2>2, MinimumVersionProperties DEF Pad
      <4> QED BY <2>2, <3>1, <4>3, <4>4 DEF Fits
    <3> QED BY <2>2, <3>1, <3>2
  <2>5. CASE ~(Capacity < bits)
    <3>1. phase' = "done"
      BY <1>10, <2>5 DEF Pad
    <3> QED BY <2>2, <2>3, <3>1 DEF AtMostNeeded, Results
  <2> QED BY <2>4, <2>5
<1> QED BY <1>1, <1>2, <1>3, <1>4, <1>5, <1>6, <1>7, <1>8, <1>9, <1>10 DEF Next, Encode

(* A Micro QR input is refused for the version it was given.                 *)
MicroInv == mqr /\ phase = "ERANGE" => ~Encodable(data, version) \/ Encoded(data, version) > Capacity

LEMMA StepMicro ==
  ASSUME IInv, MicroInv, [Next]_vars
  PROVE  MicroInv'
<1> USE DEF IInv, TypeOK, SearchInv, mqr, VersionLimit, Working, Finished, MicroInv, Capacity
<1>1. CASE UNCHANGED vars
  BY <1>1 DEF vars
<1>2. CASE \/ \E l \in Levels : SetErrorCorrectionLevel(l)
           \/ \E v \in Requests : SetVersion(v)
           \/ \E v \in 1..MVMax, l \in Levels : SetVersionAndErrorCorrectionLevel(v, l)
           \/ GetByteStream
  BY <1>2 DEF SetErrorCorrectionLevel, SetVersion, SetVersionAndErrorCorrectionLevel,
     GetByteStream
<1>3. CASE Estimate \/ Convert \/ ConvertMQR \/ OutOfMemory
  BY <1>3 DEF Estimate, Convert, ConvertMQR, OutOfMemory
<1>4. CASE Pad
  BY <1>4 DEF Pad
<1> QED BY <1>1, <1>2, <1>3, <1>4 DEF Next, Encode

LEMMA SearchSound ==
  ASSUME EstimateTrusted
  PROVE  Spec => [](SmallestSufficientVersion /\ RefusedOnlyIfTooLarge)
<1>1. Init => IInv /\ LeastInv /\ MicroInv
  <2>1. Init => LeastInv /\ MicroInv
    BY DEF Init, LeastInv, MicroInv
  <2> QED BY <2>1, InitInvariant
<1>2. IInv /\ LeastInv /\ MicroInv /\ [Next]_vars => (IInv /\ LeastInv /\ MicroInv)'
  BY StepInvariant, StepLeast, StepMicro
<1>3. IInv /\ LeastInv /\ MicroInv => SmallestSufficientVersion /\ RefusedOnlyIfTooLarge
  <2> SUFFICES ASSUME IInv, LeastInv, MicroInv
               PROVE  SmallestSufficientVersion /\ RefusedOnlyIfTooLarge
    OBVIOUS
  <2>1. SmallestSufficientVersion
    BY DEF LeastInv, AtMostNeeded, SmallestSufficientVersion, IInv, TypeOK, VersionLimit
  <2>2. RefusedOnlyIfTooLarge
    BY DEF LeastInv, MicroInv, RefusedOnlyIfTooLarge
  <2> QED BY <2>1, <2>2
<1> QED BY <1>1, <1>2, <1>3, PTL DEF Spec

(* Where the estimate can be trusted, a finished encode has the smallest     *)
(* sufficient version it was allowed to choose.                              *)
THEOREM SmallestVersion ==
  ASSUME EstimateTrusted
  PROVE  Spec => []SmallestSufficientVersion
BY SearchSound, PTL

(* There an input is refused as too large only when no version that may be   *)
(* chosen holds it; a Micro QR input, when the version of its object does    *)
(* not hold it or lacks one of its modes.                                    *)
THEOREM RefusesOnlyTooLarge ==
  ASSUME EstimateTrusted
  PROVE  Spec => []RefusedOnlyIfTooLarge
BY SearchSound, PTL
=============================================================================
