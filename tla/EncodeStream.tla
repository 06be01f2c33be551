---------------------------- MODULE EncodeStream ----------------------------
(***************************************************************************)
(* src/qrinput.c, from the chunk list to the padded bit stream             *)
(* (QRinput_getByteStream): the version is estimated, the chunks are       *)
(* encoded, the version is raised until the result fits, and the stream is *)
(* padded to the capacity of the symbol.  How many bits data takes and how *)
(* many a symbol holds are parameters, so that what is proved about this   *)
(* control flow holds for every input; the bits themselves do not matter   *)
(* here.  The object survives the call: the caller may change the level or *)
(* the version and encode again, starting from the version it was left at. *)
(***************************************************************************)
EXTENDS Integers

CONSTANTS Data,               \* chunk lists of QR inputs
          MicroData,          \* chunk lists of Micro QR inputs
          Levels,
          VMax,               \* QRSPEC_VERSION_MAX
          MVMax,              \* MQRSPEC_VERSION_MAX
          Estimated(_, _),    \* QRinput_estimateBitStreamSize(data, version)
          Encoded(_, _),      \* bits QRinput_createBitStream appends
          Encodable(_, _),    \* Micro QR: every mode exists in the version
          DataLength(_, _),   \* QRspec_getDataLength(version, level)
          DataLengthBit(_, _),\* MQRspec_getDataLengthBit(version, level)
          Requests,           \* bound: versions the caller asks for
          MaxEncodes          \* bound: calls on one object

ASSUME SizesAssumption ==
  /\ VMax \in Nat \ {0} /\ MVMax \in Nat \ {0} /\ Requests \subseteq 0..VMax
  /\ MaxEncodes \in Nat /\ Data \cap MicroData = {}
ASSUME BitsAssumption ==
  /\ \A d \in Data, v \in 0..VMax : Estimated(d, v) \in Nat
  /\ \A d \in Data, v \in 1..VMax : Encoded(d, v) \in Nat
  /\ \A d \in MicroData, v \in 1..MVMax : Encoded(d, v) \in Nat /\ Encodable(d, v) \in BOOLEAN
ASSUME CapacityAssumption ==
  /\ \A v \in 0..VMax, l \in Levels : DataLength(v, l) \in Nat
  /\ \A v, w \in 1..VMax, l \in Levels : v <= w => DataLength(v, l) <= DataLength(w, l)
  /\ \A v \in 1..MVMax, l \in Levels : DataLengthBit(v, l) \in Nat /\ DataLengthBit(v, l) % 4 = 0

VARIABLES data, level, version,  \* the QRinput object; MicroData means input->mqr
          phase,
          base,                  \* version when the running encode began
          prev,                  \* QRinput_estimateVersion's loop variable
          bits,                  \* BitStream_size(bstream) after the conversion
          length,                \* BitStream_size(bstream) after the padding
          encodes                \* calls so far

vars == <<data, level, version, phase, base, prev, bits, length, encodes>>

mqr == data \in MicroData
VersionLimit == IF mqr THEN MVMax ELSE VMax
Capacity == IF mqr THEN DataLengthBit(version, level) ELSE DataLength(version, level) * 8

Working  == {"estimate", "convert", "pad"}
Finished == {"ready", "done", "ENOMEM", "ERANGE"}

(* QRspec_getMinimumVersion: the last version when no version is enough.    *)
Fits(n, v, l) == DataLength(v, l) * 8 >= n

\* Faulty variant: the loop variable is returned.
MinimumVersionPastTheEnd(n, l) ==
  IF \E v \in 1..VMax : Fits(n, v, l)
    THEN CHOOSE v \in 1..VMax : Fits(n, v, l) /\ \A w \in 1..v - 1 : ~Fits(n, w, l)
    ELSE VMax + 1
MinimumVersion(n, l) ==
  IF \E v \in 1..VMax : Fits(n, v, l)
    THEN CHOOSE v \in 1..VMax : Fits(n, v, l) /\ \A w \in 1..v - 1 : ~Fits(n, w, l)
    ELSE VMax

\* QRinput_newMQR and QRinput_setVersionAndErrorCorrectionLevel
ValidMQR(v, l) == v \in 1..MVMax /\ DataLengthBit(v, l) > 0

Init == /\ data \in Data \cup MicroData
        /\ level \in Levels
        /\ version \in IF mqr THEN {v \in 1..MVMax : ValidMQR(v, level)} ELSE Requests
        /\ phase = "ready"
        /\ base = version /\ prev = 0 /\ bits = 0 /\ length = 0 /\ encodes = 0
-----------------------------------------------------------------------------
(* Calls between two encodes.  The setters of one parameter refuse a Micro  *)
(* QR object.                                                               *)
SetErrorCorrectionLevel(l) ==
  /\ phase \in Finished /\ ~mqr
  /\ level' = l
  /\ phase' = "ready"
  /\ UNCHANGED <<data, version, base, prev, bits, length, encodes>>

SetVersion(v) ==
  /\ phase \in Finished /\ ~mqr
  /\ version' = v
  /\ phase' = "ready"
  /\ UNCHANGED <<data, level, base, prev, bits, length, encodes>>

SetVersionAndErrorCorrectionLevel(v, l) ==
  /\ phase \in Finished /\ mqr /\ ValidMQR(v, l)
  /\ version' = v /\ level' = l
  /\ phase' = "ready"
  /\ UNCHANGED <<data, base, prev, bits, length, encodes>>

(* QRinput_getByteStream: a new stream; a Micro QR object has no search.    *)
GetByteStream ==
  /\ phase \in Finished /\ encodes < MaxEncodes
  /\ encodes' = encodes + 1
  /\ base' = version /\ prev' = 0 /\ bits' = 0 /\ length' = 0
  /\ phase' = IF mqr THEN "convert" ELSE "estimate"
  /\ UNCHANGED <<data, level, version>>
-----------------------------------------------------------------------------
(* QRinput_estimateVersion: one turn of its loop, then the first statement  *)
(* of QRinput_convertData.                                                  *)
RaiseAlways(v) == version' = v  \* faulty variant
Raise(v) == version' = IF v > version THEN v ELSE version

Found(d, l, p) == MinimumVersion(Estimated(d, p), l)
NextGuess(d, l, p) == IF p = 0 /\ Found(d, l, p) > 1 THEN Found(d, l, p) - 1 ELSE Found(d, l, p)

Estimate ==
  /\ phase = "estimate"
  /\ LET next == NextGuess(data, level, prev)
     IN  IF next > prev
           THEN prev' = next /\ UNCHANGED <<version, phase>>
           ELSE Raise(next) /\ phase' = "convert" /\ UNCHANGED prev
  /\ UNCHANGED <<data, level, base, bits, length, encodes>>

(* The estimate can be trusted: a version that holds the encoded data is    *)
(* not below the first guess; an estimate made at a version the search may  *)
(* try before it does not exceed it, or leads to a version whose estimate   *)
(* does not (an alphanumeric chunk that the length fields of version 26     *)
(* would cut in two, those of version 27 not); and no encoding made before  *)
(* it exceeds it.  TLC evaluates this on the lists of its run; an ECI       *)
(* header breaks it.  The search finds the smallest version because of it.  *)
EstimateTrusted ==
  \A d \in Data, l \in Levels :
    LET guesses == NextGuess(d, l, 0)..VMax
    IN  \A v \in 1..VMax : Fits(Encoded(d, v), v, l) =>
          /\ NextGuess(d, l, 0) <= v
          /\ \A p \in guesses : p <= v => Found(d, l, p) <= v \/ Found(d, l, Found(d, l, p)) <= v
          /\ \A w \in 1..v : (\E p \in guesses : Found(d, l, p) <= w) => Fits(Encoded(d, w), v, l)
-----------------------------------------------------------------------------
(* Faulty variants of Convert: the result is taken to need a byte it does   *)
(* not use; the loop repeats for an equal version.                          *)
ConvertByteMore ==
  /\ phase = "convert" /\ ~mqr
  /\ bits' = Encoded(data, version)
  /\ LET needed == MinimumVersion(8 * (bits' \div 8 + 1), level)
     IN  IF needed > version THEN version' = needed /\ UNCHANGED phase
                             ELSE phase' = "pad" /\ UNCHANGED version
  /\ UNCHANGED <<data, level, base, prev, length, encodes>>

ConvertUntilBelow ==
  /\ phase = "convert" /\ ~mqr
  /\ bits' = Encoded(data, version)
  /\ LET needed == MinimumVersion(bits', level)
     IN  IF needed >= version THEN version' = needed /\ UNCHANGED phase
                              ELSE phase' = "pad" /\ UNCHANGED version
  /\ UNCHANGED <<data, level, base, prev, length, encodes>>

(* One turn of the loop of QRinput_convertData: reset the stream, encode    *)
(* with the present version, and encode again if the result needs a larger  *)
(* one.                                                                     *)
Convert ==
  /\ phase = "convert" /\ ~mqr
  /\ bits' = Encoded(data, version)
  /\ LET needed == MinimumVersion(bits', level)
     IN  IF needed > version THEN version' = needed /\ UNCHANGED phase
                             ELSE phase' = "pad" /\ UNCHANGED version
  /\ UNCHANGED <<data, level, base, prev, length, encodes>>

ConvertMQR ==
  /\ phase = "convert" /\ mqr
  /\ IF Encodable(data, version)
       THEN bits' = Encoded(data, version) /\ phase' = "pad"
       ELSE phase' = "ERANGE" /\ UNCHANGED bits
  /\ UNCHANGED <<data, level, version, base, prev, length, encodes>>

(* malloc, or realloc of the stream, fails.                                 *)
OutOfMemory ==
  /\ phase \in {"convert", "pad"}
  /\ phase' = "ENOMEM"
  /\ UNCHANGED <<data, level, version, base, prev, bits, length, encodes>>
-----------------------------------------------------------------------------
(* QRinput_appendPaddingBit: bits of terminator and pad codewords.  Faulty  *)
(* variant: the short terminator of a nearly full symbol is forgotten.      *)
PaddedLengthNoTerminator(n, cap) ==
  LET words == (n + 4 + 7) \div 8
      pads  == cap \div 8 - words
  IN  IF cap - n <= 4 THEN n
                      ELSE words * 8 + (IF pads > 0 THEN pads * 8 ELSE 0)

PaddedLength(n, cap) ==
  LET words == (n + 4 + 7) \div 8
      pads  == cap \div 8 - words
  IN  IF cap - n <= 4 THEN cap
                      ELSE words * 8 + (IF pads > 0 THEN pads * 8 ELSE 0)

(* QRinput_appendPaddingBitMQR: the capacity of M1 and M3 ends in half a    *)
(* byte.                                                                    *)
PaddedLengthMQR(n, cap, v) ==
  LET maxwords == cap \div 8
      term     == v * 2 + 1
      words    == (n + term + 7) \div 8
      align    == words * 8 - (n + term)
      zeros    == term + align
                   + (IF cap - words * 8 > 0 /\ words = maxwords THEN cap - words * 8 ELSE 0)
      pads     == maxwords - words
      tail     == cap - maxwords * 8
  IN  IF cap - n <= term THEN cap
      ELSE n + zeros + (IF pads > 0 THEN pads * 8 + tail ELSE 0)

PadSpareByte ==  \* faulty variant: a full symbol is refused
  /\ phase = "pad"
  /\ IF Capacity <= bits
       THEN phase' = "ERANGE" /\ UNCHANGED length
       ELSE /\ length' = IF mqr THEN PaddedLengthMQR(bits, Capacity, version)
                                ELSE PaddedLength(bits, Capacity)
            /\ phase' = "done"
  /\ UNCHANGED <<data, level, version, base, prev, bits, encodes>>

Pad ==
  /\ phase = "pad"
  /\ IF Capacity < bits
       THEN phase' = "ERANGE" /\ UNCHANGED length
       ELSE /\ length' = IF mqr THEN PaddedLengthMQR(bits, Capacity, version)
                                ELSE PaddedLength(bits, Capacity)
            /\ phase' = "done"
  /\ UNCHANGED <<data, level, version, base, prev, bits, encodes>>

Encode == Estimate \/ Convert \/ ConvertMQR \/ Pad

Next == \/ \E l \in Levels : SetErrorCorrectionLevel(l)
        \/ \E v \in Requests : SetVersion(v)
        \/ \E v \in 1..MVMax, l \in Levels : SetVersionAndErrorCorrectionLevel(v, l)
        \/ GetByteStream
        \/ Encode \/ OutOfMemory

Spec == Init /\ [][Next]_vars
FairSpec == Spec /\ WF_vars(Encode)  \* the encoder is a function: it runs until it returns
-----------------------------------------------------------------------------
(* Type invariant.                                                          *)
TypeOK == /\ data \in Data \/ mqr
          /\ level \in Levels
          /\ version \in 0..VersionLimit /\ base \in 0..VersionLimit
          /\ phase \in Working \cup Finished
          /\ prev \in 0..VMax
          /\ bits \in Nat /\ length \in Nat
          /\ encodes \in 0..MaxEncodes

(* A finished stream fills the symbol exactly, with every bit of data in    *)
(* it.  A Micro QR stream may end past a half-byte codeword, never past the *)
(* byte that holds it.                                                      *)
StreamFillsSymbol ==
  phase = "done" => /\ bits <= length
                    /\ bits = Encoded(data, version)
                    /\ version \in 1..VersionLimit
                    /\ IF mqr THEN bits <= Capacity /\ (length + 7) \div 8 = (Capacity + 4) \div 8
                              ELSE length = Capacity

(* "Input data is too large" is said only of data that fits no version the  *)
(* search may choose (Micro QR: not the version of the object).             *)
RefusedOnlyIfTooLarge ==
  phase = "ERANGE" =>
     IF mqr THEN ~Encodable(data, version) \/ Encoded(data, version) > Capacity
            ELSE \A v \in 1..VMax : v >= base => ~Fits(Encoded(data, v), v, level)

(* "The version of the result may be larger than specified. In such cases,  *)
(* the input data would be too large to be encoded in a symbol of the       *)
(* specified version" (qrencode.h:66): the version an encode ends with is   *)
(* the one it began with or the smallest the data fits.                     *)
SmallestSufficientVersion ==
  phase = "done" /\ ~mqr =>
     \A v \in 1..version - 1 : v >= base => ~Fits(Encoded(data, v), v, level)

(* An encode never lowers the version, and each turn of its loops raises    *)
(* the number it searches with: neither loop runs more than VMax times.     *)
SearchOnlyRises ==
  [][(phase \in Working) =>
       /\ version' >= version
       /\ phase' = phase => prev' > prev \/ version' > version]_vars

(* An encode ends, with a stream or with an error.                          *)
EncodeEnds == phase \in Working ~> phase \in Finished
=============================================================================
