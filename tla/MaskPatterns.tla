----------------------------- MODULE MaskPatterns -----------------------------
(***************************************************************************)
(* The masks of src/mask.c and src/mmask.c and the scores they are chosen  *)
(* by.  A frame is a function from its modules, y * width + x, to 0 (light)*)
(* and 1 (dark); a line of it a sequence.                                  *)
(***************************************************************************)
EXTENDS Placement, FiniteSetsExt

N1 == 3
N2 == 3
N3 == 40
N4 == 10
maskNum(s) == IF s.mqr THEN 4 ELSE 8

(* The expressions of MASKMAKER; a free module is inverted where one is 0.  *)
Expression(m, x, y) ==
  CASE m = 0 -> (x + y) % 2
    [] m = 1 -> y % 2
    [] m = 2 -> x % 3
    [] m = 3 -> (x + y) % 3
    [] m = 4 -> (y \div 2 + x \div 3) % 2
    [] m = 5 -> ((x * y) % 2) + ((x * y) % 3)
    [] m = 6 -> (((x * y) % 2) + ((x * y) % 3)) % 2
    [] m = 7 -> (((x * y) % 3) + ((x + y) % 2)) % 2

\* The four masks of Micro QR are these.
MicroMask(m) == <<1, 4, 6, 7>>[m + 1]

maskMakers(s, frame, m) ==
  LET w == Width(s)
      e == IF s.mqr THEN MicroMask(m) ELSE m
  IN  [p \in DOMAIN frame |->
         IF Frames[s][p] # FunctionPattern /\ Expression(e, p % w, p \div w) = 0
         THEN 1 - frame[p] ELSE frame[p]]
-----------------------------------------------------------------------------
(* Format information: 15 bits that tell the level, or the version and the  *)
(* level of a Micro QR symbol, and the mask.                                *)
formatInfo == <<
  <<\h77c4, \h72f3, \h7daa, \h789d, \h662f, \h6318, \h6c41, \h6976>>,
  <<\h5412, \h5125, \h5e7c, \h5b4b, \h45f9, \h40ce, \h4f97, \h4aa0>>,
  <<\h355f, \h3068, \h3f31, \h3a06, \h24b4, \h2183, \h2eda, \h2bed>>,
  <<\h1689, \h13be, \h1ce7, \h19d0, \h0762, \h0255, \h0d0c, \h083b>>>>
QRspec_getFormatInfo(m, level) == formatInfo[level + 1][m + 1]

MQRformatInfo == <<
  <<\h4445, \h55ae, \h6793, \h7678, \h06de, \h1735, \h2508, \h34e3>>,
  <<\h4172, \h5099, \h62a4, \h734f, \h03e9, \h1202, \h203f, \h31d4>>,
  <<\h4e2b, \h5fc0, \h6dfd, \h7c16, \h0cb0, \h1d5b, \h2f66, \h3e8d>>,
  <<\h4b1c, \h5af7, \h68ca, \h7921, \h0987, \h186c, \h2a51, \h3bba>>>>
typeTable == << <<0>>, <<1, 2>>, <<3, 4>>, <<5, 6, 7>> >>
MQRspec_getFormatInfo(m, version, level) ==
  MQRformatInfo[m + 1][typeTable[version][level + 1] + 1]

FormatInfo(s, m) == IF s.mqr THEN MQRspec_getFormatInfo(m, s.version, s.level)
                                ELSE QRspec_getFormatInfo(m, s.level)

\* The modules of bit k: two of a QR symbol, one of a Micro QR symbol.
FormatModules(s, k) ==
  LET w == Width(s) IN
  IF s.mqr THEN IF k < 8 THEN {<<8, k + 1>>} ELSE {<<15 - k, 8>>}
  ELSE IF k < 8 THEN {<<w - 1 - k, 8>>, <<8, IF k < 6 THEN k ELSE k + 1>>}
  ELSE {<<8, w - 15 + k>>, <<IF k = 8 THEN 7 ELSE 14 - k, 8>>}

FormatBits == [s \in Symbols |->
  LET At(p) == <<p % Width(s), p \div Width(s)>>
  IN  [p \in {q \in DOMAIN Frames[s] : \E k \in 0..14 : At(q) \in FormatModules(s, k)} |->
         CHOOSE k \in 0..14 : At(p) \in FormatModules(s, k)]]
writeFormatInformation(s, frame, m) ==
  [p \in DOMAIN frame |-> IF p \in DOMAIN FormatBits[s] THEN BitAt(FormatInfo(s, m), FormatBits[s][p])
                                                        ELSE frame[p]]

Masked(s, frame, m) == writeFormatInformation(s, maskMakers(s, frame, m), m)
-----------------------------------------------------------------------------
(* Mask_evaluateSymbol.                                                     *)
LineH(frame, w, y) == [k \in 1..w |-> frame[y * w + k - 1]]
LineV(frame, w, x) == [k \in 1..w |-> frame[(k - 1) * w + x]]

\* Mask_calcRunLengthH and V: light and dark runs in turn, the first one light;
\* a line that starts dark has the length -1 for it.
Mask_calcRunLength(line) ==
  LET heads == SelectSeq([k \in DOMAIN line |-> k], LAMBDA k : k = 1 \/ line[k] # line[k - 1])
      runs  == [r \in DOMAIN heads |->
                  (IF r = Len(heads) THEN Len(line) + 1 ELSE heads[r + 1]) - heads[r]]
  IN  (IF line[1] = 1 THEN <<-1>> ELSE <<>>) \o runs

\* The code counts runs from 0: odd ones are dark.  A run of three units
\* between four of one unit is a finder-like pattern when light of at least
\* four units, or the edge, is before or after it.
Finderlike(runs, i) ==
  LET length == Len(runs)
      run(k) == runs[k + 1]
      fact   == run(i) \div 3
  IN  /\ i % 2 = 1 /\ i >= 3 /\ i < length - 2 /\ run(i) % 3 = 0
      /\ \A k \in {-2, -1, 1, 2} : run(i + k) = fact
      /\ \/ i = 3 \/ run(i - 3) >= 4 * fact
         \/ i + 4 >= length \/ run(i + 3) >= 4 * fact

Mask_calcN1N3(runs) ==
  MapThenSumSet(LAMBDA r : N1 + runs[r] - 5, {r \in DOMAIN runs : runs[r] >= 5})
    + N3 * Cardinality({i \in 1..(Len(runs) - 1) : Finderlike(runs, i)})

Mask_calcN2(frame, w) ==
  N2 * Cardinality({p \in DOMAIN frame :
         p % w > 0 /\ p >= w /\ frame[p] + frame[p - 1] + frame[p - w] + frame[p - w - 1] \in {0, 4}})

Mask_evaluateSymbol(frame, w) ==
  Mask_calcN2(frame, w)
    + MapThenSumSet(LAMBDA n : Mask_calcN1N3(Mask_calcRunLength(LineH(frame, w, n)))
                               + Mask_calcN1N3(Mask_calcRunLength(LineV(frame, w, n))), 0..(w - 1))

\* Mask_mask: the dark modules are those of the masked frame, in which
\* the format information is still light, and two for each dark bit of that.
Blacks(s, frame, m) ==
  LET masked == maskMakers(s, frame, m)
  IN  Cardinality({p \in DOMAIN frame : masked[p] = 1})
        + 2 * Cardinality({k \in 0..14 : BitAt(FormatInfo(s, m), k) = 1})
abs(n) == IF n < 0 THEN -n ELSE n
Mask_ratioDemerit(w, blacks) ==
  LET w2     == w * w
      bratio == ((200 * blacks + w2) \div w2) \div 2
  IN  (abs(bratio - 50) \div 5) * N4

\* MMask_evaluateSymbol: the dark modules of the lowest row and of the right
\* column, without their first.
MMask_evaluateSymbol(frame, w) ==
  LET sum1 == Cardinality({x \in 1..(w - 1) : frame[w * (w - 1) + x] = 1})
      sum2 == Cardinality({y \in 1..(w - 1) : frame[y * w + w - 1] = 1})
  IN  IF sum1 <= sum2 THEN sum1 * 16 + sum2 ELSE sum2 * 16 + sum1
=============================================================================
