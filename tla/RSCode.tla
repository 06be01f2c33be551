------------------------------- MODULE RSCode -------------------------------
(***************************************************************************)
(* The arithmetic of src/rsecc.c (RSECC models the threads that share its  *)
(* tables): GF(2^8) and the Reed-Solomon code words of a block.  A byte,   *)
(* a polynomial over GF(2), is the set of the exponents it has.            *)
(***************************************************************************)
EXTENDS Integers, Sequences

Xor(a, b) == (a \ b) \cup (b \ a)

symbols == 255
proot   == {8, 4, 3, 2, 0}
Zero    == {}
One     == {0}

\* b <<= 1, reduced by proot.
Double(b) == LET c == {k + 1 : k \in b} IN IF 8 \in c THEN Xor(c, proot) ELSE c

\* RSECC_initLookupTable: alpha[i] is the i-th power of the root, alpha[255]
\* is 0, and aindex is the inverse.  (Rows of 16, so that TLC recurses little.)
Doubled[b \in SUBSET (0..7), n \in 0..16] == IF n = 0 THEN b ELSE Doubled[Double(b), n - 1]
Row[r \in 0..15] == IF r = 0 THEN One ELSE Doubled[Row[r - 1], 16]
alpha  == [i \in 0..symbols |-> IF i = symbols THEN Zero ELSE Doubled[Row[i \div 16], i % 16]]
aindex == [b \in SUBSET (0..7) |-> CHOOSE i \in 0..symbols : alpha[i] = b]

\* What makes the tables those of a field: closed formulas, which TLC evaluates.
Byte == SUBSET (0..7)
ASSUME PowersAssumption ==
  /\ alpha[0] = One /\ alpha[symbols] = Zero
  /\ \A i \in 0..(symbols - 1) : alpha[(i + 1) % symbols] = Double(alpha[i])
ASSUME LogsAssumption ==
  /\ \A i \in 0..(symbols - 1) : alpha[i] \in Byte /\ alpha[i] # Zero /\ aindex[alpha[i]] = i
  /\ \A b \in Byte : b # Zero => aindex[b] \in 0..(symbols - 1) /\ alpha[aindex[b]] = b
  /\ aindex[Zero] = symbols

Log(e) == e % symbols

\* generator_init: the logarithms of the coefficients, the constant one first,
\* of the polynomial with the roots alpha[0] on.  (The loop takes the
\* logarithm 255 of a zero coefficient modulo 255; no generator has one.)
Times(a, e) == alpha[Log(aindex[a] + e)]
generator_init(length) ==
  LET g[i \in 0..length] ==
        IF i = 0 THEN <<One>>
        ELSE LET h == g[i - 1]
             IN  Append([j \in 1..i |-> LET up == Times(h[j], i - 1)
                                        IN  IF j = 1 THEN up ELSE Xor(h[j - 1], up)], One)
  IN  [j \in 1..(length + 1) |-> aindex[g[length][j]]]
generator == [length \in 2..30 |-> generator_init(length)]

\* RSECC_encode: the remainder of the data by the generator, one byte of data
\* at a time; ecc is shifted down by one and gets a new last byte.
EncodeByteFrom(length, ecc, first) ==
  LET gen == generator[length]
      feedback == aindex[first]
      Term(j)  == IF feedback = symbols THEN Zero ELSE alpha[Log(feedback + gen[j + 1])]
  IN  Append([j \in 1..(length - 1) |-> Xor(ecc[j + 1], Term(length - j))], Term(0))
\* Faulty variant: the first byte of ecc is not fed back.
EncodeByteAlone(length, ecc, byte) == EncodeByteFrom(length, ecc, byte)
EncodeByte(length, ecc, byte)      == EncodeByteFrom(length, ecc, Xor(byte, ecc[1]))
RSECC_encode(length, data) ==
  LET ecc[i \in 0..Len(data)] ==
        IF i = 0 THEN [j \in 1..length |-> Zero] ELSE EncodeByte(length, ecc[i - 1], data[i])
  IN  ecc[Len(data)]

\* The standard's condition for a block: as a polynomial it has the roots
\* alpha[0] to alpha[length - 1] (Horner's rule).
Scaled(a, e) == IF a = Zero THEN Zero ELSE Times(a, e)
Syndrome(block, e) ==
  LET value[i \in 0..Len(block)] ==
        IF i = 0 THEN Zero ELSE Xor(Scaled(value[i - 1], e), block[i])
  IN  value[Len(block)]
IsCodeWord(block, length) == \A e \in 0..(length - 1) : Syndrome(block, e) = Zero

\* The generators have no zero coefficient, are monic, and have these roots.
ASSUME GeneratorAssumption ==
  \A length \in DOMAIN generator :
    LET gen == generator[length]
    IN  /\ gen \in [1..(length + 1) -> 0..(symbols - 1)] /\ gen[length + 1] = 0
        /\ IsCodeWord([k \in 1..(length + 1) |-> alpha[gen[length + 2 - k]]], length)
=============================================================================
