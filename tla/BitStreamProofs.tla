--------------------------- MODULE BitStreamProofs ---------------------------
(* Proofs about BitStream for every buffer size and every chunk.            *)
EXTENDS BitStream, SequenceTheorems, TLAPS

LEMMA NumBitsType ==
  ASSUME NEW n \in Nat, NEW num \in Nat
  PROVE  NumBits(n, num) \in Seq({0, 1}) /\ Len(NumBits(n, num)) = n
<1>1. \A i \in 1..n : (num \div 2 ^ (n - i)) % 2 \in {0, 1}
  OBVIOUS
<1> QED BY <1>1 DEF NumBits

LEMMA ByteBitsType ==
  ASSUME NEW s \in Seq(0..255)
  PROVE  ByteBits(s) \in Seq({0, 1}) /\ Len(ByteBits(s)) = 8 * Len(s)
<1>1. ASSUME NEW i \in 1..8 * Len(s)
      PROVE  NumBits(8, s[((i - 1) \div 8) + 1])[((i - 1) % 8) + 1] \in {0, 1}
  <2>1. (i - 1) \div 8 \in 0..Len(s) - 1 /\ (i - 1) % 8 \in 0..7
    OBVIOUS
  <2> DEFINE b == s[((i - 1) \div 8) + 1]
             k == (i - 1) % 8
  <2>2. b \in Nat
    <3>1. ((i - 1) \div 8) + 1 \in 1..Len(s)
      BY <2>1
    <3>2. b \in 0..255
      BY <3>1, ElementOfSeq
    <3> HIDE DEF b
    <3> QED BY <3>2
  <2> HIDE DEF b
  <2>3. NumBits(8, b) \in [1..8 -> {0, 1}]
    <3>1. \A j \in 1..8 : (b \div 2 ^ (8 - j)) % 2 \in {0, 1}
      BY <2>2
    <3> QED BY <3>1 DEF NumBits
  <2> USE DEF b
  <2> QED BY <2>1, <2>3
<1> DEFINE bit(i) == NumBits(8, s[((i - 1) \div 8) + 1])[((i - 1) % 8) + 1]
<1>2. \A i \in 1..8 * Len(s) : bit(i) \in {0, 1}
  BY <1>1
<1>3. ByteBits(s) = [i \in 1..8 * Len(s) |-> bit(i)]
  BY DEF ByteBits
<1>4. 8 * Len(s) \in Nat
  OBVIOUS
<1> HIDE DEF bit
<1> QED BY <1>2, <1>3, <1>4

(* The value of up to eight bits, and each of them back from a byte that    *)
(* begins with them.                                                        *)
LEMMA ValueSteps ==
  ASSUME NEW n \in 1..8, NEW bit \in [1..n -> {0, 1}]
  PROVE  \E f : /\ Value(bit, n) = f[n] /\ f[0] = 0
                /\ \A i \in 1..n : f[i] = 2 * f[i - 1] + bit[i]
<1> DEFINE Is(f) == f = [i \in 0..n |-> IF i = 0 THEN 0 ELSE 2 * f[i - 1] + bit[i]]
           s1 == bit[1]           s2 == 2 * s1 + bit[2]  s3 == 2 * s2 + bit[3]
           s4 == 2 * s3 + bit[4]  s5 == 2 * s4 + bit[5]  s6 == 2 * s5 + bit[6]
           s7 == 2 * s6 + bit[7]  s8 == 2 * s7 + bit[8]
           sum(i) == IF i = 0 THEN 0 ELSE IF i = 1 THEN s1 ELSE IF i = 2 THEN s2
                     ELSE IF i = 3 THEN s3 ELSE IF i = 4 THEN s4 ELSE IF i = 5 THEN s5
                     ELSE IF i = 6 THEN s6 ELSE IF i = 7 THEN s7 ELSE s8
           w == [i \in 0..n |-> sum(i)]
<1>1. ASSUME NEW i \in 0..n PROVE w[i] = IF i = 0 THEN 0 ELSE 2 * w[i - 1] + bit[i]
  <2>1. i = 0 \/ i = 1 \/ i = 2 \/ i = 3 \/ i = 4 \/ i = 5 \/ i = 6 \/ i = 7 \/ i = 8
    OBVIOUS
  <2>2. CASE i = 0
    BY <2>2
  <2>3. CASE i # 0
    <3>1. i - 1 \in 0..n
      BY <2>3
    <3>2. w[i] = sum(i) /\ w[i - 1] = sum(i - 1)
      BY <3>1
    <3> HIDE DEF w
    <3>3. i = 1 => sum(i) = 2 * sum(i - 1) + bit[i]
      OBVIOUS
    <3>4. i = 2 => sum(i) = 2 * sum(i - 1) + bit[i]
      OBVIOUS
    <3>5. i = 3 => sum(i) = 2 * sum(i - 1) + bit[i]
      OBVIOUS
    <3>6. i = 4 => sum(i) = 2 * sum(i - 1) + bit[i]
      OBVIOUS
    <3>7. i = 5 => sum(i) = 2 * sum(i - 1) + bit[i]
      OBVIOUS
    <3>8. i = 6 => sum(i) = 2 * sum(i - 1) + bit[i]
      OBVIOUS
    <3>9. i = 7 => sum(i) = 2 * sum(i - 1) + bit[i]
      OBVIOUS
    <3>10. i = 8 => sum(i) = 2 * sum(i - 1) + bit[i]
      OBVIOUS
    <3> HIDE DEF sum
    <3> QED
      BY <2>1, <2>3, <3>2, <3>3, <3>4, <3>5, <3>6, <3>7, <3>8, <3>9, <3>10
  <2> QED
    BY <2>2, <2>3
<1> HIDE DEF sum
<1>2. Is(w)
  <2> DEFINE u == [i \in 0..n |-> IF i = 0 THEN 0 ELSE 2 * w[i - 1] + bit[i]]
  <2>1. \A i \in 0..n : w[i] = u[i]
    BY <1>1
  <2>2. w = [i \in 0..n |-> w[i]]
    OBVIOUS
  <2> QED
    BY <2>1, <2>2
<1>3. Value(bit, n) = (CHOOSE f : Is(f))[n]
  BY DEF Value
<1>4. \A f : Is(f) => f[0] = 0 /\ \A i \in 1..n : f[i] = 2 * f[i - 1] + bit[i]
  OBVIOUS
<1> HIDE DEF Is, w
<1>5. Is(CHOOSE f : Is(f))
  BY <1>2
<1> QED
  BY <1>3, <1>4, <1>5

LEMMA Powers ==
  /\ 2 ^ 0 = 1 /\ 2 ^ 1 = 2 /\ 2 ^ 2 = 4 /\ 2 ^ 3 = 8
  /\ 2 ^ 4 = 16 /\ 2 ^ 5 = 32 /\ 2 ^ 6 = 64 /\ 2 ^ 7 = 128
OBVIOUS

LEMMA BitsOfByte ==
  ASSUME NEW a \in 0..1, NEW b \in 0..1, NEW c \in 0..1, NEW d \in 0..1,
         NEW e \in 0..1, NEW f \in 0..1, NEW g \in 0..1, NEW h \in 0..1,
         NEW v \in Int, v = 128 * a + 64 * b + 32 * c + 16 * d + 8 * e + 4 * f + 2 * g + h
  PROVE  /\ v \in 0..255
         /\ (v \div 128) % 2 = a /\ (v \div 64) % 2 = b /\ (v \div 32) % 2 = c
         /\ (v \div 16) % 2 = d /\ (v \div 8) % 2 = e /\ (v \div 4) % 2 = f
         /\ (v \div 2) % 2 = g /\ (v \div 1) % 2 = h
<1>1. v \in 0..255
  OBVIOUS
<1>2. (v \div 128) % 2 = a
  OBVIOUS
<1>3. (v \div 64) % 2 = b
  OBVIOUS
<1>4. (v \div 32) % 2 = c
  OBVIOUS
<1>5. (v \div 16) % 2 = d
  OBVIOUS
<1>6. (v \div 8) % 2 = e
  OBVIOUS
<1>7. (v \div 4) % 2 = f
  OBVIOUS
<1>8. (v \div 2) % 2 = g
  OBVIOUS
<1>9. (v \div 1) % 2 = h
  OBVIOUS
<1> QED
  BY <1>1, <1>2, <1>3, <1>4, <1>5, <1>6, <1>7, <1>8, <1>9

LEMMA ByteBack ==
  ASSUME NEW n \in 1..8, NEW bit \in [1..n -> {0, 1}]
  PROVE  LET v == Value(bit, n) * 2 ^ (8 - n)
         IN  /\ v \in 0..255
             /\ \A j \in 1..8 : (v \div 2 ^ (8 - j)) % 2 = IF j <= n THEN bit[j] ELSE 0
<1>1. PICK f : /\ Value(bit, n) = f[n] /\ f[0] = 0
               /\ \A i \in 1..n : f[i] = 2 * f[i - 1] + bit[i]
  BY ValueSteps
<1> DEFINE c(j) == IF j <= n THEN bit[j] ELSE 0
<1>2. /\ c(1) \in {0, 1} /\ c(2) \in {0, 1} /\ c(3) \in {0, 1} /\ c(4) \in {0, 1}
      /\ c(5) \in {0, 1} /\ c(6) \in {0, 1} /\ c(7) \in {0, 1} /\ c(8) \in {0, 1}
  OBVIOUS
<1>3. PICK v : v = Value(bit, n) * 2 ^ (8 - n)
  OBVIOUS
<1>4. v = 128 * c(1) + 64 * c(2) + 32 * c(3) + 16 * c(4) + 8 * c(5) + 4 * c(6) + 2 * c(7) + c(8)
  <2>1. CASE n = 1
    BY <1>1, <1>3, <2>1, Powers
  <2>2. CASE n = 2
    BY <1>1, <1>3, <2>2, Powers
  <2>3. CASE n = 3
    BY <1>1, <1>3, <2>3, Powers
  <2>4. CASE n = 4
    BY <1>1, <1>3, <2>4, Powers
  <2>5. CASE n = 5
    BY <1>1, <1>3, <2>5, Powers
  <2>6. CASE n = 6
    BY <1>1, <1>3, <2>6, Powers
  <2>7. CASE n = 7
    BY <1>1, <1>3, <2>7, Powers
  <2>8. CASE n = 8
    BY <1>1, <1>3, <2>8, Powers
  <2> QED
    BY <2>1, <2>2, <2>3, <2>4, <2>5, <2>6, <2>7, <2>8
<1>5. /\ c(1) \in 0..1 /\ c(2) \in 0..1 /\ c(3) \in 0..1 /\ c(4) \in 0..1
      /\ c(5) \in 0..1 /\ c(6) \in 0..1 /\ c(7) \in 0..1 /\ c(8) \in 0..1
  BY <1>2
<1> HIDE DEF c
<1>6. v \in Int
  BY <1>4, <1>5
<1>7. /\ v \in 0..255
      /\ (v \div 128) % 2 = c(1) /\ (v \div 64) % 2 = c(2) /\ (v \div 32) % 2 = c(3)
      /\ (v \div 16) % 2 = c(4) /\ (v \div 8) % 2 = c(5) /\ (v \div 4) % 2 = c(6)
      /\ (v \div 2) % 2 = c(7) /\ (v \div 1) % 2 = c(8)
  <2>1. PICK k1 \in 0..1, k2 \in 0..1, k3 \in 0..1, k4 \in 0..1,
             k5 \in 0..1, k6 \in 0..1, k7 \in 0..1, k8 \in 0..1 :
          /\ k1 = c(1) /\ k2 = c(2) /\ k3 = c(3) /\ k4 = c(4)
          /\ k5 = c(5) /\ k6 = c(6) /\ k7 = c(7) /\ k8 = c(8)
    BY <1>5
  <2>2. v = 128 * k1 + 64 * k2 + 32 * k3 + 16 * k4 + 8 * k5 + 4 * k6 + 2 * k7 + k8
    BY <1>4, <2>1
  <2>3. /\ v \in 0..255
        /\ (v \div 128) % 2 = k1 /\ (v \div 64) % 2 = k2 /\ (v \div 32) % 2 = k3
        /\ (v \div 16) % 2 = k4 /\ (v \div 8) % 2 = k5 /\ (v \div 4) % 2 = k6
        /\ (v \div 2) % 2 = k7 /\ (v \div 1) % 2 = k8
    BY <1>6, <2>2, BitsOfByte
  <2> QED
    BY <2>1, <2>3
<1>8. ASSUME NEW j \in 1..8 PROVE (v \div 2 ^ (8 - j)) % 2 = c(j)
  <2>1. CASE j = 1
    BY <1>7, <2>1, Powers
  <2>2. CASE j = 2
    BY <1>7, <2>2, Powers
  <2>3. CASE j = 3
    BY <1>7, <2>3, Powers
  <2>4. CASE j = 4
    BY <1>7, <2>4, Powers
  <2>5. CASE j = 5
    BY <1>7, <2>5, Powers
  <2>6. CASE j = 6
    BY <1>7, <2>6, Powers
  <2>7. CASE j = 7
    BY <1>7, <2>7, Powers
  <2>8. CASE j = 8
    BY <1>7, <2>8, Powers
  <2> QED
    BY <2>1, <2>2, <2>3, <2>4, <2>5, <2>6, <2>7, <2>8
<1> QED
  BY <1>3, <1>7, <1>8 DEF c

(* The bytes of a stream hold it.                                           *)
Unpacks(b, s) ==
  /\ b \in Seq(0..255) /\ Len(b) = (Len(s) + 7) \div 8
  /\ \A i \in 1..Len(ByteBits(b)) : ByteBits(b)[i] = IF i <= Len(s) THEN s[i] ELSE 0

LEMMA PackedHolds ==
  ASSUME NEW s \in Seq({0, 1})
  PROVE  Unpacks(Packed(s), s)
<1>1. PICK l \in Nat : l = Len(s) /\ \A i \in 1..l : s[i] \in {0, 1}
  BY LenProperties, ElementOfSeq
<1> DEFINE m        == (l + 7) \div 8
           size(b)  == IF l - 8 * (b - 1) < 8 THEN l - 8 * (b - 1) ELSE 8
           part(b)  == [i \in 1..size(b) |-> s[8 * (b - 1) + i]]
           byte(b)  == Value(part(b), size(b)) * 2 ^ (8 - size(b))
<1>2. m \in Nat
  BY <1>1
<1>3. ASSUME NEW b \in 1..m
      PROVE  /\ byte(b) \in 0..255
             /\ \A j \in 1..8 : (byte(b) \div 2 ^ (8 - j)) % 2 =
                                IF 8 * (b - 1) + j <= l THEN s[8 * (b - 1) + j] ELSE 0
  <2>1. PICK n \in 1..8 : n = size(b) /\ 8 * (b - 1) + n <= l /\ (n < 8 => 8 * (b - 1) + n = l)
    BY <1>1
  <2>2. ASSUME NEW i \in 1..n PROVE s[8 * (b - 1) + i] \in {0, 1}
    <3>1. 8 * (b - 1) + i \in 1..l
      BY <1>1, <2>1
    <3> QED
      BY <1>1, <3>1
  <2>3. PICK p \in [1..n -> {0, 1}] : p = part(b) /\ \A i \in 1..n : p[i] = s[8 * (b - 1) + i]
    <3> DEFINE q == [i \in 1..n |-> s[8 * (b - 1) + i]]
    <3>1. q \in [1..n -> {0, 1}]
      BY <2>2
    <3>2. q = part(b)
      BY <2>1
    <3>3. \A i \in 1..n : q[i] = s[8 * (b - 1) + i]
      OBVIOUS
    <3> HIDE DEF q, part
    <3> QED
      BY <3>1, <3>2, <3>3
  <2>4. byte(b) = Value(p, n) * 2 ^ (8 - n)
    BY <2>1, <2>3
  <2> HIDE DEF byte, part, size
  <2>5. /\ byte(b) \in 0..255
        /\ \A j \in 1..8 : (byte(b) \div 2 ^ (8 - j)) % 2 = IF j <= n THEN p[j] ELSE 0
    BY <2>4, ByteBack
  <2>6. ASSUME NEW j \in 1..8
        PROVE  (IF j <= n THEN p[j] ELSE 0) = IF 8 * (b - 1) + j <= l THEN s[8 * (b - 1) + j] ELSE 0
    <3>1. j <= n <=> 8 * (b - 1) + j <= l
      BY <1>1, <2>1
    <3> QED
      BY <2>3, <3>1
  <2> QED
    BY <2>5, <2>6
<1>4. Packed(s) = [b \in 1..m |-> byte(b)]
  BY <1>1 DEF Packed
<1> HIDE DEF byte, m
<1>5. Packed(s) \in Seq(0..255) /\ Len(Packed(s)) = m
  BY <1>2, <1>3, <1>4
<1>6. ASSUME NEW i \in 1..8 * m PROVE ByteBits(Packed(s))[i] = IF i <= l THEN s[i] ELSE 0
  <2>1. PICK b \in 1..m, j \in 1..8 :
          b = ((i - 1) \div 8) + 1 /\ j = ((i - 1) % 8) + 1 /\ i = 8 * (b - 1) + j
    <3>1. /\ (i - 1) \div 8 \in 0..m - 1 /\ (i - 1) % 8 \in 0..7
          /\ i - 1 = 8 * ((i - 1) \div 8) + ((i - 1) % 8)
      BY <1>2
    <3>2. PICK q \in 0..m - 1, r \in 0..7 :
            q = (i - 1) \div 8 /\ r = (i - 1) % 8 /\ i - 1 = 8 * q + r
      BY <3>1
    <3>3. q + 1 \in 1..m /\ r + 1 \in 1..8 /\ i = 8 * ((q + 1) - 1) + (r + 1)
      BY <1>2, <3>2
    <3> QED
      BY <3>2, <3>3
  <2>2. ByteBits(Packed(s))[i] = NumBits(8, Packed(s)[b])[j]
    BY <1>5, <2>1 DEF ByteBits
  <2>3. NumBits(8, Packed(s)[b])[j] = (byte(b) \div 2 ^ (8 - j)) % 2
    BY <1>4 DEF NumBits
  <2> QED
    BY <1>3, <2>1, <2>2, <2>3
<1>7. Len(ByteBits(Packed(s))) = 8 * m
  BY <1>5, ByteBitsType
<1> QED
  BY <1>1, <1>5, <1>6, <1>7 DEF Unpacks, m
-----------------------------------------------------------------------------
USE BufferAssumption

(* An append that runs asks for the room its chunk takes.                   *)
PendingInv == pending # Idle => /\ pending.chunk \in Chunks
                                /\ pending.chunk \in Seq({0, 1})
                                /\ pending.room = Len(pending.chunk)
IInv == TypeOK /\ PendingInv

LEMMA BeginInvariant ==
  ASSUME IInv, NEW c \in Chunks, c \in Seq({0, 1}), Begin(Len(c), c)
  PROVE  IInv'
BY DEF IInv, TypeOK, PendingInv, Begin, Idle

LEMMA InitInvariant == Init => IInv
BY DEF Init, IInv, TypeOK, PendingInv, BitStream_new, Idle

(* Every append asks for the room of its chunk.                             *)
LEMMA AppendsBegin ==
  /\ \A n \in Nums : BitStream_appendNum(n[1], n[2]) =>
       \E c \in Chunks : c \in Seq({0, 1}) /\ Begin(Len(c), c)
  /\ \A s \in ByteStrings : BitStream_appendBytes(s) =>
       \E c \in Chunks : c \in Seq({0, 1}) /\ Begin(Len(c), c)
  /\ \A arg \in Args : BitStream_append(arg) =>
       \E c \in Chunks : c \in Seq({0, 1}) /\ Begin(Len(c), c)
<1>1. ASSUME NEW n \in Nums, BitStream_appendNum(n[1], n[2])
      PROVE  \E c \in Chunks : c \in Seq({0, 1}) /\ Begin(Len(c), c)
  <2>1. n[1] \in Nat /\ n[2] \in Nat
    OBVIOUS
  <2>2. NumBits(n[1], n[2]) \in Chunks
    BY DEF Chunks
  <2> QED BY <1>1, <2>1, <2>2, NumBitsType DEF BitStream_appendNum
<1>2. ASSUME NEW s \in ByteStrings, BitStream_appendBytes(s)
      PROVE  \E c \in Chunks : c \in Seq({0, 1}) /\ Begin(Len(c), c)
  <2>1. ByteBits(s) \in Chunks
    BY DEF Chunks
  <2> QED BY <1>2, <2>1, ByteBitsType DEF BitStream_appendBytes
<1>3. ASSUME NEW arg \in Args, BitStream_append(arg)
      PROVE  \E c \in Chunks : c \in Seq({0, 1}) /\ Begin(Len(c), c)
  <2>1. arg \in Chunks
    BY DEF Chunks
  <2> QED BY <1>3, <2>1 DEF BitStream_append
<1> QED BY <1>1, <1>2, <1>3

LEMMA StepInvariant == IInv /\ [Next]_vars => IInv'
<1> SUFFICES ASSUME IInv, [Next]_vars PROVE IInv'
  OBVIOUS
<1> USE DEF IInv, TypeOK, PendingInv
<1>1. CASE UNCHANGED vars
  BY <1>1 DEF vars
<1>2. ASSUME NEW c \in Chunks, c \in Seq({0, 1}), Begin(Len(c), c)
      PROVE  IInv'
  BY <1>2, BeginInvariant
<1>3. CASE BitStream_expand
  BY <1>3 DEF BitStream_expand, Grown
<1>4. CASE ExpandFails
  BY <1>4 DEF ExpandFails, Idle
<1>5. CASE WriteChunk
  <2>1. /\ Len(pending.chunk) <= datasize - length
        /\ Len(pending.chunk) \in Nat
    BY <1>5 DEF WriteChunk, LacksRoom
  <2>2. \A i \in 1..Len(pending.chunk) : pending.chunk[i] \in {0, 1}
    BY <1>5 DEF WriteChunk
  <2>3. DOMAIN data \cup length..length + Len(pending.chunk) - 1 = 0..datasize - 1
    BY <2>1
  <2>4. data' \in [0..datasize - 1 -> {0, 1, Indeterminate}]
    BY <1>5, <2>1, <2>2, <2>3 DEF WriteChunk, Write
  <2> QED BY <1>5, <2>1, <2>4 DEF WriteChunk, Idle
<1>6. CASE BitStream_reset
  BY <1>6 DEF BitStream_reset
<1>7. CASE BitStream_toByte
  BY <1>7 DEF BitStream_toByte
<1> QED BY <1>1, <1>2, <1>3, <1>4, <1>5, <1>6, <1>7, AppendsBegin DEF Next

(* The buffer is never written past its end, whatever is appended and       *)
(* whenever realloc fails.                                                  *)
THEOREM TypeCorrect == Spec => []TypeOK
BY InitInvariant, StepInvariant, PTL DEF Spec, IInv

(* The stream implements the append-only log.                               *)
THEOREM Refinement == Spec => ImplementsLog
<1>1. Init => Contents = <<>>
  BY DEF Init, Contents
<1>2. IInv /\ [Next]_vars => [(\E c \in Chunks : Log!Append1(c)) \/ Log!Reset]_Contents
  <2> SUFFICES ASSUME IInv, [Next]_vars, Contents' # Contents
               PROVE  (\E c \in Chunks : Contents' = Contents \o c) \/ Contents' = <<>>
    BY DEF Log!Append1, Log!Reset
  <2> USE DEF IInv, TypeOK, PendingInv
  <2>1. CASE WriteChunk
    <3> DEFINE c == pending.chunk
    <3>1. /\ c \in Chunks /\ c \in Seq({0, 1}) /\ length' = length + Len(c)
          /\ Len(c) <= datasize - length /\ data' = Write(data, length, c)
      BY <2>1 DEF WriteChunk, LacksRoom
    <3>2. \A i \in 0..length + Len(c) - 1 :
            data'[i] = IF i < length THEN data[i] ELSE c[i - length + 1]
      BY <3>1 DEF Write
    <3> DEFINE S == {0, 1, Indeterminate}
    <3> HIDE DEF c
    <3>3. Contents \in Seq(S) /\ Contents' \in Seq(S) /\ c \in Seq(S)
      <4>1. data' \in [0..datasize' - 1 -> S] /\ length' \in 0..datasize'
        BY StepInvariant
      <4> QED BY <3>1, <4>1 DEF Contents
    <3> HIDE DEF S
    <3>4. Len(Contents) = length /\ Len(Contents') = length + Len(c)
      BY <3>1 DEF Contents
    <3>5. ASSUME NEW i \in 1..Len(Contents')
          PROVE  Contents'[i] = (Contents \o c)[i]
      <4>1. i \in 1..length + Len(c) /\ Contents'[i] = data'[i - 1]
        BY <3>1, <3>4 DEF Contents
      <4>2. i <= length => Contents[i] = data[i - 1]
        BY <4>1 DEF Contents
      <4>3. Contents'[i] = IF i <= length THEN Contents[i] ELSE c[i - length]
        BY <3>1, <3>2, <4>1, <4>2
      <4> QED BY <3>3, <3>4, <4>1, <4>3, ConcatProperties
    <3>6. Contents \o c \in Seq(S) /\ Len(Contents \o c) = Len(Contents) + Len(c)
      BY <3>3, ConcatProperties
    <3>7. Contents' = Contents \o c
      BY <3>3, <3>4, <3>5, <3>6, SeqEqual
    <3> QED BY <3>1, <3>7
  <2>2. CASE BitStream_expand
    BY <2>2 DEF BitStream_expand, Grown, Contents
  <2>3. CASE BitStream_reset
    BY <2>3 DEF BitStream_reset, Contents
  <2>4. CASE ExpandFails \/ BitStream_toByte \/ UNCHANGED vars
    BY <2>4 DEF ExpandFails, BitStream_toByte, vars, Contents
  <2>5. ASSUME NEW room, NEW c, Begin(room, c) PROVE FALSE
    BY <2>5 DEF Begin, Contents
  <2> QED BY <2>1, <2>2, <2>3, <2>4, <2>5 DEF Next, BitStream_appendNum, BitStream_appendBytes,
             BitStream_append
<1> QED BY <1>1, <1>2, InitInvariant, StepInvariant, PTL DEF Spec, ImplementsLog, Log!Spec
-----------------------------------------------------------------------------
(* The bits of the stream have been written, and the array that was         *)
(* returned last is that of the present stream.                             *)
Written  == \A i \in 0..length - 1 : data[i] \in {0, 1}
UpToDate == /\ pending # Idle => bytes = <<>>
            /\ bytes # <<>> => Unpacks(bytes, Contents)

LEMMA WrittenHolds ==
  ASSUME IInv, Written, [Next]_vars
  PROVE  Written'
<1> USE DEF IInv, TypeOK, PendingInv, Written
<1>1. CASE WriteChunk
  <2>1. PICK c : /\ c = pending.chunk /\ c \in Seq({0, 1}) /\ length' = length + Len(c)
                 /\ Len(c) <= datasize - length /\ data' = Write(data, length, c)
    BY <1>1 DEF WriteChunk, LacksRoom
  <2>2. ASSUME NEW i \in 0..length + Len(c) - 1
        PROVE  data'[i] = IF i < length THEN data[i] ELSE c[i - length + 1]
    BY <2>1, <2>2 DEF Write
  <2>3. ASSUME NEW i \in 0..length + Len(c) - 1 PROVE data'[i] \in {0, 1}
    <3>1. CASE i < length
      BY <2>2, <3>1
    <3>2. CASE ~(i < length)
      <4>1. i - length + 1 \in 1..Len(c)
        BY <2>1, <3>2
      <4>2. c[i - length + 1] \in {0, 1}
        BY <2>1, <4>1, ElementOfSeq
      <4> QED
        BY <2>2, <3>2, <4>2
    <3> QED
      BY <3>1, <3>2
  <2> QED
    BY <2>1, <2>3
<1>2. CASE BitStream_expand
  BY <1>2 DEF BitStream_expand, Grown
<1>3. CASE BitStream_reset
  BY <1>3 DEF BitStream_reset
<1>4. CASE ExpandFails \/ BitStream_toByte \/ UNCHANGED vars
  BY <1>4 DEF ExpandFails, BitStream_toByte, vars
<1>5. ASSUME NEW room, NEW c, Begin(room, c) PROVE Written'
  BY <1>5 DEF Begin
<1> QED
  BY <1>1, <1>2, <1>3, <1>4, <1>5 DEF Next, BitStream_appendNum, BitStream_appendBytes,
     BitStream_append

LEMMA UpToDateHolds ==
  ASSUME IInv, Written, UpToDate, [Next]_vars
  PROVE  UpToDate'
<1>1. CASE BitStream_toByte
  <2>1. Contents \in Seq({0, 1})
    <3>1. length \in Nat
      BY DEF IInv, TypeOK
    <3>2. \A i \in 1..length : data[i - 1] \in {0, 1}
      BY <3>1 DEF Written
    <3> QED
      BY <3>1, <3>2 DEF Contents
  <2>2. Contents' = Contents /\ pending' = Idle /\ bytes' \in {Packed(Contents), <<>>}
    BY <1>1 DEF BitStream_toByte, Contents
  <2> QED
    BY <2>1, <2>2, PackedHolds DEF UpToDate
<1>2. CASE bytes' = <<>>
  BY <1>2 DEF UpToDate
<1>3. CASE BitStream_expand \/ ExpandFails \/ WriteChunk
  BY <1>2, <1>3 DEF BitStream_expand, ExpandFails, WriteChunk, UpToDate
<1>4. CASE UNCHANGED vars
  BY <1>4 DEF vars, UpToDate, Contents
<1> QED
  BY <1>1, <1>2, <1>3, <1>4 DEF Next, BitStream_appendNum, BitStream_appendBytes,
     BitStream_append,
     Begin, BitStream_reset

(* What BitStream_toByte returns holds every bit of the stream in order,    *)
(* then zeros, for streams of any length.                                   *)
THEOREM BytesComplete == Spec => []BytesHoldStream
<1>1. Init => Written /\ UpToDate
  BY DEF Init, Written, UpToDate
<1>2. IInv /\ UpToDate => BytesHoldStream
  <2> SUFFICES ASSUME IInv, UpToDate, bytes # <<>>
               PROVE  LET unpacked == ByteBits(bytes)
                      IN  /\ bytes \in Seq(0..255) /\ Len(bytes) = (length + 7) \div 8
                          /\ \A i \in 1..Len(unpacked) :
                               unpacked[i] = IF i <= length THEN Contents[i] ELSE 0
    BY DEF BytesHoldStream
  <2>1. Len(Contents) = length
    BY DEF IInv, TypeOK, Contents
  <2> QED
    BY <2>1 DEF UpToDate, Unpacks
<1> QED
  BY <1>1, <1>2, InitInvariant, StepInvariant, WrittenHolds, UpToDateHolds, PTL DEF Spec
=============================================================================
