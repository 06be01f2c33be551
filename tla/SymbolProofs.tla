----------------------------- MODULE SymbolProofs -----------------------------
(***************************************************************************)
(* The theorems of Symbol, for every set of QR and Micro QR symbols of the *)
(* tables.  Interleaving: the blocks are a grid of bytes with a last,      *)
(* shorter column, and QRraw_getCode walks it in the standard's order.     *)
(* Placing: every module of the pairs of columns has a number, by which    *)
(* the standard orders them; a move of the frame filler goes up to the     *)
(* next number with nothing but function patterns between, so its search   *)
(* ends, and at the next free module.  Counting the free modules up to the *)
(* filler then says which bit of the message is due.                       *)
(***************************************************************************)
EXTENDS Symbol, FiniteSetTheorems, FunctionTheorems, NaturalsInduction,
        WellFoundedInduction, TLAPS

(* Division.                                                                *)
LEMMA Products ==
  ASSUME NEW b \in Nat, NEW p \in Nat, NEW q \in Nat, p < q
  PROVE  b * p \in Nat /\ b * q \in Nat /\ b * p + b <= b * q
<1>1. PICK k \in Nat : q = p + 1 + k
  <2>1. q - p - 1 \in Nat /\ q = p + 1 + (q - p - 1)
    OBVIOUS
  <2> QED
    BY <2>1
<1>2. b * q = b * p + b + b * k /\ b * k \in Nat /\ b * p \in Nat
  BY <1>1
<1> QED
  BY <1>1, <1>2

LEMMA Divided ==
  ASSUME NEW a \in Nat, NEW b \in Nat, b > 0
  PROVE  a \div b \in Nat /\ a % b \in 0..b - 1 /\ a = b * (a \div b) + (a % b)
OBVIOUS

LEMMA DividedUniquely ==
  ASSUME NEW b \in Nat, NEW q \in Nat, NEW r \in 0..b - 1
  PROVE  b * q + r \in Nat /\ (b * q + r) \div b = q /\ (b * q + r) % b = r
<1>1. b * q \in Nat /\ b * q + r \in Nat /\ b > 0
  OBVIOUS
<1>2. PICK a \in Nat, u \in Nat, v \in 0..b - 1 :
        a = b * q + r /\ u = a \div b /\ v = a % b /\ a = b * u + v
  BY <1>1, Divided
<1>3. ~ (u < q) /\ ~ (q < u)
  <2>1. u < q => b * u + b <= b * q
    BY Products
  <2>2. q < u => b * q + b <= b * u
    BY Products
  <2>3. b * u \in Nat /\ b * u + v = b * q + r
    BY <1>2
  <2> QED
    BY <1>1, <2>1, <2>2, <2>3
<1>4. u = q
  BY <1>3
<1>5. v = r
  BY <1>1, <1>2, <1>4
<1> QED
  BY <1>1, <1>2, <1>4, <1>5

-----------------------------------------------------------------------------
(* Interleaving.  d full columns of b bytes, and one of which the first f   *)
(* blocks have no byte.                                                     *)
Grid(b, d, f) == {c \in (1..(d + 1)) \X (1..b) : c[1] <= d \/ c[2] > f}
GridAt(b, d, f, n) == <<(n \div b) + 1, (n % b) + (IF n \div b >= d THEN f ELSE 0) + 1>>
GridSize(b, d, f) == b * d + (b - f)
IsGrid(b, d, f) == b \in Nat /\ d \in Nat /\ f \in 1..b
NoLater(c, e) == c[1] < e[1] \/ (c[1] = e[1] /\ c[2] <= e[2])

LEMMA GridPlace ==
  ASSUME NEW b, NEW d, NEW f, IsGrid(b, d, f), NEW n \in 0..(GridSize(b, d, f) - 1)
  PROVE  \E q \in Nat, r \in 0..b - 1 :
           /\ n = b * q + r /\ q = n \div b /\ r = n % b
           /\ q < d \/ (q = d /\ r < b - f)
           /\ GridAt(b, d, f, n) = <<q + 1, r + (IF q >= d THEN f ELSE 0) + 1>>
           /\ GridAt(b, d, f, n) \in Grid(b, d, f)
<1>1. b \in Nat /\ b > 0 /\ d \in Nat /\ f \in 1..b /\ b * d \in Nat /\ n \in Nat /\ n < b * d + (b - f)
  BY DEF IsGrid, GridSize
<1>2. PICK q \in Nat, r \in 0..b - 1 : q = n \div b /\ r = n % b /\ n = b * q + r
  BY <1>1, Divided
<1>3. q < d \/ (q = d /\ r < b - f)
  <2>1. ~ (d < q)
    <3>1. ASSUME d < q PROVE FALSE
      <4>1. b * d + b <= b * q /\ b * q \in Nat
        BY <1>1, <3>1, Products
      <4> QED
        BY <1>1, <1>2, <4>1
    <3> QED
      BY <3>1
  <2> QED
    BY <1>1, <1>2, <2>1
<1>4. GridAt(b, d, f, n) = <<q + 1, r + (IF q >= d THEN f ELSE 0) + 1>>
  BY <1>2 DEF GridAt
<1>5. GridAt(b, d, f, n) \in Grid(b, d, f)
  <2> DEFINE y == r + (IF q >= d THEN f ELSE 0) + 1
  <2>1. q + 1 \in 1..(d + 1) /\ y \in 1..b /\ (q + 1 <= d \/ y > f)
    BY <1>1, <1>2, <1>3
  <2> HIDE DEF y
  <2>2. <<q + 1, y>> \in Grid(b, d, f)
    BY <2>1 DEF Grid
  <2> QED
    BY <1>4, <2>2 DEF y
<1> QED
  BY <1>2, <1>3, <1>4, <1>5

LEMMA GridFilled ==
  ASSUME NEW b, NEW d, NEW f, IsGrid(b, d, f), NEW c \in Grid(b, d, f)
  PROVE  \E n \in 0..(GridSize(b, d, f) - 1) : GridAt(b, d, f, n) = c
<1>1. b \in Nat /\ b > 0 /\ d \in Nat /\ f \in 1..b /\ b * d \in Nat
  BY DEF IsGrid
<1>2. PICK x \in 1..(d + 1), y \in 1..b : c = <<x, y>> /\ (x <= d \/ y > f)
  BY DEF Grid
<1> DEFINE q == x - 1
           r == IF x <= d THEN y - 1 ELSE y - 1 - f
           n == b * q + r
<1>3. q \in Nat /\ r \in 0..b - 1 /\ q <= d
  BY <1>1, <1>2
<1>4. n \in Nat /\ n \div b = q /\ n % b = r
  BY <1>1, <1>3, DividedUniquely
<1>5. n < GridSize(b, d, f)
  <2>1. CASE q < d
    <3>1. b * q + b <= b * d /\ b * q \in Nat
      BY <1>1, <1>3, <2>1, Products
    <3> HIDE DEF q, r
    <3> QED
      BY <1>1, <1>3, <3>1 DEF GridSize
  <2>2. CASE q = d
    BY <1>1, <1>2, <2>2 DEF GridSize
  <2> QED
    BY <1>1, <1>3, <2>1, <2>2
<1>6. GridAt(b, d, f, n) = c
  <2>1. GridAt(b, d, f, n) = <<q + 1, r + (IF q >= d THEN f ELSE 0) + 1>>
    BY <1>4 DEF GridAt
  <2>2. q + 1 = x /\ r + (IF q >= d THEN f ELSE 0) + 1 = y
    BY <1>1, <1>2
  <2> QED
    BY <1>2, <2>1, <2>2
<1>7. n \in 0..(GridSize(b, d, f) - 1)
  <2>1. GridSize(b, d, f) \in Int
    BY <1>1 DEF GridSize
  <2> HIDE DEF n
  <2> QED
    BY <1>4, <1>5, <2>1
<1> QED
  BY <1>6, <1>7

LEMMA GridOrder ==
  ASSUME NEW b, NEW d, NEW f, IsGrid(b, d, f),
         NEW m \in 0..(GridSize(b, d, f) - 1), NEW n \in 0..(GridSize(b, d, f) - 1)
  PROVE  NoLater(GridAt(b, d, f, m), GridAt(b, d, f, n)) <=> m <= n
<1>1. PICK q \in Nat, r \in 0..b - 1 :
        m = b * q + r /\ GridAt(b, d, f, m) = <<q + 1, r + (IF q >= d THEN f ELSE 0) + 1>>
  BY GridPlace
<1>2. PICK u \in Nat, v \in 0..b - 1 :
        n = b * u + v /\ GridAt(b, d, f, n) = <<u + 1, v + (IF u >= d THEN f ELSE 0) + 1>>
  BY GridPlace
<1>3. b \in Nat /\ f \in Nat /\ d \in Nat
  BY DEF IsGrid
<1>4. q < u => b * q + b <= b * u /\ b * q \in Nat /\ b * u \in Nat
  BY <1>3, Products
<1>5. u < q => b * u + b <= b * q /\ b * q \in Nat /\ b * u \in Nat
  BY <1>3, Products
<1>6. NoLater(GridAt(b, d, f, m), GridAt(b, d, f, n)) <=> q < u \/ (q = u /\ r <= v)
  BY <1>1, <1>2, <1>3 DEF NoLater
<1>7. b * q \in Nat /\ b * u \in Nat /\ (q = u => b * q = b * u)
  BY <1>3
<1>8. m <= n <=> q < u \/ (q = u /\ r <= v)
  BY <1>1, <1>2, <1>3, <1>4, <1>5, <1>7
<1> QED
  BY <1>6, <1>8

LEMMA GridFinite ==
  ASSUME NEW b, NEW d, NEW f, IsGrid(b, d, f)
  PROVE  IsFiniteSet(Grid(b, d, f))
<1>1. IsFiniteSet(1..(d + 1)) /\ IsFiniteSet(1..b)
  BY FS_Interval DEF IsGrid
<1>2. IsFiniteSet((1..(d + 1)) \X (1..b))
  BY <1>1, FS_Product
<1>3. Grid(b, d, f) \in SUBSET ((1..(d + 1)) \X (1..b))
  BY DEF Grid
<1> QED
  BY <1>2, <1>3, FS_Subset

(* In turn, the bytes of a grid are those at 0, 1, 2 and so on.             *)
LEMMA GridTurns ==
  ASSUME NEW b, NEW d, NEW f, IsGrid(b, d, f), NEW n \in 0..(GridSize(b, d, f) - 1)
  PROVE  Turn(Grid(b, d, f), GridAt(b, d, f, n)) = n + 1
<1> DEFINE G == Grid(b, d, f)
           at(k) == GridAt(b, d, f, k)
           T == {e \in G : NoLater(e, at(n))}
           F == [k \in 1..(n + 1) |-> at(k - 1)]
<1>1. GridSize(b, d, f) \in Int /\ n \in Nat
  BY DEF IsGrid, GridSize
<1>2. ASSUME NEW k \in 1..(n + 1) PROVE at(k - 1) \in T
  <2>1. k - 1 \in 0..(GridSize(b, d, f) - 1) /\ k - 1 <= n
    BY <1>1
  <2> QED
    BY <2>1, GridOrder, GridPlace
<1>3. ASSUME NEW k \in 1..(n + 1), NEW l \in 1..(n + 1), at(k - 1) = at(l - 1) PROVE k = l
  <2>1. k - 1 \in 0..(GridSize(b, d, f) - 1) /\ l - 1 \in 0..(GridSize(b, d, f) - 1)
    BY <1>1
  <2>2. k - 1 <= l - 1 <=> NoLater(at(k - 1), at(l - 1))
    BY <2>1, GridOrder
  <2>3. l - 1 <= k - 1 <=> NoLater(at(l - 1), at(k - 1))
    BY <2>1, GridOrder
  <2>4. k - 1 <= k - 1 <=> NoLater(at(k - 1), at(k - 1))
    BY <2>1, GridOrder
  <2> HIDE DEF at
  <2> QED
    BY <1>3, <2>2, <2>3, <2>4
<1>4. ASSUME NEW e \in T PROVE \E k \in 1..(n + 1) : at(k - 1) = e
  <2>1. PICK m \in 0..(GridSize(b, d, f) - 1) : at(m) = e
    BY GridFilled
  <2>2. m <= n
    BY <2>1, GridOrder
  <2>3. m + 1 \in 1..(n + 1) /\ (m + 1) - 1 = m
    BY <1>1, <2>2
  <2> QED
    BY <2>1, <2>3
<1> HIDE DEF at, T
<1>5. F \in Bijection(1..(n + 1), T)
  BY <1>2, <1>3, <1>4, Fun_IsBij
<1>6. Cardinality(T) = n + 1
  BY <1>1, <1>5, FS_CountingElements DEF ExistsBijection
<1> QED
  BY <1>6 DEF T, at, Turn, NoLater

LEMMA GridByTurns ==
  ASSUME NEW b, NEW d, NEW f, IsGrid(b, d, f), NEW n \in 0..(GridSize(b, d, f) - 1)
  PROVE  ByTurns(Grid(b, d, f))[n + 1] = GridAt(b, d, f, n)
<1> DEFINE G == Grid(b, d, f)
           N == Cardinality(G)
           turns == {<<Turn(G, c), c>> : c \in G}
<1>1. GridAt(b, d, f, n) \in G /\ Turn(G, GridAt(b, d, f, n)) = n + 1
  BY GridPlace, GridTurns
<1>2. ASSUME NEW c \in G, Turn(G, c) = n + 1 PROVE c = GridAt(b, d, f, n)
  <2>1. PICK m \in 0..(GridSize(b, d, f) - 1) : GridAt(b, d, f, m) = c
    BY GridFilled
  <2>2. m + 1 = n + 1
    BY <1>2, <2>1, GridTurns
  <2>3. GridSize(b, d, f) \in Int
    BY DEF IsGrid, GridSize
  <2> QED
    BY <2>1, <2>2, <2>3
<1>3. n + 1 \in 1..N
  <2>1. Turn(G, GridAt(b, d, f, n)) <= N
    <3> DEFINE T == {e \in G : e[1] < GridAt(b, d, f, n)[1]
                                 \/ (e[1] = GridAt(b, d, f, n)[1] /\ e[2] <= GridAt(b, d, f, n)[2])}
    <3>1. T \in SUBSET G /\ IsFiniteSet(G)
      BY GridFinite
    <3>2. Cardinality(T) <= N
      BY <3>1, FS_Subset
    <3> QED
      BY <3>2 DEF Turn
  <2>2. N \in Nat
    BY GridFinite, FS_CardinalityType
  <2>3. GridSize(b, d, f) \in Int
    BY DEF IsGrid, GridSize
  <2> HIDE DEF N
  <2> QED
    BY <1>1, <2>1, <2>2, <2>3
<1> HIDE DEF G
<1>4. ByTurns(G) = [k \in 1..N |-> (CHOOSE t \in turns : t[1] = k)[2]]
  BY DEF ByTurns
<1>5. (CHOOSE t \in turns : t[1] = n + 1) = <<n + 1, GridAt(b, d, f, n)>>
  <2>1. <<n + 1, GridAt(b, d, f, n)>> \in turns
    BY <1>1
  <2>2. ASSUME NEW t \in turns, t[1] = n + 1 PROVE t = <<n + 1, GridAt(b, d, f, n)>>
    BY <1>2, <2>2
  <2> HIDE DEF turns
  <2> QED
    BY <2>1, <2>2
<1> HIDE DEF turns, N
<1> QED
  BY <1>3, <1>4, <1>5 DEF G

-----------------------------------------------------------------------------
(* The raw code: b blocks, f of them of d data bytes and the others of one  *)
(* more, each with e bytes of error correction.                             *)
IsRaw(r, b, d, f, e) ==
  /\ IsGrid(b, d, f) /\ e \in Nat
  /\ r.blocks = b /\ r.b1 = f /\ r.dataLength = GridSize(b, d, f) /\ r.eccLength = b * e
  /\ \A k \in 1..b : /\ r.rsblock[k].dataLength = IF k <= f THEN d ELSE d + 1
                     /\ r.rsblock[k].data = (k - 1) * d + (IF k <= f THEN 0 ELSE k - 1 - f)
                     /\ r.rsblock[k].ecc = (k - 1) * e

LEMMA QRTables ==
  ASSUME NEW v \in 1..40, NEW l \in 0..3
  PROVE  /\ eccTable[v][l + 1][1] \in Nat /\ eccTable[v][l + 1][1] > 0
         /\ eccTable[v][l + 1][2] \in Nat
         /\ capacity[v][1] = 17 + 4 * v /\ capacity[v][3] \in Nat
         /\ capacity[v][4][l + 1] \in Nat
         /\ capacity[v][2] - capacity[v][4][l + 1] \in Nat
         /\ (capacity[v][2] - capacity[v][4][l + 1]) % (eccTable[v][l + 1][1] + eccTable[v][l + 1][2])
              = eccTable[v][l + 1][2]
<1>1. eccTable[v][l + 1][1] \in Nat /\ eccTable[v][l + 1][1] > 0 /\ eccTable[v][l + 1][2] \in Nat
  BY SMTT(60) DEF eccTable
<1>2. capacity[v][1] = 17 + 4 * v
  BY SMTT(60) DEF capacity
<1>3. capacity[v][3] \in Nat /\ capacity[v][4][l + 1] \in Nat /\ capacity[v][2] - capacity[v][4][l + 1] \in Nat
  BY SMTT(60) DEF capacity
<1>4. (capacity[v][2] - capacity[v][4][l + 1]) % (eccTable[v][l + 1][1] + eccTable[v][l + 1][2])
        = eccTable[v][l + 1][2]
  BY SMTT(100) DEF capacity, eccTable
<1> QED
  BY <1>1, <1>2, <1>3, <1>4

LEMMA MQRTables ==
  ASSUME NEW v \in 1..4, NEW l \in 0..3, MQRspec_getECCLength(v, l) > 0
  PROVE  /\ MQRspec_getWidth(v) = 9 + 2 * v
         /\ MQRspec_getECCLength(v, l) \in Nat
         /\ MQRspec_getDataLength(v, l) \in Nat \ {0}
         /\ 8 * MQRspec_getDataLength(v, l) - MQRspec_getDataLengthBit(v, l) \in {0, 4}
<1>1. MQRspec_getWidth(v) = 9 + 2 * v
  BY DEF MQRspec_getWidth, mqrspecCapacity
<1>2. MQRspec_getECCLength(v, l) \in Nat
  BY DEF MQRspec_getECCLength, mqrspecCapacity
<1>3. MQRspec_getDataLengthBit(v, l) \in {20, 40, 32, 84, 68, 128, 112, 80}
  BY DEF MQRspec_getDataLengthBit, MQRspec_getECCLength, MQRspec_getWidth, mqrspecCapacity
<1> QED
  BY <1>1, <1>2, <1>3 DEF MQRspec_getDataLength

LEMMA RawIsRaw ==
  ASSUME NEW s \in Symbols
  PROVE  /\ \E b, d, f, e : IsRaw(Raws[s], b, d, f, e)
         /\ Raws[s].oddbits \in {0, 4} /\ (Raws[s].oddbits # 0 => Raws[s].dataLength > 0)
         /\ DataBits(s) = 8 * Raws[s].dataLength - Raws[s].oddbits
<1>1. CASE s.mqr
  <2>1. s.version \in 1..4 /\ s.level \in 0..3 /\ MQRspec_getECCLength(s.version, s.level) > 0
    BY <1>1, SymbolsAssumption DEF MQRSPEC_VERSION_MAX
  <2>2. PICK d, e, n : d = MQRspec_getDataLength(s.version, s.level)
                  /\ e = MQRspec_getECCLength(s.version, s.level)
                  /\ n = MQRspec_getDataLengthBit(s.version, s.level)
    OBVIOUS
  <2>3. d \in Nat \ {0} /\ e \in Nat /\ 8 * d - n \in {0, 4}
    BY <2>1, <2>2, MQRTables
  <2>4. n \in {20, 40, 32, 84, 68, 128, 112, 80}
    BY <2>1, <2>2 DEF MQRspec_getDataLengthBit, MQRspec_getECCLength, MQRspec_getWidth,
       mqrspecCapacity
  <2>5. PICK r : r = Raws[s]
    OBVIOUS
  <2>6. r = [dataLength |-> d, eccLength |-> e, b1 |-> 1, blocks |-> 1,
             rsblock |-> <<[dataLength |-> d, data |-> 0, ecc |-> 0]>>, oddbits |-> d * 8 - n]
    BY <1>1, <2>2, <2>5 DEF Raws, MQRraw_new
  <2>7. IsRaw(r, 1, d, 1, e)
    <3>1. IsGrid(1, d, 1) /\ GridSize(1, d, 1) = d
      BY <2>3 DEF IsGrid, GridSize
    <3>2. \A k \in 1..1 : k = 1
      OBVIOUS
    <3>3. r.rsblock[1] = [dataLength |-> d, data |-> 0, ecc |-> 0]
      BY <2>6
    <3>4. (1 - 1) * d = 0 /\ (1 - 1) * e = 0 /\ 1 * e = e
      BY <2>3
    <3> QED
      BY <2>3, <2>6, <3>1, <3>2, <3>3, <3>4 DEF IsRaw
  <2>8. DataBits(s) = n /\ d * 8 = 8 * d
    BY <1>1, <2>2, <2>3 DEF DataBits
  <2> QED
    BY <2>3, <2>4, <2>5, <2>6, <2>7, <2>8
<1>2. CASE ~ s.mqr
  <2>1. s.version \in 1..40 /\ s.level \in 0..3
    BY <1>2, SymbolsAssumption DEF QRSPEC_VERSION_MAX
  <2>2. PICK b1, b2, n, ec :
          /\ b1 = eccTable[s.version][s.level + 1][1] /\ b2 = eccTable[s.version][s.level + 1][2]
          /\ n = QRspec_getDataLength(s.version, s.level)
          /\ ec = QRspec_getECCLength(s.version, s.level)
    OBVIOUS
  <2>3. b1 \in Nat /\ b1 > 0 /\ b2 \in Nat /\ n \in Nat /\ ec \in Nat /\ n % (b1 + b2) = b2
    <3>1. PICK v \in 1..40, l \in 0..3 : v = s.version /\ l = s.level
      BY <2>1
    <3>2. b1 = eccTable[v][l + 1][1] /\ b2 = eccTable[v][l + 1][2]
          /\ n = capacity[v][2] - capacity[v][4][l + 1] /\ ec = capacity[v][4][l + 1]
      BY <2>2, <3>1 DEF QRspec_getDataLength, QRspec_getECCLength
    <3> QED
      BY <3>2, QRTables
  <2>4. PICK b, d, e : b = b1 + b2 /\ d = n \div b /\ e = ec \div b
    OBVIOUS
  <2>5. b \in Nat /\ b > 0 /\ d \in Nat /\ e \in Nat /\ n = b * d + b2
    <3>1. b \in Nat /\ b > 0
      BY <2>3, <2>4
    <3>2. n \div b \in Nat /\ n = b * (n \div b) + (n % b) /\ ec \div b \in Nat
      BY <2>3, <3>1, Divided
    <3> QED
      BY <2>3, <2>4, <3>1, <3>2
  <2>6. PICK r : r = Raws[s]
    OBVIOUS
  <2>7. PICK spec : spec = QRspec_getEccSpec(s.version, s.level)
    OBVIOUS
  <2>8. spec = [b1 |-> b1, data1 |-> d, ecc |-> e, b2 |-> b2, data2 |-> IF b2 = 0 THEN 0 ELSE d + 1]
    BY <2>2, <2>4, <2>7 DEF QRspec_getEccSpec
  <2>9. r = [dataLength |-> spec.b1 * spec.data1 + spec.b2 * spec.data2,
             eccLength |-> (spec.b1 + spec.b2) * spec.ecc,
             b1 |-> spec.b1, blocks |-> spec.b1 + spec.b2, rsblock |-> RSblock_init(spec),
             oddbits |-> 0]
    BY <1>2, <2>6, <2>7 DEF Raws, QRraw_new
  <2>10. r.blocks = b /\ r.b1 = b1 /\ r.eccLength = b * e /\ r.oddbits = 0 /\ r.rsblock = RSblock_init(spec)
    BY <2>4, <2>8, <2>9
  <2>11. r.dataLength = GridSize(b, d, b1) /\ GridSize(b, d, b1) = n
    <3>1. r.dataLength = b1 * d + b2 * (IF b2 = 0 THEN 0 ELSE d + 1)
      BY <2>8, <2>9
    <3>2. b2 * (IF b2 = 0 THEN 0 ELSE d + 1) = b2 * d + b2
      <4>1. CASE b2 = 0
        BY <2>5, <4>1
      <4>2. CASE b2 # 0
        BY <2>3, <2>5, <4>2
      <4> QED
        BY <4>1, <4>2
    <3>3. b * d = b1 * d + b2 * d /\ b1 * d \in Nat /\ b2 * d \in Nat /\ b - b1 = b2
      BY <2>3, <2>4, <2>5
    <3> QED
      BY <2>3, <2>5, <3>1, <3>2, <3>3 DEF GridSize
  <2>12. ASSUME NEW k \in 1..b
         PROVE  /\ r.rsblock[k].dataLength = IF k <= b1 THEN d ELSE d + 1
                /\ r.rsblock[k].data = (k - 1) * d + (IF k <= b1 THEN 0 ELSE k - 1 - b1)
                /\ r.rsblock[k].ecc = (k - 1) * e
    <3> DEFINE second == IF k > b1 THEN k - 1 - b1 ELSE 0
    <3>1. r.rsblock[k] = [dataLength |-> IF k <= b1 THEN d ELSE IF b2 = 0 THEN 0 ELSE d + 1,
                          data |-> (k - 1 - second) * d + second * (IF b2 = 0 THEN 0 ELSE d + 1),
                          ecc |-> (k - 1) * e]
      BY <2>4, <2>8, <2>10 DEF RSblock_init
    <3>2. CASE k <= b1
      <4>1. second = 0
        BY <2>3, <3>2
      <4>2. (k - 1 - 0) * d + 0 * (IF b2 = 0 THEN 0 ELSE d + 1) = (k - 1) * d + 0
        BY <2>3, <2>5
      <4> QED
        BY <3>1, <3>2, <4>1, <4>2
    <3>3. CASE k > b1
      <4>1. b2 # 0 /\ ~ (k <= b1)
        BY <2>3, <2>4, <3>3
      <4>2. PICK m \in Nat : k - 1 = b1 + m
        <5>1. k - 1 - b1 \in Nat /\ k - 1 = b1 + (k - 1 - b1)
          BY <2>3, <2>4, <3>3
        <5> QED
          BY <5>1
      <4>3. second = m /\ k - 1 - second = b1 /\ k - 1 - b1 = m
        BY <2>3, <3>3, <4>2
      <4>4. b1 * d + m * (d + 1) = (b1 + m) * d + m
        BY <2>3, <2>5
      <4> HIDE DEF second
      <4> QED
        BY <3>1, <4>1, <4>2, <4>3, <4>4
    <3> QED
      BY <2>3, <3>2, <3>3
  <2>13. IsGrid(b, d, b1)
    BY <2>3, <2>4, <2>5 DEF IsGrid
  <2>14. IsRaw(r, b, d, b1, e)
    BY <2>5, <2>10, <2>11, <2>12, <2>13 DEF IsRaw
  <2>15. DataBits(s) = 8 * n
    BY <1>2, <2>2 DEF DataBits
  <2> QED
    BY <2>3, <2>6, <2>10, <2>11, <2>14, <2>15
<1> QED
  BY <1>1, <1>2, SymbolsAssumption

LEMMA DataInBuffer ==
  ASSUME NEW r, NEW b, NEW d, NEW f, NEW e, IsRaw(r, b, d, f, e),
         NEW c \in Grid(b, d, f)
  PROVE  r.rsblock[c[2]].data + c[1] - 1 \in 0..(r.dataLength - 1)
<1>1. b \in Nat /\ d \in Nat /\ f \in 1..b /\ r.dataLength = b * d + (b - f) /\ b * d \in Nat
  BY DEF IsRaw, IsGrid, GridSize
<1>2. PICK x \in 1..(d + 1), y \in 1..b : c = <<x, y>> /\ (x <= d \/ y > f)
  BY DEF Grid
<1>3. r.rsblock[y].data = (y - 1) * d + (IF y <= f THEN 0 ELSE y - 1 - f)
  BY DEF IsRaw
<1>4. PICK k \in Nat : y = k + 1
  <2>1. y - 1 \in Nat /\ y = (y - 1) + 1
    BY <1>1
  <2> QED
    BY <2>1
<1>5. d * k \in Nat /\ d * k + d <= d * b /\ (y - 1) * d = d * k /\ b * d = d * b
  BY <1>1, <1>4, Products
<1> QED
  BY <1>1, <1>2, <1>3, <1>4, <1>5

LEMMA EccInBuffer ==
  ASSUME NEW r, NEW b, NEW d, NEW f, NEW e, IsRaw(r, b, d, f, e),
         NEW x \in 1..e, NEW y \in 1..b
  PROVE  r.rsblock[y].ecc + x - 1 \in 0..(r.eccLength - 1)
<1>1. b \in Nat /\ e \in Nat /\ r.eccLength = b * e /\ r.rsblock[y].ecc = (y - 1) * e
  BY DEF IsRaw, IsGrid
<1>2. PICK k \in Nat : y = k + 1
  <2>1. y - 1 \in Nat /\ y = (y - 1) + 1
    BY <1>1
  <2> QED
    BY <2>1
<1>3. e * k \in Nat /\ e * k + e <= e * b /\ (y - 1) * e = e * k /\ b * e = e * b
  BY <1>1, <1>2, Products
<1> QED
  BY <1>1, <1>3

(* QRraw_getCode takes the bytes of the grid in turn.                       *)
LEMMA DataTaken ==
  ASSUME NEW r, NEW b, NEW d, NEW f, NEW e, IsRaw(r, b, d, f, e),
         NEW k \in 0..(r.dataLength - 1)
  PROVE  \E x \in Nat, y \in Nat :
           /\ <<x, y>> = GridAt(b, d, f, k) /\ <<x, y>> \in Grid(b, d, f)
           /\ QRraw_getCode(r, k) = <<"data", r.rsblock[y].data + x - 1>>
<1>1. IsGrid(b, d, f) /\ k \in 0..(GridSize(b, d, f) - 1) /\ GridSize(b, d, f) \in Nat
      /\ r.blocks = b /\ r.b1 = f /\ r.dataLength = GridSize(b, d, f)
  BY DEF IsRaw, IsGrid, GridSize
<1>2. PICK q \in Nat, m \in 0..b - 1 :
        /\ q = k \div b /\ m = k % b /\ (q < d \/ (q = d /\ m < b - f))
        /\ GridAt(b, d, f, k) = <<q + 1, m + (IF q >= d THEN f ELSE 0) + 1>>
        /\ GridAt(b, d, f, k) \in Grid(b, d, f)
  BY <1>1, GridPlace
<1>3. d \in Nat /\ f \in 1..b /\ b \in Nat /\ k \in Nat /\ k < r.dataLength
  BY <1>1 DEF IsGrid
<1>4. r.rsblock[1].dataLength = d
  <2>1. \A y \in 1..b : r.rsblock[y].dataLength = IF y <= f THEN d ELSE d + 1
    BY DEF IsRaw
  <2> QED
    BY <1>3, <2>1
<1>5. PICK y \in Nat : y = m + (IF q >= d THEN f ELSE 0) + 1
  <2>1. m + (IF q >= d THEN f ELSE 0) + 1 \in Nat
    BY <1>3
  <2> QED
    BY <2>1
<1>6. y - 1 < b /\ y - 1 = m + (IF q >= d THEN f ELSE 0) /\ (y - 1) + 1 = y
  BY <1>2, <1>3, <1>5
<1>7. r.rsblock[y].data \in Int
  <2>1. y \in 1..b
    BY <1>3, <1>5, <1>6
  <2>2. r.rsblock[y].data = (y - 1) * d + (IF y <= f THEN 0 ELSE y - 1 - f)
    BY <2>1 DEF IsRaw
  <2> QED
    BY <1>3, <2>2
<1>8. QRraw_getCode(r, k) = <<"data", r.rsblock[y].data + q>>
  BY <1>1, <1>2, <1>3, <1>4, <1>6 DEF QRraw_getCode
<1>9. r.rsblock[y].data + q = r.rsblock[y].data + (q + 1) - 1
  BY <1>7
<1> QED
  BY <1>2, <1>5, <1>8, <1>9

LEMMA EccTaken ==
  ASSUME NEW r, NEW b, NEW d, NEW f, NEW e, IsRaw(r, b, d, f, e),
         NEW k \in 0..(r.eccLength - 1)
  PROVE  \E x \in 1..e, y \in 1..b :
           /\ <<x, y>> = GridAt(b, e, b, k)
           /\ QRraw_getCode(r, r.dataLength + k) = <<"ecc", r.rsblock[y].ecc + x - 1>>
<1>1. IsGrid(b, e, b) /\ GridSize(b, e, b) = b * e /\ k \in 0..(GridSize(b, e, b) - 1)
      /\ r.blocks = b /\ r.eccLength = b * e /\ b * e \in Nat /\ b \in Nat
  BY DEF IsRaw, IsGrid, GridSize
<1>2. PICK q \in Nat, m \in 0..b - 1 :
        /\ q = k \div b /\ m = k % b /\ (q < e \/ (q = e /\ m < b - b))
        /\ GridAt(b, e, b, k) = <<q + 1, m + (IF q >= e THEN b ELSE 0) + 1>>
  <2>1. PICK g : g = b
    OBVIOUS
  <2>2. IsGrid(b, e, g) /\ k \in 0..(GridSize(b, e, g) - 1)
    BY <1>1, <2>1
  <2>3. \E q \in Nat, m \in 0..b - 1 :
          /\ k = b * q + m /\ q = k \div b /\ m = k % b
          /\ q < e \/ (q = e /\ m < b - g)
          /\ GridAt(b, e, g, k) = <<q + 1, m + (IF q >= e THEN g ELSE 0) + 1>>
          /\ GridAt(b, e, g, k) \in Grid(b, e, g)
    BY <2>2, GridPlace
  <2> QED
    BY <2>1, <2>3
<1>3. q < e /\ e \in Nat /\ GridAt(b, e, b, k) = <<q + 1, m + 1>>
  BY <1>1, <1>2 DEF IsRaw
<1>4. q + 1 \in 1..e /\ m + 1 \in 1..b
  BY <1>1, <1>2, <1>3
<1>5. r.dataLength \in Nat /\ r.dataLength + k - r.dataLength = k /\ ~ (r.dataLength + k < r.dataLength)
      /\ k < r.eccLength
  <2>1. r.dataLength \in Nat
    BY DEF IsRaw, IsGrid, GridSize
  <2> QED
    BY <1>1, <2>1
<1>6. QRraw_getCode(r, r.dataLength + k) = <<"ecc", r.rsblock[m + 1].ecc + q>>
  BY <1>1, <1>2, <1>5 DEF QRraw_getCode
<1>7. r.rsblock[m + 1].ecc = m * e
  <2>1. r.rsblock[m + 1].ecc = (m + 1 - 1) * e
    BY <1>4 DEF IsRaw
  <2>2. m + 1 - 1 = m
    BY <1>2, <1>1
  <2> QED
    BY <2>1, <2>2
<1>8. r.rsblock[m + 1].ecc + q = r.rsblock[m + 1].ecc + (q + 1) - 1
  BY <1>1, <1>3, <1>7
<1> QED
  BY <1>3, <1>4, <1>6, <1>8

LEMMA DataGrid ==
  ASSUME NEW r, NEW b, NEW d, NEW f, NEW e, IsRaw(r, b, d, f, e)
  PROVE  DataBytes(r) = Grid(b, d, f)
<1>1. r.blocks = b /\ b \in Nat /\ d \in Nat /\ f \in 1..b
      /\ \A k \in 1..b : r.rsblock[k].dataLength = IF k <= f THEN d ELSE d + 1
  BY DEF IsRaw, IsGrid
<1>2. ASSUME NEW c \in Grid(b, d, f) PROVE c \in DataBytes(r)
  <2>1. PICK x \in 1..(d + 1), y \in 1..b : c = <<x, y>> /\ (x <= d \/ y > f)
    BY DEF Grid
  <2>2. x \in 1..r.rsblock[y].dataLength
    BY <1>1, <2>1
  <2>3. c \in (1..r.rsblock[y].dataLength) \X {y}
    BY <2>1, <2>2
  <2> QED
    BY <1>1, <2>3 DEF DataBytes
<1>3. ASSUME NEW c \in DataBytes(r) PROVE c \in Grid(b, d, f)
  <2>1. PICK y \in 1..b : c \in (1..r.rsblock[y].dataLength) \X {y}
    BY <1>1 DEF DataBytes
  <2>2. PICK x \in 1..r.rsblock[y].dataLength : c = <<x, y>>
    BY <2>1
  <2>3. x \in 1..(d + 1) /\ (x <= d \/ y > f)
    BY <1>1, <2>2
  <2> QED
    BY <2>2, <2>3 DEF Grid
<1> QED
  BY <1>2, <1>3

LEMMA EccGrid ==
  ASSUME NEW r, NEW b, NEW d, NEW f, NEW e, IsRaw(r, b, d, f, e)
  PROVE  EccBytes(r) = Grid(b, e, b)
<1>1. r.blocks = b /\ b \in Nat /\ b > 0 /\ e \in Nat /\ r.eccLength = b * e
  BY DEF IsRaw, IsGrid
<1>2. r.eccLength \div r.blocks = e
  <2>1. 0 \in 0..b - 1
    BY <1>1
  <2>2. (b * e + 0) \div b = e
    BY <1>1, <2>1, DividedUniquely
  <2>3. b * e + 0 = b * e
    BY <1>1
  <2> QED
    BY <1>1, <2>2, <2>3
<1>3. (1..e) \X (1..b) = Grid(b, e, b)
  <2>1. ASSUME NEW c \in Grid(b, e, b) PROVE c \in (1..e) \X (1..b)
    BY <1>1 DEF Grid
  <2>2. ASSUME NEW c \in (1..e) \X (1..b) PROVE c \in Grid(b, e, b)
    BY <1>1 DEF Grid
  <2> QED
    BY <2>1, <2>2
<1> QED
  BY <1>1, <1>2, <1>3 DEF EccBytes

(* The bits of the standard's message are those of the codewords taken.     *)
LEMMA DataMessage ==
  ASSUME NEW s \in Symbols, NEW k \in 0..(Raws[s].dataLength - 1), NEW bit \in 0..7,
         8 * k + bit < DataBits(s), 8 * k + bit < Cardinality(FreeModules[s]),
         Cardinality(FreeModules[s]) \in Nat
  PROVE  Message[s][8 * k + bit + 1] = Bit(QRraw_getCode(Raws[s], k), bit)
<1>1. PICK r, b, d, f, e : r = Raws[s] /\ IsRaw(r, b, d, f, e)
  BY RawIsRaw
<1>2. PICK x \in Nat, y \in Nat :
        /\ <<x, y>> = GridAt(b, d, f, k)
        /\ QRraw_getCode(r, k) = <<"data", r.rsblock[y].data + x - 1>>
  <2>1. k \in 0..(r.dataLength - 1)
    BY <1>1
  <2> QED
    <3>1. \E x \in Nat, y \in Nat :
            /\ <<x, y>> = GridAt(b, d, f, k) /\ <<x, y>> \in Grid(b, d, f)
            /\ QRraw_getCode(r, k) = <<"data", r.rsblock[y].data + x - 1>>
      BY <1>1, <2>1, DataTaken
    <3> QED
      BY <3>1
<1>3. ByTurns(DataBytes(r))[k + 1] = <<x, y>>
  <2>1. IsGrid(b, d, f) /\ k \in 0..(GridSize(b, d, f) - 1)
    BY <1>1 DEF IsRaw
  <2> QED
    BY <1>1, <1>2, <2>1, DataGrid, GridByTurns
<1>4. k \in Nat
  <2>1. r.dataLength \in Int
    BY <1>1 DEF IsRaw, IsGrid, GridSize
  <2> QED
    BY <1>1, <2>1
<1>5. PICK n \in Nat : n = 8 * k + bit + 1
  BY <1>4
<1>6. (n - 1) \div 8 = k /\ (n - 1) % 8 = bit
  <2>1. (8 * k + bit) \div 8 = k /\ (8 * k + bit) % 8 = bit
    BY <1>4
  <2>2. n - 1 = 8 * k + bit
    BY <1>4, <1>5
  <2> QED
    BY <2>1, <2>2
<1>7. n \in 1..Cardinality(FreeModules[s])
  BY <1>4, <1>5
<1>8. n <= DataBits(s)
  <2>1. DataBits(s) \in Int
    BY <1>1, RawIsRaw DEF IsRaw, IsGrid, GridSize
  <2> QED
    BY <1>4, <1>5, <2>1
<1>9. Message[s][n] = <<"data", r.rsblock[y].data + x - 1, bit>>
  BY <1>1, <1>3, <1>6, <1>7, <1>8 DEF Message
<1> QED
  BY <1>1, <1>2, <1>5, <1>9 DEF Bit

LEMMA EccMessage ==
  ASSUME NEW s \in Symbols, NEW k \in 0..(Raws[s].eccLength - 1), NEW bit \in 0..7,
         DataBits(s) + 8 * k + bit < Cardinality(FreeModules[s]),
         Cardinality(FreeModules[s]) \in Nat
  PROVE  Message[s][DataBits(s) + 8 * k + bit + 1]
           = Bit(QRraw_getCode(Raws[s], Raws[s].dataLength + k), bit)
<1>1. PICK r, b, d, f, e : r = Raws[s] /\ IsRaw(r, b, d, f, e)
  BY RawIsRaw
<1>2. PICK x \in 1..e, y \in 1..b :
        /\ <<x, y>> = GridAt(b, e, b, k)
        /\ QRraw_getCode(r, r.dataLength + k) = <<"ecc", r.rsblock[y].ecc + x - 1>>
  BY <1>1, EccTaken
<1>3. ByTurns(EccBytes(r))[k + 1] = <<x, y>>
  <2>1. IsGrid(b, e, b) /\ k \in 0..(GridSize(b, e, b) - 1)
    BY <1>1 DEF IsRaw, IsGrid, GridSize
  <2> QED
    BY <1>1, <1>2, <2>1, EccGrid, GridByTurns
<1>4. k \in Nat /\ k < r.eccLength /\ r.eccLength \in Nat
  <2>1. r.eccLength \in Int
    BY <1>1 DEF IsRaw, IsGrid
  <2> QED
    BY <1>1, <2>1
<1>5. PICK bits \in Nat : bits = DataBits(s)
  <2>1. r.dataLength \in Nat
    BY <1>1 DEF IsRaw, IsGrid, GridSize
  <2> QED
    BY <1>1, <2>1, RawIsRaw
<1>6. PICK n \in Nat : n = bits + 8 * k + bit + 1
  BY <1>4
<1>7. (n - 1 - bits) \div 8 = k /\ (n - 1 - bits) % 8 = bit
  <2>1. (8 * k + bit) \div 8 = k /\ (8 * k + bit) % 8 = bit
    BY <1>4
  <2>2. n - 1 - bits = 8 * k + bit
    BY <1>4, <1>6
  <2> QED
    BY <2>1, <2>2
<1>8. n \in 1..Cardinality(FreeModules[s]) /\ ~ (n <= bits) /\ n <= bits + 8 * r.eccLength
  BY <1>4, <1>5, <1>6
<1>9. Message[s][n] = <<"ecc", r.rsblock[y].ecc + x - 1, bit>>
  BY <1>1, <1>3, <1>5, <1>7, <1>8 DEF Message
<1> QED
  BY <1>1, <1>2, <1>5, <1>6, <1>9 DEF Bit

-----------------------------------------------------------------------------
(* The search of FrameFiller_next.  A function that goes on until it stops  *)
(* exists, whether or not it ever does.                                     *)
IsSearch(f, D, Stops, end, move) == f = [g \in D |-> IF g \in Stops THEN end[g] ELSE f[move[g]]]

LEMMA SearchExists ==
  ASSUME NEW D, NEW move, NEW end, NEW Stops,
         \A g \in D : g \in Stops \/ move[g] \in D
  PROVE  \E f : IsSearch(f, D, Stops, end, move)
<1> DEFINE V == {end[g] : g \in D}
           Closed(S) == /\ \A g \in D : g \in Stops => <<g, end[g]>> \in S
                        /\ \A g \in D, v \in V : g \notin Stops /\ <<move[g], v>> \in S => <<g, v>> \in S
           L == {c \in D \X V : \A S \in SUBSET (D \X V) : Closed(S) => c \in S}
           R(g) == {v \in V : <<g, v>> \in L}
           F == [g \in D |-> CHOOSE v : v \in R(g)]
<1>1. Closed(L) /\ L \in SUBSET (D \X V)
  OBVIOUS
<1> HIDE DEF V
<1>2. ASSUME NEW g \in D, NEW v \in V, <<g, v>> \in L
      PROVE  (g \in Stops /\ v = end[g]) \/ (g \notin Stops /\ <<move[g], v>> \in L)
  <2> DEFINE S == L \ {<<g, v>>}
  <2>1. ASSUME g \in Stops => v # end[g], g \notin Stops => <<move[g], v>> \notin L
        PROVE  FALSE
    <3>1. \A h \in D : h \in Stops => <<h, end[h]>> \in S
      BY <1>1, <2>1
    <3>2. \A h \in D, u \in V : h \notin Stops /\ <<move[h], u>> \in S => <<h, u>> \in S
      BY <1>1, <2>1
    <3>3. S \in SUBSET (D \X V)
      BY <1>1
    <3>4. <<g, v>> \in S
      BY <1>2, <3>1, <3>2, <3>3
    <3> QED
      BY <3>4
  <2> QED
    BY <2>1
<1>3. ASSUME NEW g \in D, g \in Stops PROVE F[g] = end[g]
  <2>1. end[g] \in V
    BY DEF V
  <2>2. <<g, end[g]>> \in L
    BY <1>1, <1>3
  <2>3. \A v \in V : <<g, v>> \in L => v = end[g]
    BY <1>2, <1>3
  <2> HIDE DEF L
  <2>4. R(g) = {end[g]}
    BY <2>1, <2>2, <2>3
  <2> HIDE DEF R
  <2> QED
    BY <1>3, <2>4
<1>4. ASSUME NEW g \in D, g \notin Stops PROVE F[g] = F[move[g]]
  <2>1. R(g) = R(move[g])
    BY <1>1, <1>2, <1>4
  <2>2. move[g] \in D
    BY <1>4
  <2> HIDE DEF R
  <2> QED
    BY <2>1, <2>2
<1> HIDE DEF R
<1>5. F = [g \in D |-> F[g]]
  OBVIOUS
<1> HIDE DEF F
<1>6. F = [g \in D |-> IF g \in Stops THEN end[g] ELSE F[move[g]]]
  BY <1>3, <1>4, <1>5
<1> QED
  BY <1>6 DEF IsSearch

Fillers == [x : Int, y : Int, dir : {-1, 1}, bit : {0, 1}]
At(s, f) == f.y * Width(s) + f.x

(* What FrameFiller_next does, move by move.                                *)
LEMMA MoveType ==
  ASSUME NEW s, Width(s) \in Int, NEW f \in Fillers
  PROVE  Move(f, s) \in Fillers
<1>1. PICK w \in Int : w = Width(s)
  OBVIOUS
<1>2. f.x \in Int /\ f.y \in Int /\ f.dir \in {-1, 1} /\ f.bit \in {0, 1}
  BY DEF Fillers
<1> QED
  BY <1>1, <1>2 DEF Fillers, Move

LEMMA SearchUnfolds ==
  ASSUME NEW s, Width(s) \in Int, NEW f \in Fillers
  PROVE  FrameFiller_next(f, s)
           = LET m == Move(f, s)
             IN  IF m.x < 0 \/ m.y < 0 THEN Nowhere
                 ELSE IF frame[m.y * Width(s) + m.x] = FunctionPattern THEN FrameFiller_next(m, s)
                 ELSE m
<1> DEFINE D == [x : Int, y : Int, dir : {-1, 1}, bit : {0, 1}]
           Is(nx) == nx = [g \in D |->
                             LET m == Move(g, s)
                             IN  IF m.x < 0 \/ m.y < 0 THEN Nowhere
                                 ELSE IF frame[m.y * Width(s) + m.x] = FunctionPattern THEN nx[m] ELSE m]
           next == CHOOSE nx : Is(nx)
           move == [g \in D |-> Move(g, s)]
           end == [g \in D |-> IF Move(g, s).x < 0 \/ Move(g, s).y < 0 THEN Nowhere ELSE Move(g, s)]
           Stops == {g \in D : \/ Move(g, s).x < 0 \/ Move(g, s).y < 0
                               \/ frame[Move(g, s).y * Width(s) + Move(g, s).x] # FunctionPattern}
<1>1. \A g \in D : Move(g, s) \in D /\ g.bit # -1
  BY MoveType DEF Fillers
<1>2. \A g : FrameFiller_next(g, s) = IF g.bit = -1 THEN [g EXCEPT !.bit = 0] ELSE next[g]
  BY DEF FrameFiller_next
<1>3. \E nx : nx = [g \in D |-> IF g \in Stops THEN end[g] ELSE nx[move[g]]]
  <2>1. \A g \in D : move[g] \in D
    BY <1>1
  <2> HIDE DEF D, move, end, Stops
  <2>2. PICK DD, mm, ee, SS : DD = D /\ mm = move /\ ee = end /\ SS = Stops
    OBVIOUS
  <2>3. \A g \in DD : g \in SS \/ mm[g] \in DD
    BY <2>1, <2>2
  <2>4. \E nx : IsSearch(nx, DD, SS, ee, mm)
    BY <2>3, SearchExists
  <2> QED
    BY <2>2, <2>4 DEF IsSearch
<1>4. \E nx : Is(nx)
  <2>1. PICK nx : nx = [g \in D |-> IF g \in Stops THEN end[g] ELSE nx[move[g]]]
    BY <1>3
  <2>2. ASSUME NEW g \in D
        PROVE  (IF g \in Stops THEN end[g] ELSE nx[move[g]])
                 = LET m == Move(g, s)
                   IN  IF m.x < 0 \/ m.y < 0 THEN Nowhere
                       ELSE IF frame[m.y * Width(s) + m.x] = FunctionPattern THEN nx[m] ELSE m
    <3>1. PICK m : m = Move(g, s)
      OBVIOUS
    <3>2. move[g] = m /\ end[g] = (IF m.x < 0 \/ m.y < 0 THEN Nowhere ELSE m)
          /\ (g \in Stops <=> m.x < 0 \/ m.y < 0 \/ frame[m.y * Width(s) + m.x] # FunctionPattern)
      BY <3>1
    <3> HIDE DEF move, end, Stops, D
    <3> QED
      BY <3>1, <3>2
  <2> HIDE DEF move, end, Stops, D
  <2>3. [g \in D |-> IF g \in Stops THEN end[g] ELSE nx[move[g]]]
          = [g \in D |->
                             LET m == Move(g, s)
                             IN  IF m.x < 0 \/ m.y < 0 THEN Nowhere
                                 ELSE IF frame[m.y * Width(s) + m.x] = FunctionPattern THEN nx[m] ELSE m]
    BY <2>2
  <2>4. Is(nx)
    BY <2>1, <2>3
  <2> QED
    BY <2>4
<1>5. Is(next)
  <2> HIDE DEF Is
  <2> QED
    BY <1>4
<1> HIDE DEF next
<1>6. f \in D
  BY DEF Fillers
<1>7. next[f] = LET m == Move(f, s)
                IN  IF m.x < 0 \/ m.y < 0 THEN Nowhere
                    ELSE IF frame[m.y * Width(s) + m.x] = FunctionPattern THEN next[m] ELSE m
  BY <1>5, <1>6
<1>8. FrameFiller_next(f, s) = next[f] /\ FrameFiller_next(Move(f, s), s) = next[Move(f, s)]
  BY <1>1, <1>2, <1>6
<1> QED
  BY <1>7, <1>8

-----------------------------------------------------------------------------
(* The frames.                                                              *)
LEMMA Widths ==
  ASSUME NEW s \in Symbols
  PROVE  /\ Width(s) \in Nat /\ Width(s) % 2 = 1 /\ Width(s) >= 11
         /\ ~ s.mqr => Width(s) >= 21
<1>1. CASE s.mqr
  <2>1. PICK v, l : v = s.version /\ l = s.level /\ v \in 1..4 /\ l \in 0..3 /\ MQRspec_getECCLength(v, l) > 0
    BY <1>1, SymbolsAssumption DEF MQRSPEC_VERSION_MAX
  <2>2. MQRspec_getWidth(v) = 9 + 2 * v
    BY <2>1, MQRTables
  <2> QED
    BY <1>1, <2>1, <2>2 DEF Width
<1>2. CASE ~ s.mqr
  <2>1. PICK v, l : v = s.version /\ l = s.level /\ v \in 1..40 /\ l \in 0..3
    BY <1>2, SymbolsAssumption DEF QRSPEC_VERSION_MAX
  <2>2. capacity[v][1] = 17 + 4 * v
    BY <2>1, QRTables
  <2>3. Width(s) = 17 + 4 * v
    BY <1>2, <2>1, <2>2 DEF Width, QRspec_getWidth
  <2> QED
    BY <1>2, <2>1, <2>3
<1> QED
  BY <1>1, <1>2

Modules(s) == 0..(Width(s) * Width(s) - 1)

LEMMA ModuleAt ==
  ASSUME NEW s \in Symbols, NEW x \in 0..(Width(s) - 1), NEW y \in 0..(Width(s) - 1)
  PROVE  /\ y * Width(s) + x \in Modules(s)
         /\ (y * Width(s) + x) % Width(s) = x /\ (y * Width(s) + x) \div Width(s) = y
<1>1. PICK w \in Nat : w = Width(s) /\ w > 0
  BY Widths
<1>2. x \in 0..w - 1 /\ y \in Nat /\ y < w
  BY <1>1
<1>3. w * y + x \in Nat /\ (w * y + x) \div w = y /\ (w * y + x) % w = x
  BY <1>1, <1>2, DividedUniquely
<1>4. w * y + w <= w * w /\ w * y \in Nat /\ w * w \in Nat /\ w * y = y * w
  BY <1>1, <1>2, Products
<1>5. y * w + x \in 0..(w * w - 1)
  BY <1>2, <1>4
<1> QED
  BY <1>1, <1>3, <1>4, <1>5 DEF Modules

LEMMA ModuleOf ==
  ASSUME NEW s \in Symbols, NEW p \in Modules(s)
  PROVE  \E x, y \in 0..(Width(s) - 1) : p = y * Width(s) + x
<1>1. PICK w \in Nat : w = Width(s) /\ w > 0
  BY Widths
<1>2. w * w \in Nat /\ p \in Nat /\ p < w * w
  BY <1>1 DEF Modules
<1>3. PICK x \in 0..w - 1, y \in Nat : p = w * y + x
  <2>1. p \div w \in Nat /\ p % w \in 0..w - 1 /\ p = w * (p \div w) + (p % w)
    BY <1>1, <1>2, Divided
  <2> QED
    BY <2>1
<1>4. y < w
  <2>1. ASSUME w <= y PROVE FALSE
    <3>1. w = y \/ w * w + w <= w * y
      BY <1>1, <2>1, Products
    <3>2. w * w <= w * y /\ w * y \in Nat
      BY <1>1, <1>2, <3>1
    <3> QED
      BY <1>1, <1>2, <1>3, <3>2
  <2> QED
    BY <1>1, <2>1
<1> QED
  BY <1>1, <1>3, <1>4

LEMMA FrameModules ==
  ASSUME NEW s \in Symbols
  PROVE  /\ Frames[s] = [p \in Modules(s) |-> Frames[s][p]]
         /\ FreeModules[s] = {p \in Modules(s) : Frames[s][p] = Free}
         /\ \A p \in Modules(s) : Frames[s][p] = FunctionPattern \/ Frames[s][p] = Free
         /\ FunctionPattern # Free
<1>1. Frames[s] = [p \in Modules(s) |-> IF <<p % Width(s), p \div Width(s)>> \in CreateFrame(s).functions
                                          THEN FunctionPattern ELSE Free]
  BY DEF Frames, Modules
<1>2. FreeModules[s] = {p \in DOMAIN Frames[s] : Frames[s][p] = Free}
  BY DEF FreeModules
<1>3. FunctionPattern # Free
  BY DEF FunctionPattern, Free
<1> HIDE DEF FunctionPattern, Free
<1> QED
  BY <1>1, <1>2, <1>3

LEMMA FunctionColumns ==
  ASSUME NEW s \in Symbols, NEW x \in 0..(Width(s) - 1), NEW y \in 0..(Width(s) - 1),
         y * Width(s) + x \in FreeModules[s]
  PROVE  /\ s.mqr => x # 0
         /\ ~ s.mqr => x # 6
         /\ ~ s.mqr /\ x \in {4, 5} => y > 8 /\ y < Width(s) - 8
<1>1. PICK w \in Nat : w = Width(s) /\ w >= 11 /\ (~ s.mqr => w >= 21)
  BY Widths
<1>2. <<x, y>> \notin CreateFrame(s).functions
  <2>1. PICK p : p = y * w + x
    OBVIOUS
  <2>2. p \in Modules(s) /\ p % w = x /\ p \div w = y
    BY <1>1, <2>1, ModuleAt
  <2>3. Frames[s][p] = Free /\ Free # FunctionPattern
    BY <1>1, <2>1, FrameModules
  <2>4. Frames[s][p] = IF <<p % w, p \div w>> \in CreateFrame(s).functions THEN FunctionPattern ELSE Free
    BY <1>1, <2>2 DEF Frames, Modules
  <2> QED
    BY <2>2, <2>3, <2>4
<1>3. x \in 0..w - 1 /\ y \in 0..w - 1
  BY <1>1
<1>4. CASE s.mqr
  <2>1. CreateFrame(s) = MQRspec_createFrame(s.version) /\ MQRspec_getWidth(s.version) = w
    BY <1>1, <1>4 DEF CreateFrame, Width
  <2>2. <<x, y>> \notin Box(0, 0, 8, 8) /\ <<x, y>> \notin Box(0, 8, 1, w - 8)
    BY <1>2, <2>1 DEF MQRspec_createFrame
  <2> QED
    BY <1>1, <1>3, <1>4, <2>2 DEF Box
<1>5. CASE ~ s.mqr
  <2>1. CreateFrame(s) = QRspec_createFrame(s.version) /\ QRspec_getWidth(s.version) = w
    BY <1>1, <1>5 DEF CreateFrame, Width
  <2>2. /\ <<x, y>> \notin Box(0, 0, 8, 8) /\ <<x, y>> \notin Box(0, w - 8, 8, 8)
        /\ <<x, y>> \notin Box(0, 8, 9, 1) /\ <<x, y>> \notin Box(6, 8, 1, w - 16)
    BY <1>2, <2>1 DEF QRspec_createFrame
  <2> QED
    BY <1>1, <1>3, <1>5, <2>2 DEF Box
<1> QED
  BY <1>4, <1>5

-----------------------------------------------------------------------------
(* The standard's order.                                                    *)
LeftOf(s, x) == Width(s) - 1 - (IF ~s.mqr /\ x < 6 THEN x + 1 ELSE x)
PairOf(s, x) == LeftOf(s, x) \div 2
RankOf(s, x, y) ==
  2 * (IF PairOf(s, x) % 2 = 0 THEN Width(s) - 1 - y ELSE y) + (LeftOf(s, x) % 2)

(* A number by which pairs are ordered: of two columns, then of a place.    *)
Number(s, pair, rank) == 2 * Width(s) * pair + rank

LEMMA Numbers ==
  ASSUME NEW s \in Symbols, NEW q \in Nat, NEW u \in Nat,
         NEW r \in 0..(2 * Width(s) - 1), NEW v \in 0..(2 * Width(s) - 1)
  PROVE  /\ Number(s, q, r) \in Nat
         /\ Number(s, q, r) < Number(s, u, v) <=> (q < u \/ (q = u /\ r < v))
         /\ Number(s, q, r) = Number(s, u, v) <=> (q = u /\ r = v)
<1>1. PICK b \in Nat : b = 2 * Width(s) /\ b > 0
  BY Widths
<1>2. r \in 0..b - 1 /\ v \in 0..b - 1
  BY <1>1
<1>3. q < u => b * q + b <= b * u
  BY <1>1, Products
<1>4. u < q => b * u + b <= b * q
  BY <1>1, Products
<1>5. b * q \in Nat /\ b * u \in Nat /\ (q = u => b * q = b * u)
  BY <1>1
<1>6. Number(s, q, r) = b * q + r /\ Number(s, u, v) = b * u + v
  BY <1>1 DEF Number
<1>7. b * q + r < b * u + v <=> (q < u \/ (q = u /\ r < v))
  BY <1>1, <1>2, <1>3, <1>4, <1>5
<1>8. b * q + r = b * u + v <=> (q = u /\ r = v)
  BY <1>1, <1>2, <1>3, <1>4, <1>5
<1> QED
  BY <1>2, <1>5, <1>6, <1>7, <1>8

LEMMA NumbersLess ==
  ASSUME NEW s \in Symbols, NEW q \in Nat, NEW u \in Nat,
         NEW r \in 0..(2 * Width(s) - 1), NEW v \in 0..(2 * Width(s) - 1)
  PROVE  Number(s, q, r) < Number(s, u, v) <=> (q < u \/ (q = u /\ r < v))
BY Numbers

LEMMA ZigzagAt ==
  ASSUME NEW s \in Symbols, NEW x \in 0..(Width(s) - 1), NEW y \in 0..(Width(s) - 1),
         s.mqr \/ x # 6
  PROVE  /\ Zigzag(s, y * Width(s) + x) = Number(s, PairOf(s, x), RankOf(s, x, y))
         /\ PairOf(s, x) \in Nat /\ RankOf(s, x, y) \in 0..(2 * Width(s) - 1)
         /\ LeftOf(s, x) \in Nat /\ 2 * PairOf(s, x) < Width(s)
<1>1. PICK w \in Nat : w = Width(s) /\ w >= 11 /\ w % 2 = 1 /\ (~ s.mqr => w >= 21)
  BY Widths
<1>2. PICK p : p = y * w + x
  OBVIOUS
<1>3. p % w = x /\ p \div w = y
  BY <1>1, <1>2, ModuleAt
<1>4. Zigzag(s, p) = 2 * w * PairOf(s, x) + RankOf(s, x, y)
  <2>1. PICK left, pair, row : left = LeftOf(s, x) /\ pair = PairOf(s, x)
          /\ row = IF pair % 2 = 0 THEN w - 1 - y ELSE y
    OBVIOUS
  <2>2. Zigzag(s, p) = 2 * w * pair + 2 * row + (left % 2)
    BY <1>1, <1>3, <2>1 DEF Zigzag, LeftOf, PairOf
  <2>3. RankOf(s, x, y) = 2 * row + (left % 2)
    BY <1>1, <2>1 DEF RankOf
  <2>4. left \in Int /\ pair \in Int /\ row \in Int /\ 2 * w * pair \in Int
    BY <1>1, <2>1 DEF LeftOf, PairOf
  <2> QED
    BY <2>1, <2>2, <2>3, <2>4
<1>5. LeftOf(s, x) \in Nat /\ LeftOf(s, x) < w
  BY <1>1 DEF LeftOf
<1>6. PairOf(s, x) \in Nat /\ 2 * PairOf(s, x) < w
  BY <1>1, <1>5 DEF PairOf
<1>7. RankOf(s, x, y) \in 0..(2 * w - 1)
  BY <1>1, <1>5, <1>6 DEF RankOf
<1> QED
  BY <1>1, <1>2, <1>4, <1>5, <1>6, <1>7 DEF Number

(* No two modules of the columns that are in pairs have the same number.    *)
InPair(s, p) == p \in Modules(s) /\ (s.mqr \/ p % Width(s) # 6)

LEMMA FreeInPair ==
  ASSUME NEW s \in Symbols, NEW p \in FreeModules[s]
  PROVE  InPair(s, p)
<1>1. p \in Modules(s)
  BY FrameModules
<1>2. PICK x, y \in 0..(Width(s) - 1) : p = y * Width(s) + x
  BY <1>1, ModuleOf
<1>3. s.mqr \/ x # 6
  BY <1>2, FunctionColumns
<1> QED
  BY <1>1, <1>2, <1>3, ModuleAt DEF InPair

LEMMA ZigzagOnce ==
  ASSUME NEW s \in Symbols, NEW p, NEW q, InPair(s, p), InPair(s, q),
         Zigzag(s, p) = Zigzag(s, q)
  PROVE  p = q
<1>1. PICK w \in Nat : w = Width(s) /\ w >= 11 /\ w % 2 = 1
  BY Widths
<1>2. p \in Modules(s) /\ q \in Modules(s)
  BY DEF InPair
<1>3. PICK x, y \in 0..w - 1 : p = y * w + x
  BY <1>1, <1>2, ModuleOf
<1>4. PICK u, v \in 0..w - 1 : q = v * w + u
  BY <1>1, <1>2, ModuleOf
<1>5. (s.mqr \/ x # 6) /\ (s.mqr \/ u # 6)
  BY <1>1, <1>3, <1>4, ModuleAt DEF InPair
<1>6. PairOf(s, x) = PairOf(s, u) /\ RankOf(s, x, y) = RankOf(s, u, v)
  <2>1. PICK a, r, b, t :
          /\ a = PairOf(s, x) /\ r = RankOf(s, x, y) /\ b = PairOf(s, u) /\ t = RankOf(s, u, v)
          /\ a \in Nat /\ b \in Nat
          /\ r \in 0..(2 * Width(s) - 1) /\ t \in 0..(2 * Width(s) - 1)
          /\ Number(s, a, r) = Number(s, b, t)
    BY <1>1, <1>3, <1>4, <1>5, ZigzagAt
  <2>2. a = b /\ r = t
    BY <2>1, Numbers
  <2> QED
    BY <2>1, <2>2
<1>7. LeftOf(s, x) \in Nat /\ LeftOf(s, u) \in Nat
  BY <1>1, <1>3, <1>4, <1>5, ZigzagAt
<1>8. PICK l \in Nat, m \in Nat, k \in Nat :
        l = LeftOf(s, x) /\ m = LeftOf(s, u) /\ k = l \div 2 /\ k = m \div 2 /\ PairOf(s, x) = k
  BY <1>6, <1>7 DEF PairOf
<1>9. l % 2 = m % 2 /\ y = v
  <2>1. RankOf(s, x, y) = 2 * (IF k % 2 = 0 THEN w - 1 - y ELSE y) + (l % 2)
    BY <1>1, <1>8 DEF RankOf
  <2>2. RankOf(s, u, v) = 2 * (IF k % 2 = 0 THEN w - 1 - v ELSE v) + (m % 2)
    BY <1>1, <1>6, <1>8 DEF RankOf
  <2>3. PICK a, b \in 0..1 : a = l % 2 /\ b = m % 2
    BY <1>8
  <2>4. 2 * (IF k % 2 = 0 THEN w - 1 - y ELSE y) + a = 2 * (IF k % 2 = 0 THEN w - 1 - v ELSE v) + b
    BY <1>6, <2>1, <2>2, <2>3
  <2>5. a = b /\ (IF k % 2 = 0 THEN w - 1 - y ELSE y) = (IF k % 2 = 0 THEN w - 1 - v ELSE v)
    BY <1>1, <2>4
  <2>6. y = v
    BY <1>1, <2>5
  <2> QED
    BY <2>3, <2>5, <2>6
<1>10. l = m
  BY <1>8, <1>9
<1>11. x = u
  BY <1>1, <1>5, <1>8, <1>10 DEF LeftOf
<1> QED
  BY <1>3, <1>4, <1>9, <1>11

-----------------------------------------------------------------------------
(* The filler stands on a module of a pair of columns, right or left by its *)
(* bit, and goes up or down by the number of the pair.                      *)
OnItsWay(s, f) ==
  /\ f \in [x : 0..(Width(s) - 1), y : 0..(Width(s) - 1), dir : {-1, 1}, bit : {0, 1}]
  /\ s.mqr \/ f.x # 6
  /\ f.bit = LeftOf(s, f.x) % 2
  /\ f.dir = IF PairOf(s, f.x) % 2 = 0 THEN -1 ELSE 1

Reached(s, f) == Zigzag(s, At(s, f))
NoneAfter(s, n) == \A p \in FreeModules[s] : Zigzag(s, p) <= n
NoneBetween(s, n, m) == \A p \in FreeModules[s] : Zigzag(s, p) <= n \/ Zigzag(s, p) >= m

(* The free modules by their pairs of columns and their places there.       *)
Before(s, x, y, q, r) == PairOf(s, x) < q \/ (PairOf(s, x) = q /\ RankOf(s, x, y) < r)
After(s, x, y, q, r)  == PairOf(s, x) > q \/ (PairOf(s, x) = q /\ RankOf(s, x, y) > r)

LEMMA FreeAt ==
  ASSUME NEW s \in Symbols, NEW p \in FreeModules[s]
  PROVE  \E x, y \in 0..(Width(s) - 1) :
           /\ p = y * Width(s) + x /\ p \in Modules(s)
           /\ s.mqr => x # 0
           /\ ~ s.mqr => x # 6
           /\ ~ s.mqr /\ x \in {4, 5} => y > 8 /\ y < Width(s) - 8
           /\ Zigzag(s, p) = Number(s, PairOf(s, x), RankOf(s, x, y))
           /\ PairOf(s, x) \in Nat /\ RankOf(s, x, y) \in 0..(2 * Width(s) - 1)
           /\ LeftOf(s, x) \in Nat
<1>1. p \in Modules(s)
  BY FrameModules
<1>2. PICK x, y \in 0..(Width(s) - 1) : p = y * Width(s) + x
  BY <1>1, ModuleOf
<1>3. /\ s.mqr => x # 0
      /\ ~ s.mqr => x # 6
      /\ ~ s.mqr /\ x \in {4, 5} => y > 8 /\ y < Width(s) - 8
  BY <1>2, FunctionColumns
<1>4. s.mqr \/ x # 6
  BY <1>3
<1>5. /\ Zigzag(s, p) = Number(s, PairOf(s, x), RankOf(s, x, y))
      /\ PairOf(s, x) \in Nat /\ RankOf(s, x, y) \in 0..(2 * Width(s) - 1)
      /\ LeftOf(s, x) \in Nat
  BY <1>2, <1>4, ZigzagAt
<1> QED
  BY <1>1, <1>2, <1>3, <1>5

LEMMA NumbersAfter ==
  ASSUME NEW s \in Symbols, NEW q \in Nat, NEW r \in 0..(2 * Width(s) - 1),
         \A x, y \in 0..(Width(s) - 1) :
           y * Width(s) + x \in FreeModules[s] => ~ After(s, x, y, q, r)
  PROVE  NoneAfter(s, Number(s, q, r))
<1>1. ASSUME NEW p \in FreeModules[s] PROVE Zigzag(s, p) <= Number(s, q, r)
  <2>1. PICK x, y \in 0..(Width(s) - 1) :
          /\ p = y * Width(s) + x
          /\ Zigzag(s, p) = Number(s, PairOf(s, x), RankOf(s, x, y))
          /\ PairOf(s, x) \in Nat /\ RankOf(s, x, y) \in 0..(2 * Width(s) - 1)
    BY FreeAt
  <2>2. PICK u \in Nat, v \in 0..(2 * Width(s) - 1) : u = PairOf(s, x) /\ v = RankOf(s, x, y)
    BY <2>1
  <2>3. ~ (q < u \/ (q = u /\ r < v))
    BY <2>1, <2>2 DEF After
  <2>4. Number(s, q, r) < Number(s, u, v) <=> (q < u \/ (q = u /\ r < v))
    BY NumbersLess
  <2>5. Number(s, q, r) \in Nat /\ Number(s, u, v) \in Nat
    BY Numbers
  <2> QED
    BY <2>1, <2>2, <2>3, <2>4, <2>5
<1> QED
  BY <1>1 DEF NoneAfter

LEMMA NumbersBetween ==
  ASSUME NEW s \in Symbols, NEW q \in Nat, NEW r \in 0..(2 * Width(s) - 1),
         NEW u \in Nat, NEW v \in 0..(2 * Width(s) - 1),
         \A x, y \in 0..(Width(s) - 1) :
           y * Width(s) + x \in FreeModules[s] => ~ After(s, x, y, q, r) \/ ~ Before(s, x, y, u, v)
  PROVE  NoneBetween(s, Number(s, q, r), Number(s, u, v))
<1>1. ASSUME NEW p \in FreeModules[s]
      PROVE  Zigzag(s, p) <= Number(s, q, r) \/ Zigzag(s, p) >= Number(s, u, v)
  <2>1. PICK x, y \in 0..(Width(s) - 1) :
          /\ p = y * Width(s) + x
          /\ Zigzag(s, p) = Number(s, PairOf(s, x), RankOf(s, x, y))
          /\ PairOf(s, x) \in Nat /\ RankOf(s, x, y) \in 0..(2 * Width(s) - 1)
    BY FreeAt
  <2>2. PICK a \in Nat, b \in 0..(2 * Width(s) - 1) : a = PairOf(s, x) /\ b = RankOf(s, x, y)
    BY <2>1
  <2>3. ~ (q < a \/ (q = a /\ r < b)) \/ ~ (a < u \/ (a = u /\ b < v))
    BY <2>1, <2>2 DEF After, Before
  <2>4. Number(s, q, r) < Number(s, a, b) <=> (q < a \/ (q = a /\ r < b))
    BY NumbersLess
  <2>5. Number(s, a, b) < Number(s, u, v) <=> (a < u \/ (a = u /\ b < v))
    BY NumbersLess
  <2>6. Number(s, q, r) \in Nat /\ Number(s, u, v) \in Nat /\ Number(s, a, b) \in Nat
    BY Numbers
  <2> QED
    BY <2>1, <2>2, <2>3, <2>4, <2>5, <2>6
<1> QED
  BY <1>1 DEF NoneBetween

LEMMA OnItsWayAt ==
  ASSUME NEW s \in Symbols, NEW f, OnItsWay(s, f)
  PROVE  /\ At(s, f) \in Modules(s)
         /\ Reached(s, f) = Number(s, PairOf(s, f.x), RankOf(s, f.x, f.y))
         /\ PairOf(s, f.x) \in Nat /\ RankOf(s, f.x, f.y) \in 0..(2 * Width(s) - 1)
         /\ 2 * PairOf(s, f.x) < Width(s) /\ Reached(s, f) \in Nat
         /\ LeftOf(s, f.x) = 2 * PairOf(s, f.x) + f.bit
         /\ f \in Fillers
<1>1. PICK x \in 0..(Width(s) - 1), y \in 0..(Width(s) - 1) :
        x = f.x /\ y = f.y /\ (s.mqr \/ x # 6) /\ f.bit = LeftOf(s, x) % 2
  BY DEF OnItsWay
<1>2. /\ Zigzag(s, y * Width(s) + x) = Number(s, PairOf(s, x), RankOf(s, x, y))
      /\ PairOf(s, x) \in Nat /\ RankOf(s, x, y) \in 0..(2 * Width(s) - 1)
      /\ LeftOf(s, x) \in Nat /\ 2 * PairOf(s, x) < Width(s)
  BY <1>1, ZigzagAt
<1>3. y * Width(s) + x \in Modules(s)
  BY ModuleAt
<1>4. Number(s, PairOf(s, x), RankOf(s, x, y)) \in Nat
  <2>1. PICK q \in Nat, r \in 0..(2 * Width(s) - 1) : q = PairOf(s, x) /\ r = RankOf(s, x, y)
    BY <1>2
  <2> QED
    BY <2>1, Numbers
<1>5. LeftOf(s, x) = 2 * PairOf(s, x) + f.bit
  BY <1>1, <1>2 DEF PairOf
<1>6. f \in Fillers
  <2>1. Width(s) \in Nat
    BY Widths
  <2> QED
    BY <2>1 DEF OnItsWay, Fillers
<1> QED
  BY <1>1, <1>2, <1>3, <1>4, <1>5, <1>6 DEF Reached, At

(* One move: to the next module of the pair, or of the next pair, with only *)
(* function patterns between; or out of the frame, with none after it.      *)
Advanced(s, f, m) ==
  IF m.x < 0 \/ m.y < 0 THEN NoneAfter(s, Reached(s, f))
  ELSE /\ OnItsWay(s, m) /\ Reached(s, f) < Reached(s, m)
       /\ NoneBetween(s, Reached(s, f), Reached(s, m))

LEMMA AdvancedTo ==
  ASSUME NEW s \in Symbols, NEW f, NEW m, OnItsWay(s, f), OnItsWay(s, m),
         \/ PairOf(s, f.x) < PairOf(s, m.x)
         \/ PairOf(s, f.x) = PairOf(s, m.x) /\ RankOf(s, f.x, f.y) < RankOf(s, m.x, m.y),
         \A x, y \in 0..(Width(s) - 1) :
           y * Width(s) + x \in FreeModules[s] =>
             \/ ~ After(s, x, y, PairOf(s, f.x), RankOf(s, f.x, f.y))
             \/ ~ Before(s, x, y, PairOf(s, m.x), RankOf(s, m.x, m.y))
  PROVE  Advanced(s, f, m)
<1>1. PICK q \in Nat, r \in 0..(2 * Width(s) - 1) :
        q = PairOf(s, f.x) /\ r = RankOf(s, f.x, f.y) /\ Reached(s, f) = Number(s, q, r)
  BY OnItsWayAt
<1>2. PICK u \in Nat, v \in 0..(2 * Width(s) - 1) :
        u = PairOf(s, m.x) /\ v = RankOf(s, m.x, m.y) /\ Reached(s, m) = Number(s, u, v)
  BY OnItsWayAt
<1>3. Number(s, q, r) < Number(s, u, v)
  <2>1. q < u \/ (q = u /\ r < v)
    BY <1>1, <1>2
  <2>2. Number(s, q, r) < Number(s, u, v) <=> (q < u \/ (q = u /\ r < v))
    BY NumbersLess
  <2> QED
    BY <2>1, <2>2
<1>4. NoneBetween(s, Number(s, q, r), Number(s, u, v))
  <2>1. \A x, y \in 0..(Width(s) - 1) :
          y * Width(s) + x \in FreeModules[s] => ~ After(s, x, y, q, r) \/ ~ Before(s, x, y, u, v)
    BY <1>1, <1>2
  <2> QED
    BY <2>1, NumbersBetween
<1>5. ~ (m.x < 0 \/ m.y < 0)
  <2>1. Width(s) \in Nat
    BY Widths
  <2> QED
    BY <2>1 DEF OnItsWay
<1> QED
  BY <1>1, <1>2, <1>3, <1>4, <1>5 DEF Advanced

LEMMA AdvancedOut ==
  ASSUME NEW s \in Symbols, NEW f, NEW m, OnItsWay(s, f), m.x < 0,
         \A x, y \in 0..(Width(s) - 1) :
           y * Width(s) + x \in FreeModules[s]
             => ~ After(s, x, y, PairOf(s, f.x), RankOf(s, f.x, f.y))
  PROVE  Advanced(s, f, m)
<1>1. PICK q \in Nat, r \in 0..(2 * Width(s) - 1) :
        q = PairOf(s, f.x) /\ r = RankOf(s, f.x, f.y) /\ Reached(s, f) = Number(s, q, r)
  BY OnItsWayAt
<1>2. \A x, y \in 0..(Width(s) - 1) :
        y * Width(s) + x \in FreeModules[s] => ~ After(s, x, y, q, r)
  BY <1>1
<1> QED
  BY <1>1, <1>2, NumbersAfter DEF Advanced

(* The places of the free modules, and of a filler, by their columns.       *)
LEMMA FreePlaces ==
  ASSUME NEW s \in Symbols, NEW x \in 0..(Width(s) - 1), NEW y \in 0..(Width(s) - 1),
         y * Width(s) + x \in FreeModules[s]
  PROVE  /\ PairOf(s, x) \in Nat /\ RankOf(s, x, y) \in Nat /\ LeftOf(s, x) \in Nat
         /\ RankOf(s, x, y) <= 2 * Width(s) - 1 /\ LeftOf(s, x) <= Width(s) - 2
         /\ LeftOf(s, x) \in {2 * PairOf(s, x), 2 * PairOf(s, x) + 1}
<1>1. PICK w \in Nat : w = Width(s) /\ w >= 11
  BY Widths
<1>2. (s.mqr => x # 0) /\ (s.mqr \/ x # 6)
  BY FunctionColumns
<1>3. PairOf(s, x) \in Nat /\ RankOf(s, x, y) \in 0..(2 * Width(s) - 1) /\ LeftOf(s, x) \in Nat
  BY <1>2, ZigzagAt
<1>4. LeftOf(s, x) <= w - 2
  BY <1>1, <1>2 DEF LeftOf
<1>5. LeftOf(s, x) \in {2 * PairOf(s, x), 2 * PairOf(s, x) + 1}
  <2>1. PICK l \in Nat : l = LeftOf(s, x)
    BY <1>3
  <2>2. l \in {2 * (l \div 2), 2 * (l \div 2) + 1}
    OBVIOUS
  <2> QED
    BY <2>1, <2>2 DEF PairOf
<1> QED
  BY <1>1, <1>3, <1>4, <1>5

LEMMA Turned ==
  ASSUME NEW d, NEW k \in Nat, d = (IF k % 2 = 0 THEN -1 ELSE 1)
  PROVE  -d = (IF (k + 1) % 2 = 0 THEN -1 ELSE 1) /\ -d \in {-1, 1}
<1>1. d \in Int /\ (k % 2 = 0 => d + 1 = 0) /\ (k % 2 # 0 => d = 1)
  OBVIOUS
<1>2. k % 2 = 0 => -d = 1
  BY ONLY <1>1
<1>3. k % 2 # 0 => -d = -1
  BY ONLY <1>1
<1>4. k % 2 = 0 <=> (k + 1) % 2 # 0
  OBVIOUS
<1>5. -d = (IF (k + 1) % 2 = 0 THEN -1 ELSE 1)
  BY ONLY <1>2, <1>3, <1>4
<1>6. -d \in {-1, 1}
  BY ONLY <1>2, <1>3
<1> QED
  BY <1>5, <1>6

LEMMA Moves ==
  ASSUME NEW s \in Symbols, NEW f, OnItsWay(s, f)
  PROVE  Advanced(s, f, Move(f, s))
<1> DEFINE w == Width(s)
           x == f.x
           y == f.y
           k == PairOf(s, x)
           m == Move(f, s)
<1>1. w \in Nat /\ w % 2 = 1 /\ w >= 11 /\ (~ s.mqr => w >= 21)
  BY Widths
<1>2. /\ x \in 0..w - 1 /\ y \in 0..w - 1 /\ f.dir = (IF k % 2 = 0 THEN -1 ELSE 1)
      /\ f.bit \in {0, 1} /\ (s.mqr \/ x # 6) /\ f.dir \in {-1, 1}
  BY DEF OnItsWay
<1>3. k \in Nat /\ LeftOf(s, x) = 2 * k + f.bit
  BY OnItsWayAt
<1>4. LeftOf(s, x) = w - 1 - (IF ~ s.mqr /\ x < 6 THEN x + 1 ELSE x)
  BY DEF LeftOf
<1>5. RankOf(s, x, y) = 2 * (IF k % 2 = 0 THEN w - 1 - y ELSE y) + f.bit
  BY DEF RankOf, OnItsWay
<1> HIDE DEF w, x, y, k
<1>6. CASE f.bit = 0 /\ x > 0
  <2>1. m = [x |-> x - 1, y |-> y, dir |-> f.dir, bit |-> 1]
    BY <1>1, <1>2, <1>6 DEF Move, x, y, w
  <2>2. x - 1 \in 0..w - 1 /\ (s.mqr \/ x - 1 # 6)
    BY <1>1, <1>2, <1>3, <1>4, <1>6
  <2>3. LeftOf(s, x - 1) = 2 * k + 1
    BY <1>1, <1>2, <1>3, <1>4, <1>6 DEF LeftOf, w
  <2>4. PairOf(s, x - 1) = k /\ LeftOf(s, x - 1) % 2 = 1
    BY <1>3, <2>3 DEF PairOf
  <2>5. RankOf(s, x - 1, y) = 2 * (IF k % 2 = 0 THEN w - 1 - y ELSE y) + 1
    BY <2>4 DEF RankOf, w
  <2>6. m.x = x - 1 /\ m.y = y /\ m.dir = f.dir /\ m.bit = 1
    BY <2>1
  <2> HIDE DEF m
  <2>7. OnItsWay(s, m)
    BY <1>2, <2>1, <2>2, <2>4 DEF OnItsWay, w
  <2>8. PairOf(s, m.x) = k /\ RankOf(s, m.x, m.y) = RankOf(s, x, y) + 1
    BY <1>1, <1>2, <1>3, <1>5, <1>6, <2>4, <2>5, <2>6
  <2>9. RankOf(s, x, y) \in Nat
    BY <1>1, <1>2, <1>5, <1>6
  <2>10. \A a, b \in 0..(Width(s) - 1) :
           b * Width(s) + a \in FreeModules[s] =>
             \/ ~ After(s, a, b, PairOf(s, f.x), RankOf(s, f.x, f.y))
             \/ ~ Before(s, a, b, PairOf(s, m.x), RankOf(s, m.x, m.y))
    BY <1>3, <2>8, <2>9, FreePlaces DEF After, Before, k, x, y
  <2> QED
    BY <1>3, <2>7, <2>8, <2>9, <2>10, AdvancedTo DEF m, k, x, y
<1>7. CASE f.bit = 0 /\ x = 0
  <2>1. m = [x |-> -1, y |-> y, dir |-> f.dir, bit |-> 1]
    BY <1>1, <1>2, <1>7 DEF Move, x, y, w
  <2>2. 2 * k = w - 1
    BY <1>1, <1>3, <1>4, <1>7
  <2>3. \A a, b \in 0..(Width(s) - 1) :
           b * Width(s) + a \in FreeModules[s] => ~ After(s, a, b, k, RankOf(s, f.x, f.y))
    <3>1. SUFFICES ASSUME NEW a \in 0..(Width(s) - 1), NEW b \in 0..(Width(s) - 1),
                          b * Width(s) + a \in FreeModules[s]
                   PROVE  ~ After(s, a, b, k, RankOf(s, f.x, f.y))
      OBVIOUS
    <3>2. PairOf(s, a) \in Nat /\ LeftOf(s, a) \in {2 * PairOf(s, a), 2 * PairOf(s, a) + 1}
          /\ LeftOf(s, a) <= w - 2
      BY <3>1, FreePlaces DEF w
    <3>3. PairOf(s, a) < k
      BY <1>1, <1>3, <2>2, <3>2
    <3> QED
      BY <1>3, <3>2, <3>3 DEF After
  <2>4. m.x < 0
    BY <2>1
  <2> HIDE DEF m
  <2> QED
    BY <2>3, <2>4, AdvancedOut DEF m, k, x
<1>8. CASE f.bit = 1 /\ y + f.dir \in 0..w - 1
  <2>1. m = [x |-> x + 1, y |-> y + f.dir, dir |-> f.dir, bit |-> 0]
    BY <1>1, <1>2, <1>8 DEF Move, x, y, w
  <2>2. x + 1 \in 0..w - 1 /\ (s.mqr \/ x + 1 # 6)
    BY <1>1, <1>2, <1>3, <1>4, <1>8
  <2>3. LeftOf(s, x + 1) = 2 * k
    BY <1>1, <1>2, <1>3, <1>4, <1>8 DEF LeftOf, w
  <2>4. PairOf(s, x + 1) = k /\ LeftOf(s, x + 1) % 2 = 0
    BY <1>3, <2>3 DEF PairOf
  <2>5. RankOf(s, x + 1, y + f.dir)
          = 2 * (IF k % 2 = 0 THEN w - 1 - (y + f.dir) ELSE y + f.dir) + 0
    BY <2>4 DEF RankOf, w
  <2>6. m.x = x + 1 /\ m.y = y + f.dir /\ m.dir = f.dir /\ m.bit = 0
    BY <2>1
  <2> HIDE DEF m
  <2>7. OnItsWay(s, m)
    BY <1>2, <1>8, <2>1, <2>2, <2>4 DEF OnItsWay, w
  <2>8. PairOf(s, m.x) = k /\ RankOf(s, m.x, m.y) = RankOf(s, x, y) + 1
    BY <1>1, <1>2, <1>3, <1>5, <1>8, <2>4, <2>5, <2>6
  <2>9. RankOf(s, x, y) \in Nat
    BY <1>1, <1>2, <1>5, <1>8
  <2>10. \A a, b \in 0..(Width(s) - 1) :
           b * Width(s) + a \in FreeModules[s] =>
             \/ ~ After(s, a, b, PairOf(s, f.x), RankOf(s, f.x, f.y))
             \/ ~ Before(s, a, b, PairOf(s, m.x), RankOf(s, m.x, m.y))
    BY <1>3, <2>8, <2>9, FreePlaces DEF After, Before, k, x, y
  <2> QED
    BY <1>3, <2>7, <2>8, <2>9, <2>10, AdvancedTo DEF m, k, x, y
<1>9. CASE f.bit = 1 /\ y + f.dir \notin 0..w - 1
  <2>1. RankOf(s, x, y) = 2 * w - 1
    BY <1>1, <1>2, <1>3, <1>5, <1>9
  <2>2. y = IF f.dir = -1 THEN 0 ELSE w - 1
    BY <1>1, <1>2, <1>9
  <2>3. CASE x = 0
    <3>1. m.x < 0
      <4>1. m.x = -1
        BY <1>1, <1>2, <1>9, <2>2, <2>3 DEF Move, x, y, w
      <4> QED
        BY <4>1
    <3>2. 2 * k + 1 >= w - 2
      BY <1>1, <1>3, <1>4, <1>9, <2>3
    <3>3. \A a, b \in 0..(Width(s) - 1) :
            b * Width(s) + a \in FreeModules[s] => ~ After(s, a, b, k, RankOf(s, f.x, f.y))
      <4>1. SUFFICES ASSUME NEW a \in 0..(Width(s) - 1), NEW b \in 0..(Width(s) - 1),
                            b * Width(s) + a \in FreeModules[s]
                     PROVE  ~ After(s, a, b, k, RankOf(s, f.x, f.y))
        OBVIOUS
      <4>2. PairOf(s, a) \in Nat /\ LeftOf(s, a) \in {2 * PairOf(s, a), 2 * PairOf(s, a) + 1}
            /\ LeftOf(s, a) <= w - 2 /\ RankOf(s, a, b) <= 2 * w - 1 /\ RankOf(s, a, b) \in Nat
        BY <4>1, FreePlaces DEF w
      <4>3. PairOf(s, a) <= k
        BY <1>1, <1>3, <3>2, <4>2
      <4> QED
        BY <1>1, <1>3, <2>1, <4>2, <4>3 DEF After, x, y
    <3> HIDE DEF m
    <3> QED
      BY <3>1, <3>3, AdvancedOut DEF m, k, x
  <2>4. CASE x > 0 /\ ~ (~ s.mqr /\ x = 7)
    <3>1. m = [x |-> x - 1, y |-> y, dir |-> -f.dir, bit |-> 0]
      BY <1>1, <1>2, <1>9, <2>2, <2>4 DEF Move, x, y, w
    <3>2. x - 1 \in 0..w - 1 /\ (s.mqr \/ x - 1 # 6)
      BY <1>1, <1>2, <1>3, <1>4, <1>9, <2>4
    <3>3. LeftOf(s, x - 1) = 2 * (k + 1)
      BY <1>1, <1>2, <1>3, <1>4, <1>9, <2>4 DEF LeftOf, w
    <3>4. PairOf(s, x - 1) = k + 1 /\ LeftOf(s, x - 1) % 2 = 0
      BY <1>3, <3>3 DEF PairOf
    <3>5. RankOf(s, x - 1, y) = 2 * (IF (k + 1) % 2 = 0 THEN w - 1 - y ELSE y) + 0
      BY <3>4 DEF RankOf, w
    <3>6. m.x = x - 1 /\ m.y = y /\ m.dir = -f.dir /\ m.bit = 0
      BY <3>1
    <3>7. -f.dir = (IF (k + 1) % 2 = 0 THEN -1 ELSE 1) /\ -f.dir \in {-1, 1}
      BY <1>2, <1>3, Turned
    <3> HIDE DEF m
    <3>8. OnItsWay(s, m)
      BY <1>2, <1>9, <3>7, <3>1, <3>2, <3>4 DEF OnItsWay, w
    <3>9. PairOf(s, m.x) = k + 1 /\ RankOf(s, m.x, m.y) = 0
      BY <1>1, <1>2, <1>3, <2>2, <3>4, <3>5, <3>6
    <3>10. \A a, b \in 0..(Width(s) - 1) :
             b * Width(s) + a \in FreeModules[s] =>
               \/ ~ After(s, a, b, PairOf(s, f.x), RankOf(s, f.x, f.y))
               \/ ~ Before(s, a, b, PairOf(s, m.x), RankOf(s, m.x, m.y))
      BY <1>1, <1>3, <2>1, <3>9, FreePlaces DEF After, Before, k, x, y, w
    <3> QED
      BY <1>3, <3>8, <3>9, <3>10, AdvancedTo DEF m, k, x, y
  <2>5. CASE ~ s.mqr /\ x = 7
    <3> DEFINE z == IF f.dir = -1 THEN 9 ELSE w - 9
    <3>1. m = [x |-> 5, y |-> z, dir |-> -f.dir, bit |-> 0]
      BY <1>1, <1>2, <1>9, <2>2, <2>5 DEF Move, x, y, w
    <3>2. 5 \in 0..w - 1 /\ z \in 0..w - 1
      BY <1>1, <2>5
    <3>3. LeftOf(s, 5) = 2 * (k + 1) /\ LeftOf(s, 5) = w - 7
      BY <1>1, <1>2, <1>3, <1>4, <1>9, <2>5 DEF LeftOf, w
    <3>4. PairOf(s, 5) = k + 1 /\ LeftOf(s, 5) % 2 = 0
      BY <1>3, <3>3 DEF PairOf
    <3>5. RankOf(s, 5, z) = 2 * (IF (k + 1) % 2 = 0 THEN w - 1 - z ELSE z) + 0
      BY <3>4 DEF RankOf, w
    <3>6. m.x = 5 /\ m.y = z /\ m.dir = -f.dir /\ m.bit = 0
      BY <3>1
    <3>7. -f.dir = (IF (k + 1) % 2 = 0 THEN -1 ELSE 1) /\ -f.dir \in {-1, 1}
      BY <1>2, <1>3, Turned
    <3> HIDE DEF m
    <3>8. OnItsWay(s, m)
      BY <3>7, <3>1, <3>2, <3>4 DEF OnItsWay, w
    <3>9. PairOf(s, m.x) = k + 1 /\ RankOf(s, m.x, m.y) \in Nat
          /\ RankOf(s, m.x, m.y) <= IF (k + 1) % 2 = 0 THEN 16 ELSE 18
      BY <1>1, <1>2, <1>3, <2>2, <3>4, <3>5, <3>6
    <3>10. \A a, b \in 0..(Width(s) - 1) :
             b * Width(s) + a \in FreeModules[s] =>
               \/ ~ After(s, a, b, PairOf(s, f.x), RankOf(s, f.x, f.y))
               \/ ~ Before(s, a, b, PairOf(s, m.x), RankOf(s, m.x, m.y))
      <4>1. SUFFICES ASSUME NEW a \in 0..(Width(s) - 1), NEW b \in 0..(Width(s) - 1),
                            b * Width(s) + a \in FreeModules[s],
                            After(s, a, b, k, 2 * w - 1),
                            Before(s, a, b, k + 1, RankOf(s, m.x, m.y))
                     PROVE  FALSE
        BY <2>1, <3>9 DEF k, x, y
      <4>2. PairOf(s, a) \in Nat /\ LeftOf(s, a) \in {2 * PairOf(s, a), 2 * PairOf(s, a) + 1}
            /\ RankOf(s, a, b) <= 2 * w - 1 /\ RankOf(s, a, b) \in Nat /\ LeftOf(s, a) \in Nat
        BY <4>1, FreePlaces DEF w
      <4>3. PairOf(s, a) = k + 1 /\ RankOf(s, a, b) < RankOf(s, m.x, m.y)
        BY <1>1, <1>3, <3>9, <4>1, <4>2 DEF After, Before
      <4>4. a # 6
        BY <2>5, <4>1, FunctionColumns
      <4>5. a \in {4, 5}
        BY <1>1, <1>3, <2>5, <3>3, <4>1, <4>2, <4>3, <4>4 DEF LeftOf, w
      <4>6. b > 8 /\ b < w - 8
        BY <2>5, <4>1, <4>5, FunctionColumns DEF w
      <4>7. RankOf(s, a, b) = 2 * (IF (k + 1) % 2 = 0 THEN w - 1 - b ELSE b) + (LeftOf(s, a) % 2)
        BY <4>3 DEF RankOf, w
      <4> QED
        BY <1>1, <1>3, <3>9, <4>2, <4>3, <4>6, <4>7, <4>1 DEF w
    <3> QED
      BY <1>3, <3>8, <3>9, <3>10, AdvancedTo DEF m, k, x, y
  <2> QED
    BY <1>2, <2>3, <2>4, <2>5
<1> QED
  BY <1>2, <1>6, <1>7, <1>8, <1>9

LEMMA LeastElement ==
  ASSUME NEW S, S \subseteq Nat, S # {}
  PROVE  \E m \in S : \A v \in S : m <= v
<1> DEFINE R == OpToRel(<, Nat)
<1>1. \E m \in S : \A v \in S : <<v, m>> \notin R
  BY NatLessThanWellFounded, WFMin, Zenon
<1>2. \A v, m \in Nat : <<v, m>> \notin R => m <= v
  BY DEF OpToRel
<1> QED
  BY <1>1, <1>2

(* What the search returns: the next free module, or NULL past the last.    *)
Found(s, f, n) ==
  \/ n = Nowhere /\ NoneAfter(s, Reached(s, f))
  \/ /\ OnItsWay(s, n) /\ At(s, n) \in FreeModules[s] /\ n # Nowhere
     /\ Reached(s, f) < Reached(s, n) /\ NoneBetween(s, Reached(s, f), Reached(s, n))

SameFunctions(s) ==
  \A p \in Modules(s) : frame[p] = FunctionPattern <=> Frames[s][p] = FunctionPattern

LEMMA ZigzagType ==
  ASSUME NEW s \in Symbols, NEW p \in FreeModules[s]
  PROVE  Zigzag(s, p) \in Nat
<1>1. PICK q \in Nat, r \in 0..(2 * Width(s) - 1) : Zigzag(s, p) = Number(s, q, r)
  BY FreeAt
<1> QED
  BY <1>1, Numbers

LEMMA ReachedBound ==
  ASSUME NEW s \in Symbols, NEW f, OnItsWay(s, f)
  PROVE  2 * Width(s) * Width(s) \in Nat /\ Reached(s, f) \in Nat
         /\ Reached(s, f) <= 2 * Width(s) * Width(s)
<1>1. PICK w \in Nat : w = Width(s) /\ w >= 11
  BY Widths
<1>2. PICK q \in Nat, r \in 0..(2 * Width(s) - 1) :
        Reached(s, f) = Number(s, q, r) /\ 2 * q < Width(s) /\ Reached(s, f) \in Nat
  BY OnItsWayAt
<1>3. q < w /\ 0 \in 0..(2 * Width(s) - 1)
  BY <1>1, <1>2
<1>4. Number(s, q, r) < Number(s, w, 0) /\ Number(s, w, 0) \in Nat
  BY <1>3, Numbers
<1>5. Number(s, w, 0) = 2 * Width(s) * Width(s)
  <2>1. 2 * w * w \in Nat
    BY <1>1
  <2> QED
    BY <1>1, <2>1 DEF Number
<1> QED
  BY <1>2, <1>4, <1>5

LEMMA OneMore ==
  ASSUME NEW s \in Symbols, NEW f, NEW m, OnItsWay(s, f), OnItsWay(s, m),
         Reached(s, f) < Reached(s, m), NoneBetween(s, Reached(s, f), Reached(s, m)),
         At(s, m) \notin FreeModules[s], NEW n, Found(s, m, n)
  PROVE  Found(s, f, n)
<1>1. Reached(s, f) \in Nat /\ Reached(s, m) \in Nat
  BY OnItsWayAt
<1>2. InPair(s, At(s, m))
  <2>1. PICK x, y \in 0..(Width(s) - 1) : x = m.x /\ y = m.y /\ (s.mqr \/ x # 6)
    BY DEF OnItsWay
  <2>2. y * Width(s) + x \in Modules(s) /\ (y * Width(s) + x) % Width(s) = x
    BY ModuleAt
  <2> QED
    BY <2>1, <2>2 DEF InPair, At
<1>3. ASSUME NEW p \in FreeModules[s]
      PROVE  Zigzag(s, p) <= Reached(s, f) \/ Zigzag(s, p) > Reached(s, m)
  <2>1. Zigzag(s, p) # Reached(s, m)
    BY <1>2, FreeInPair, ZigzagOnce DEF Reached
  <2>2. Zigzag(s, p) <= Reached(s, f) \/ Zigzag(s, p) >= Reached(s, m)
    BY DEF NoneBetween
  <2> QED
    BY <1>1, <2>1, <2>2, ZigzagType
<1>4. CASE n = Nowhere /\ NoneAfter(s, Reached(s, m))
  <2>1. ASSUME NEW p \in FreeModules[s] PROVE Zigzag(s, p) <= Reached(s, f)
    <3>1. Zigzag(s, p) <= Reached(s, m) /\ Zigzag(s, p) \in Nat
      BY <1>4, ZigzagType DEF NoneAfter
    <3> QED
      BY <1>1, <1>3, <3>1
  <2> QED
    BY <1>4, <2>1 DEF Found, NoneAfter
<1>5. CASE /\ OnItsWay(s, n) /\ At(s, n) \in FreeModules[s] /\ n # Nowhere
           /\ Reached(s, m) < Reached(s, n) /\ NoneBetween(s, Reached(s, m), Reached(s, n))
  <2>1. Reached(s, n) \in Nat
    BY <1>5, OnItsWayAt
  <2>2. ASSUME NEW p \in FreeModules[s]
        PROVE  Zigzag(s, p) <= Reached(s, f) \/ Zigzag(s, p) >= Reached(s, n)
    <3>1. (Zigzag(s, p) <= Reached(s, m) \/ Zigzag(s, p) >= Reached(s, n)) /\ Zigzag(s, p) \in Nat
      BY <1>5, ZigzagType DEF NoneBetween
    <3> QED
      BY <1>1, <1>3, <2>1, <3>1
  <2>3. Reached(s, f) < Reached(s, n)
    BY <1>1, <1>5, <2>1
  <2> QED
    BY <1>5, <2>2, <2>3 DEF Found, NoneBetween
<1> QED
  BY <1>4, <1>5 DEF Found

LEMMA SearchFinds ==
  ASSUME NEW s \in Symbols, SameFunctions(s), NEW f, OnItsWay(s, f)
  PROVE  Found(s, f, FrameFiller_next(f, s))
<1> DEFINE bound == 2 * Width(s) * Width(s)
           Bad == {d \in Nat : \E g : /\ OnItsWay(s, g) /\ d = bound - Reached(s, g)
                                      /\ ~ Found(s, g, FrameFiller_next(g, s))}
<1>1. ASSUME NEW g, OnItsWay(s, g),
             \A h : OnItsWay(s, h) /\ Reached(s, g) < Reached(s, h)
                      => Found(s, h, FrameFiller_next(h, s))
      PROVE  Found(s, g, FrameFiller_next(g, s))
  <2>1. PICK m : m = Move(g, s)
    OBVIOUS
  <2>2. Advanced(s, g, m)
    BY <1>1, <2>1, Moves
  <2>3. FrameFiller_next(g, s) = IF m.x < 0 \/ m.y < 0 THEN Nowhere
          ELSE IF frame[m.y * Width(s) + m.x] = FunctionPattern THEN FrameFiller_next(m, s) ELSE m
    <3>1. Width(s) \in Int /\ g \in Fillers
      BY <1>1, Widths, OnItsWayAt
    <3> QED
      BY <2>1, <3>1, SearchUnfolds
  <2>4. CASE m.x < 0 \/ m.y < 0
    BY <2>2, <2>3, <2>4 DEF Advanced, Found
  <2>5. CASE ~ (m.x < 0 \/ m.y < 0)
    <3>1. OnItsWay(s, m) /\ Reached(s, g) < Reached(s, m) /\ NoneBetween(s, Reached(s, g), Reached(s, m))
      BY <2>2, <2>5 DEF Advanced
    <3>2. At(s, m) \in Modules(s)
      BY <3>1, OnItsWayAt
    <3>3. CASE frame[At(s, m)] = FunctionPattern
      <4>1. FrameFiller_next(g, s) = FrameFiller_next(m, s)
        BY <2>3, <2>5, <3>3 DEF At
      <4>2. At(s, m) \notin FreeModules[s]
        BY <3>2, <3>3, FrameModules DEF SameFunctions
      <4>3. Found(s, m, FrameFiller_next(m, s))
        BY <1>1, <3>1
      <4>4. PICK n : n = FrameFiller_next(m, s)
        OBVIOUS
      <4>5. Found(s, g, n)
        BY <1>1, <3>1, <4>2, <4>3, <4>4, OneMore
      <4> QED
        BY <4>1, <4>4, <4>5
    <3>4. CASE frame[At(s, m)] # FunctionPattern
      <4>1. FrameFiller_next(g, s) = m
        BY <2>3, <2>5, <3>4 DEF At
      <4>2. At(s, m) \in FreeModules[s]
        BY <3>2, <3>4, FrameModules DEF SameFunctions
      <4>3. m # Nowhere
        BY <2>5 DEF Nowhere
      <4> QED
        BY <3>1, <4>1, <4>2, <4>3 DEF Found
    <3> QED
      BY <3>3, <3>4
  <2> QED
    BY <2>4, <2>5
<1>2. ASSUME Bad # {} PROVE FALSE
  <2>1. Bad \subseteq Nat
    OBVIOUS
  <2> HIDE DEF Bad
  <2>2. PICK d \in Bad : \A e \in Bad : d <= e
    BY <1>2, <2>1, LeastElement
  <2> USE DEF Bad
  <2>3. PICK g : OnItsWay(s, g) /\ d = bound - Reached(s, g) /\ ~ Found(s, g, FrameFiller_next(g, s))
    BY <2>2
  <2>4. ASSUME NEW h, OnItsWay(s, h), Reached(s, g) < Reached(s, h)
        PROVE  Found(s, h, FrameFiller_next(h, s))
    <3>1. PICK b, u, v : b = bound /\ u = Reached(s, g) /\ v = Reached(s, h)
      OBVIOUS
    <3>2. b \in Nat /\ u \in Nat /\ v \in Nat /\ u < v /\ v <= b
      BY <2>3, <2>4, <3>1, ReachedBound
    <3>3. b - v \in Nat /\ ~ (b - u <= b - v)
      BY <3>2
    <3>4. b - v \notin Bad
      BY <2>2, <2>3, <3>1, <3>3
    <3> QED
      BY <2>4, <3>1, <3>3, <3>4
  <2> QED
    BY <1>1, <2>3, <2>4
<1>3. PICK b, u : b = bound /\ u = Reached(s, f)
  OBVIOUS
<1>4. b - u \in Nat
  BY <1>3, ReachedBound
<1> QED
  BY <1>2, <1>3, <1>4

-----------------------------------------------------------------------------
(* Counting the free modules up to one of them.                             *)
Places(s) == {Zigzag(s, q) : q \in FreeModules[s]}
UpTo(s, n) == Places(s) \cap (0..n)
CountUpTo(s, n) == Cardinality(UpTo(s, n))

LEMMA PlacesCounted ==
  ASSUME NEW s \in Symbols
  PROVE  /\ IsFiniteSet(FreeModules[s]) /\ IsFiniteSet(Places(s)) /\ Places(s) \subseteq Nat
         /\ Cardinality(FreeModules[s]) \in Nat
         /\ Cardinality(Places(s)) = Cardinality(FreeModules[s])
<1>1. IsFiniteSet(FreeModules[s])
  <2>1. PICK w \in Nat : w = Width(s)
    BY Widths
  <2>2. w * w - 1 \in Int
    BY <2>1
  <2>3. IsFiniteSet(Modules(s))
    BY <2>1, <2>2, FS_Interval DEF Modules
  <2>4. FreeModules[s] \in SUBSET Modules(s)
    BY FrameModules
  <2> QED
    BY <2>3, <2>4, FS_Subset
<1> DEFINE F == [q \in FreeModules[s] |-> Zigzag(s, q)]
<1>2. F \in Bijection(FreeModules[s], Places(s))
  <2>1. F \in [FreeModules[s] -> Places(s)]
    BY DEF Places
  <2>2. \A p, q \in FreeModules[s] : F[p] = F[q] => p = q
    BY FreeInPair, ZigzagOnce
  <2>3. \A n \in Places(s) : \E q \in FreeModules[s] : F[q] = n
    BY DEF Places
  <2> HIDE DEF F
  <2> QED
    BY <2>1, <2>2, <2>3, Fun_IsBij
<1>3. IsFiniteSet(Places(s)) /\ Cardinality(Places(s)) = Cardinality(FreeModules[s])
  <2>1. ExistsBijection(FreeModules[s], Places(s))
    BY <1>2 DEF ExistsBijection
  <2> QED
    BY <1>1, <2>1, FS_Bijection
<1>4. Places(s) \subseteq Nat
  BY ZigzagType DEF Places
<1> QED
  BY <1>1, <1>3, <1>4, FS_CardinalityType

LEMMA CountType ==
  ASSUME NEW s \in Symbols, NEW n \in Nat
  PROVE  /\ IsFiniteSet(UpTo(s, n)) /\ CountUpTo(s, n) \in Nat
         /\ CountUpTo(s, n) <= Cardinality(FreeModules[s])
         /\ CountUpTo(s, n) = Cardinality(FreeModules[s]) <=> NoneAfter(s, n)
<1>1. UpTo(s, n) \in SUBSET Places(s) /\ IsFiniteSet(Places(s)) /\ Places(s) \subseteq Nat
      /\ Cardinality(Places(s)) = Cardinality(FreeModules[s])
  BY PlacesCounted DEF UpTo
<1>2. IsFiniteSet(UpTo(s, n)) /\ Cardinality(UpTo(s, n)) <= Cardinality(Places(s))
      /\ (Cardinality(Places(s)) = Cardinality(UpTo(s, n)) => Places(s) = UpTo(s, n))
  BY <1>1, FS_Subset
<1>3. CountUpTo(s, n) = Cardinality(FreeModules[s]) => NoneAfter(s, n)
  <2>1. ASSUME Places(s) = UpTo(s, n), NEW p \in FreeModules[s] PROVE Zigzag(s, p) <= n
    <3>1. Zigzag(s, p) \in UpTo(s, n)
      BY <2>1 DEF Places
    <3> QED
      BY <3>1 DEF UpTo
  <2> QED
    BY <1>1, <1>2, <2>1 DEF NoneAfter, CountUpTo
<1>4. NoneAfter(s, n) => CountUpTo(s, n) = Cardinality(FreeModules[s])
  <2>1. ASSUME NoneAfter(s, n) PROVE UpTo(s, n) = Places(s)
    <3>1. ASSUME NEW p \in FreeModules[s] PROVE Zigzag(s, p) \in 0..n
      BY <2>1, ZigzagType DEF NoneAfter
    <3> QED
      BY <3>1 DEF Places, UpTo
  <2> QED
    BY <1>1, <2>1 DEF CountUpTo
<1>5. CountUpTo(s, n) \in Nat
  BY <1>2, FS_CardinalityType DEF CountUpTo
<1> QED
  BY <1>1, <1>2, <1>3, <1>4, <1>5 DEF CountUpTo

LEMMA CountNext ==
  ASSUME NEW s \in Symbols, NEW n \in Nat, NEW p \in FreeModules[s],
         n < Zigzag(s, p), NoneBetween(s, n, Zigzag(s, p))
  PROVE  CountUpTo(s, Zigzag(s, p)) = CountUpTo(s, n) + 1
<1>1. PICK m \in Nat : m = Zigzag(s, p) /\ m \in Places(s)
  BY ZigzagType DEF Places
<1>2. \A a \in Places(s) : a \in Nat /\ (a <= n \/ a >= m)
  BY <1>1, PlacesCounted DEF Places, NoneBetween
<1>3. UpTo(s, m) = UpTo(s, n) \cup {m}
  BY <1>1, <1>2 DEF UpTo
<1>4. m \notin UpTo(s, n)
  BY <1>1 DEF UpTo
<1>5. IsFiniteSet(UpTo(s, n))
  BY CountType
<1>6. Cardinality(UpTo(s, n) \cup {m}) = Cardinality(UpTo(s, n)) + 1
  BY <1>4, <1>5, FS_AddElement
<1> QED
  BY <1>1, <1>3, <1>6 DEF CountUpTo

LEMMA OrderCounts ==
  ASSUME NEW s \in Symbols, NEW p \in Modules(s)
  PROVE  OrderOf[s][p] = CountUpTo(s, Zigzag(s, p))
<1>1. DOMAIN Frames[s] = Modules(s)
  BY FrameModules
<1> QED
  BY <1>1 DEF OrderOf, CountUpTo, UpTo, Places

(* The lower right module is the first.                                     *)
Corner(s) == [x |-> Width(s) - 1, y |-> Width(s) - 1, dir |-> -1, bit |-> 0]

LEMMA CornerFirst ==
  ASSUME NEW s \in Symbols
  PROVE  /\ OnItsWay(s, Corner(s)) /\ At(s, Corner(s)) \in FreeModules[s]
         /\ Reached(s, Corner(s)) = 0 /\ Corner(s) # Nowhere
         /\ CountUpTo(s, 0) = 1
         /\ \A p \in FreeModules[s] : Zigzag(s, p) <= 0 <=> p = At(s, Corner(s))
<1>1. PICK w \in Nat : w = Width(s) /\ w >= 11 /\ (~ s.mqr => w >= 21) /\ w % 2 = 1
  BY Widths
<1>2. LeftOf(s, w - 1) = 0 /\ PairOf(s, w - 1) = 0
  BY <1>1 DEF LeftOf, PairOf
<1>3. RankOf(s, w - 1, w - 1) = 0
  BY <1>1, <1>2 DEF RankOf
<1>4. OnItsWay(s, Corner(s))
  <2>1. 0 % 2 = 0 /\ w - 1 \in 0..w - 1 /\ (s.mqr \/ w - 1 # 6)
    BY <1>1
  <2>2. Corner(s) = [x |-> w - 1, y |-> w - 1, dir |-> -1, bit |-> 0]
    BY <1>1 DEF Corner
  <2>3. Corner(s) \in [x : 0..w - 1, y : 0..w - 1, dir : {-1, 1}, bit : {0, 1}]
    BY <2>1, <2>2
  <2> QED
    BY <1>1, <1>2, <2>1, <2>2, <2>3 DEF OnItsWay
<1>5. Reached(s, Corner(s)) = 0
  <2>1. Reached(s, Corner(s)) = Number(s, 0, 0)
    BY <1>1, <1>2, <1>3, <1>4, OnItsWayAt DEF Corner
  <2>2. 2 * w * 0 + 0 = 0
    BY <1>1
  <2> QED
    BY <1>1, <2>1, <2>2 DEF Number
<1>6. At(s, Corner(s)) \in FreeModules[s]
  <2>1. (w - 1) * w + (w - 1) = w * w - 1
    BY <1>1
  <2>2. w * w - 1 \in FreeModules[s]
    BY <1>1, FitsAssumption
  <2> QED
    BY <1>1, <2>1, <2>2 DEF At, Corner
<1>7. Corner(s) # Nowhere
  BY DEF Corner, Nowhere
<1>8. \A p \in FreeModules[s] : Zigzag(s, p) <= 0 <=> p = At(s, Corner(s))
  <2>1. ASSUME NEW p \in FreeModules[s], Zigzag(s, p) <= 0 PROVE p = At(s, Corner(s))
    <3>1. Zigzag(s, p) = 0
      BY <2>1, ZigzagType
    <3> QED
      BY <1>5, <1>6, <3>1, FreeInPair, ZigzagOnce DEF Reached
  <2>2. ASSUME NEW p \in FreeModules[s], p = At(s, Corner(s)) PROVE Zigzag(s, p) <= 0
    BY <1>5, <2>2 DEF Reached
  <2> QED
    BY <2>1, <2>2
<1>9. CountUpTo(s, 0) = 1
  <2>1. UpTo(s, 0) = {0}
    <3>1. 0 \in Places(s)
      BY <1>5, <1>6 DEF Places, Reached
    <3>2. 0..0 = {0}
      OBVIOUS
    <3> QED
      BY <3>1, <3>2 DEF UpTo
  <2> QED
    BY <2>1, FS_Singleton DEF CountUpTo
<1> QED
  BY <1>4, <1>5, <1>6, <1>7, <1>8, <1>9

-----------------------------------------------------------------------------
(* The inductive invariant: what is taken of the message, and where it went.*)
LoopNames == {"data", "ecc", "remainder", "placed"}

CodeTaken ==
  /\ symbol \in Symbols /\ loop \in LoopNames
  /\ i \in Nat /\ (loop \in DOMAIN Loops => i <= Loops[loop])
  /\ IF code = None THEN j = 0
     ELSE /\ loop \in {"data", "ecc"} /\ i < Loops[loop] /\ j \in 0..(BitsOf - 1)
          /\ code = QRraw_getCode(raw, IF loop = "data" THEN i ELSE raw.dataLength + i)
  /\ loop = "data" => count = i + (IF code = None THEN 0 ELSE 1)
  /\ loop = "ecc"  => count = raw.dataLength + i + (IF code = None THEN 0 ELSE 1)

BitsWritten ==
  \/ filler = FrameFiller_set(symbol) /\ frame = Frames[symbol] /\ Placed = 0
  \/ /\ OnItsWay(symbol, filler) /\ At(symbol, filler) \in FreeModules[symbol]
     /\ frame = [p \in Modules(symbol) |-> frame[p]]
     /\ \A p \in Modules(symbol) :
          IF p \in FreeModules[symbol] /\ Zigzag(symbol, p) <= Reached(symbol, filler)
            THEN frame[p] # FunctionPattern /\ frame[p] # Free
            ELSE frame[p] = Frames[symbol][p]
     /\ Placed = CountUpTo(symbol, Reached(symbol, filler))

IInv == CodeTaken /\ BitsWritten

LEMMA Sizes ==
  ASSUME NEW s \in Symbols
  PROVE  /\ Raws[s].dataLength \in Nat /\ Raws[s].eccLength \in Nat
         /\ RemainderBits(s) \in Nat /\ DataBits(s) \in Nat
         /\ Raws[s].oddbits \in {0, 4} /\ (Raws[s].oddbits # 0 => Raws[s].dataLength > 0)
         /\ DataBits(s) = 8 * Raws[s].dataLength - Raws[s].oddbits
         /\ Cardinality(FreeModules[s]) \in Nat
         /\ Cardinality(FreeModules[s]) = DataBits(s) + 8 * Raws[s].eccLength + RemainderBits(s)
<1>1. Raws[s].dataLength \in Nat /\ Raws[s].eccLength \in Nat
  <2>1. PICK r, b, d, f, e : r = Raws[s] /\ IsRaw(r, b, d, f, e)
    BY RawIsRaw
  <2>2. r.dataLength \in Nat
    BY <2>1 DEF IsRaw, IsGrid, GridSize
  <2>3. r.eccLength \in Nat
    BY <2>1 DEF IsRaw, IsGrid
  <2> QED
    BY <2>1, <2>2, <2>3
<1>2. RemainderBits(s) \in Nat
  <2>1. CASE s.mqr
    BY <2>1 DEF RemainderBits
  <2>2. CASE ~ s.mqr
    <3>1. PICK v \in 1..40, l \in 0..3 : v = s.version /\ l = s.level
      BY <2>2, SymbolsAssumption DEF QRSPEC_VERSION_MAX
    <3>2. capacity[v][3] \in Nat
      BY QRTables
    <3> QED
      BY <2>2, <3>1, <3>2 DEF RemainderBits, QRspec_getRemainder
  <2> QED
    BY <2>1, <2>2
<1>3. Raws[s].oddbits \in {0, 4} /\ (Raws[s].oddbits # 0 => Raws[s].dataLength > 0)
      /\ DataBits(s) = 8 * Raws[s].dataLength - Raws[s].oddbits
  BY RawIsRaw
<1>4. DataBits(s) \in Nat
  BY <1>1, <1>3
<1> QED
  BY <1>1, <1>2, <1>3, <1>4, FitsAssumption, PlacesCounted

LEMMA DataCode ==
  ASSUME NEW s \in Symbols, NEW k \in 0..(Raws[s].dataLength - 1)
  PROVE  \E n \in 0..(Raws[s].dataLength - 1) : QRraw_getCode(Raws[s], k) = <<"data", n>>
<1>1. PICK r, b, d, f, e : r = Raws[s] /\ IsRaw(r, b, d, f, e)
  BY RawIsRaw
<1>2. k \in 0..(r.dataLength - 1)
  BY <1>1
<1>3. PICK x \in Nat, y \in Nat :
        /\ <<x, y>> = GridAt(b, d, f, k) /\ <<x, y>> \in Grid(b, d, f)
        /\ QRraw_getCode(r, k) = <<"data", r.rsblock[y].data + x - 1>>
  BY <1>1, <1>2, DataTaken
<1>4. PICK c \in Grid(b, d, f) : c = <<x, y>>
  BY <1>3
<1>5. r.rsblock[c[2]].data + c[1] - 1 \in 0..(r.dataLength - 1)
  BY <1>1, DataInBuffer
<1>6. c[1] = x /\ c[2] = y
  BY <1>4
<1> QED
  BY <1>1, <1>3, <1>5, <1>6

LEMMA EccCode ==
  ASSUME NEW s \in Symbols, NEW k \in 0..(Raws[s].eccLength - 1)
  PROVE  \E n \in 0..(Raws[s].eccLength - 1) :
           QRraw_getCode(Raws[s], Raws[s].dataLength + k) = <<"ecc", n>>
<1>1. PICK r, b, d, f, e : r = Raws[s] /\ IsRaw(r, b, d, f, e)
  BY RawIsRaw
<1>2. k \in 0..(r.eccLength - 1)
  BY <1>1
<1>3. PICK x \in 1..e, y \in 1..b :
        QRraw_getCode(r, r.dataLength + k) = <<"ecc", r.rsblock[y].ecc + x - 1>>
  BY <1>1, <1>2, EccTaken
<1>4. r.rsblock[y].ecc + x - 1 \in 0..(r.eccLength - 1)
  BY <1>1, EccInBuffer
<1> QED
  BY <1>1, <1>3, <1>4

(* Writing a bit: the next free module takes it.                            *)
Bits(bit) == bit # FunctionPattern /\ bit # Free

LEMMA PutWrites ==
  ASSUME symbol \in Symbols, BitsWritten, Placed < Cardinality(FreeModules[symbol]),
         NEW bit, Bits(bit), Put(bit)
  PROVE  /\ OnItsWay(symbol, filler') /\ At(symbol, filler') \in FreeModules[symbol]
         /\ frame' = [frame EXCEPT ![At(symbol, filler')] = bit]
         /\ frame' = [p \in Modules(symbol) |-> frame'[p]]
         /\ \A p \in Modules(symbol) :
              IF p \in FreeModules[symbol] /\ Zigzag(symbol, p) <= Reached(symbol, filler')
                THEN frame'[p] # FunctionPattern /\ frame'[p] # Free
                ELSE frame'[p] = Frames[symbol][p]
         /\ CountUpTo(symbol, Reached(symbol, filler')) = Placed + 1
         /\ loop' = loop
<1> DEFINE s == symbol
           n == FrameFiller_next(filler, symbol)
<1>1. PICK m : m = n
  OBVIOUS
<1>2. ASSUME OnItsWay(s, m), At(s, m) \in FreeModules[s], m # Nowhere
      PROVE  /\ filler' = m /\ loop' = loop
             /\ frame' = [frame EXCEPT ![At(s, m)] = bit]
  <2>1. filler' = m /\ loop' = loop /\ frame' = [frame EXCEPT ![m.y * Width(symbol) + m.x] = bit]
    BY <1>1, <1>2 DEF Put
  <2> QED
    BY <2>1 DEF At
<1>3. CASE filler = FrameFiller_set(symbol) /\ frame = Frames[symbol] /\ Placed = 0
  <2>1. m = Corner(s)
    <3>1. n = [filler EXCEPT !.bit = 0]
      BY <1>3 DEF FrameFiller_next, FrameFiller_set
    <3> QED
      BY <1>1, <1>3, <3>1 DEF FrameFiller_set, Corner
  <2>2. /\ OnItsWay(s, m) /\ At(s, m) \in FreeModules[s] /\ Reached(s, m) = 0 /\ m # Nowhere
        /\ CountUpTo(s, 0) = 1
        /\ \A p \in FreeModules[s] : Zigzag(s, p) <= 0 <=> p = At(s, m)
    BY <2>1, CornerFirst
  <2>3. filler' = m /\ loop' = loop /\ frame' = [frame EXCEPT ![At(s, m)] = bit]
    BY <1>2, <2>2
  <2>4. frame = [p \in Modules(s) |-> Frames[s][p]]
    BY <1>3, FrameModules
  <2>5. frame' = [p \in Modules(s) |-> frame'[p]]
    BY <2>3, <2>4
  <2>6. ASSUME NEW p \in Modules(s)
        PROVE  IF p \in FreeModules[s] /\ Zigzag(s, p) <= Reached(s, filler')
                 THEN frame'[p] # FunctionPattern /\ frame'[p] # Free
                 ELSE frame'[p] = Frames[s][p]
    <3>1. p \in FreeModules[s] /\ Zigzag(s, p) <= Reached(s, filler') <=> p = At(s, m)
      BY <2>2, <2>3
    <3>2. frame'[p] = IF p = At(s, m) THEN bit ELSE Frames[s][p]
      BY <2>3, <2>4
    <3> QED
      BY <3>1, <3>2 DEF Bits
  <2> QED
    BY <1>3, <2>2, <2>3, <2>5, <2>6
<1>4. CASE /\ OnItsWay(symbol, filler) /\ At(symbol, filler) \in FreeModules[symbol]
           /\ frame = [p \in Modules(symbol) |-> frame[p]]
           /\ \A p \in Modules(symbol) :
                IF p \in FreeModules[symbol] /\ Zigzag(symbol, p) <= Reached(symbol, filler)
                  THEN frame[p] # FunctionPattern /\ frame[p] # Free
                  ELSE frame[p] = Frames[symbol][p]
           /\ Placed = CountUpTo(symbol, Reached(symbol, filler))
  <2>1. PICK k : k = Reached(s, filler) /\ k \in Nat
    BY <1>4, OnItsWayAt
  <2>2. SameFunctions(s)
    <3>1. ASSUME NEW p \in Modules(s)
          PROVE  frame[p] = FunctionPattern <=> Frames[s][p] = FunctionPattern
      <4>1. p \in FreeModules[s] => Frames[s][p] # FunctionPattern
        BY FrameModules
      <4> QED
        BY <1>4, <4>1
    <3> QED
      BY <3>1 DEF SameFunctions
  <2>3. Found(s, filler, m)
    BY <1>1, <1>4, <2>2, SearchFinds
  <2>4. ~ NoneAfter(s, k)
    <3>1. CountUpTo(s, k) # Cardinality(FreeModules[s])
      BY <1>4, <2>1, PlacesCounted
    <3> QED
      BY <2>1, <3>1, CountType
  <2>5. /\ OnItsWay(s, m) /\ At(s, m) \in FreeModules[s] /\ m # Nowhere
        /\ k < Reached(s, m) /\ NoneBetween(s, k, Reached(s, m))
    BY <2>1, <2>3, <2>4 DEF Found
  <2>6. filler' = m /\ loop' = loop /\ frame' = [frame EXCEPT ![At(s, m)] = bit]
    BY <1>2, <2>5
  <2>7. PICK l : l = Reached(s, m) /\ l \in Nat
    BY <2>5, OnItsWayAt
  <2>8. CountUpTo(s, l) = Placed + 1
    <3>1. PICK p \in FreeModules[s] : p = At(s, m) /\ Zigzag(s, p) = l
      BY <2>5, <2>7 DEF Reached
    <3> QED
      BY <1>4, <2>1, <2>5, <2>7, <3>1, CountNext
  <2>9. frame' = [p \in Modules(s) |-> frame'[p]]
    BY <1>4, <2>6
  <2>10. ASSUME NEW p \in Modules(s)
         PROVE  IF p \in FreeModules[s] /\ Zigzag(s, p) <= Reached(s, filler')
                  THEN frame'[p] # FunctionPattern /\ frame'[p] # Free
                  ELSE frame'[p] = Frames[s][p]
    <3>1. frame'[p] = IF p = At(s, m) THEN bit ELSE frame[p]
      BY <1>4, <2>6
    <3>2. Reached(s, filler') = l
      BY <2>6, <2>7
    <3>3. CASE p = At(s, m)
      <4>1. Zigzag(s, p) = l /\ p \in FreeModules[s]
        BY <2>5, <2>7, <3>3 DEF Reached
      <4> QED
        BY <2>7, <3>1, <3>2, <3>3, <4>1 DEF Bits
    <3>4. CASE p # At(s, m)
      <4>1. p \in FreeModules[s] => Zigzag(s, p) # l
        BY <2>5, <2>7, <3>4, FreeInPair, ZigzagOnce DEF Reached
      <4>2. p \in FreeModules[s] => Zigzag(s, p) \in Nat /\ (Zigzag(s, p) <= k \/ Zigzag(s, p) >= l)
        BY <2>5, <2>7, ZigzagType DEF NoneBetween
      <4>3. p \in FreeModules[s] => (Zigzag(s, p) <= l <=> Zigzag(s, p) <= k)
        BY <2>1, <2>5, <2>7, <4>1, <4>2
      <4> QED
        BY <1>4, <2>1, <3>1, <3>2, <3>4, <4>3
    <3> QED
      BY <3>3, <3>4
  <2> QED
    BY <2>5, <2>6, <2>7, <2>8, <2>9, <2>10
<1> QED
  BY <1>3, <1>4 DEF BitsWritten

(* The next bit of the message is the one that is written.                  *)
LEMMA PutBitNext ==
  ASSUME CodeTaken, PutBit
  PROVE  /\ Placed \in Nat /\ Placed < Cardinality(FreeModules[symbol])
         /\ Bits(Bit(code, j)) /\ Put(Bit(code, j)) /\ symbol' = symbol
         /\ Bit(code, j) = Message[symbol][Placed + 1]
         /\ loop' = loop => CodeTaken' /\ Placed' = Placed + 1
<1>1. PICK s, r : s \in Symbols /\ s = symbol /\ r = Raws[s] /\ r = raw
  BY DEF CodeTaken, raw
<1>2. PICK D, E, R, bits, N, odd :
        /\ D = r.dataLength /\ E = r.eccLength /\ R = RemainderBits(s) /\ bits = DataBits(s)
        /\ N = Cardinality(FreeModules[s]) /\ odd = r.oddbits
  OBVIOUS
<1>3. /\ D \in Nat /\ E \in Nat /\ R \in Nat /\ bits \in Nat /\ N \in Nat
      /\ odd \in {0, 4} /\ bits = 8 * D - odd /\ N = bits + 8 * E + R
  BY <1>1, <1>2, Sizes
<1>4. /\ loop \in {"data", "ecc"} /\ i \in Nat /\ i < Loops[loop] /\ j \in 0..(BitsOf - 1)
      /\ code = QRraw_getCode(r, IF loop = "data" THEN i ELSE D + i)
      /\ code # None
  BY <1>1, <1>2 DEF CodeTaken, PutBit
<1>5. Loops["data"] = D /\ Loops["ecc"] = E /\ Loops["remainder"] = R
      /\ DOMAIN Loops = {"data", "ecc", "remainder"}
  BY <1>1, <1>2 DEF Loops
<1>6. BitsOf = IF odd # 0 /\ loop = "data" /\ i = D - 1 THEN odd ELSE 8
  BY <1>1, <1>2 DEF BitsOf
<1>7. PICK B : B = BitsOf /\ B \in {4, 8} /\ j \in 0..(B - 1) /\ j \in 0..7
  BY <1>3, <1>4, <1>6
<1>8. Put(Bit(code, j)) /\ symbol' = symbol /\ count' = count
      /\ IF j + 1 < B THEN j' = j + 1 /\ i' = i /\ code' = code
                      ELSE j' = 0 /\ i' = i + 1 /\ code' = None
  BY <1>7 DEF PutBit, Put
<1>9. CASE loop = "data"
  <2>1. i < D /\ code = QRraw_getCode(r, i)
    BY <1>4, <1>5, <1>9
  <2>2. Placed = 8 * i + j
    BY <1>1, <1>2, <1>3, <1>9, <2>1 DEF Placed
  <2>3. 8 * i + j \in Nat /\ 8 * i + j < bits /\ 8 * i + j < N
    BY <1>3, <1>4, <1>6, <1>7, <1>9, <2>1
  <2>4. Bit(code, j) = Message[s][8 * i + j + 1]
    <3>1. i \in 0..(Raws[s].dataLength - 1)
      BY <1>1, <1>2, <1>3, <1>4, <2>1
    <3> QED
      BY <1>1, <1>2, <1>3, <1>7, <2>1, <2>3, <3>1, DataMessage
  <2>5. Bits(Bit(code, j))
    <3>1. PICK n : code = <<"data", n>>
      <4>1. i \in 0..(Raws[s].dataLength - 1)
        BY <1>1, <1>2, <1>3, <1>4, <2>1
      <4>2. PICK k \in 0..(Raws[s].dataLength - 1) : k = i
        BY <4>1
      <4>3. \E n \in 0..(Raws[s].dataLength - 1) : QRraw_getCode(Raws[s], k) = <<"data", n>>
        BY <1>1, DataCode
      <4> QED
        BY <1>1, <2>1, <4>2, <4>3
    <3> QED
      BY <3>1 DEF Bits, Bit, FunctionPattern, Free
  <2>6. ASSUME loop' = loop PROVE CodeTaken' /\ Placed' = Placed + 1
    <3>1. raw' = r /\ Loops' = Loops
      BY <1>1, <1>8 DEF raw, Loops
    <3>2. (BitsOf)' = IF odd # 0 /\ i' = D - 1 THEN odd ELSE 8
      BY <1>2, <1>9, <2>6, <3>1 DEF BitsOf
    <3>3. count = i + 1 /\ loop' = "data" /\ symbol' \in Symbols
      BY <1>1, <1>4, <1>8, <1>9, <2>6 DEF CodeTaken
    <3>4. Placed' = IF i' = D THEN bits ELSE 8 * i' + j'
      BY <1>1, <1>2, <1>8, <3>1, <3>3 DEF Placed
    <3>5. CASE j + 1 < B
      <4>1. j' = j + 1 /\ i' = i /\ code' = code
        BY <1>8, <3>5
      <4>2. (BitsOf)' = B
        BY <1>6, <1>7, <1>9, <3>2, <4>1
      <4>3. Placed' = Placed + 1
        BY <1>3, <1>4, <1>7, <2>1, <2>2, <3>4, <4>1
      <4>4. code' # None /\ i' < D /\ i' \in Nat /\ j' \in 0..((BitsOf)' - 1)
        BY <1>4, <1>7, <2>1, <3>5, <4>1, <4>2
      <4>5. code' = QRraw_getCode(raw', i')
        BY <2>1, <3>1, <4>1
      <4>6. count' = i' + 1 /\ Loops'["data"] = D /\ i' <= D
        BY <1>3, <1>5, <1>8, <3>1, <3>3, <4>1, <4>4
      <4>7. CodeTaken'
        BY <3>3, <4>4, <4>5, <4>6 DEF CodeTaken, LoopNames
      <4> QED
        BY <4>3, <4>7
    <3>6. CASE ~ (j + 1 < B)
      <4>1. j' = 0 /\ i' = i + 1 /\ code' = None
        BY <1>8, <3>6
      <4>2. j = B - 1
        BY <1>7, <3>6
      <4>3. Placed' = Placed + 1
        BY <1>3, <1>4, <1>6, <1>7, <1>9, <2>1, <2>2, <3>4, <4>1, <4>2
      <4>4. CodeTaken'
        BY <1>3, <1>4, <1>5, <1>8, <2>1, <3>1, <3>3, <4>1 DEF CodeTaken, LoopNames
      <4> QED
        BY <4>3, <4>4
    <3> QED
      BY <3>5, <3>6
  <2> QED
    BY <1>1, <1>2, <1>8, <2>2, <2>3, <2>4, <2>5, <2>6
<1>10. CASE loop = "ecc"
  <2>1. i < E /\ code = QRraw_getCode(r, D + i) /\ B = 8
    BY <1>4, <1>5, <1>6, <1>7, <1>10
  <2>2. Placed = bits + 8 * i + j
    BY <1>1, <1>2, <1>10 DEF Placed
  <2>3. bits + 8 * i + j \in Nat /\ bits + 8 * i + j < N
    BY <1>3, <1>4, <1>7, <2>1
  <2>4. Bit(code, j) = Message[s][bits + 8 * i + j + 1]
    <3>1. i \in 0..(Raws[s].eccLength - 1)
      BY <1>1, <1>2, <1>3, <1>4, <2>1
    <3> QED
      BY <1>1, <1>2, <1>3, <1>7, <2>1, <2>3, <3>1, EccMessage
  <2>5. Bits(Bit(code, j))
    <3>1. PICK n : code = <<"ecc", n>>
      <4>1. i \in 0..(Raws[s].eccLength - 1)
        BY <1>1, <1>2, <1>3, <1>4, <2>1
      <4>2. PICK k \in 0..(Raws[s].eccLength - 1) : k = i
        BY <4>1
      <4>3. \E n \in 0..(Raws[s].eccLength - 1) :
              QRraw_getCode(Raws[s], Raws[s].dataLength + k) = <<"ecc", n>>
        BY <1>1, EccCode
      <4> QED
        BY <1>1, <1>2, <2>1, <4>2, <4>3
    <3> QED
      BY <3>1 DEF Bits, Bit, FunctionPattern, Free
  <2>6. ASSUME loop' = loop PROVE CodeTaken' /\ Placed' = Placed + 1
    <3>1. raw' = r /\ Loops' = Loops
      BY <1>1, <1>8 DEF raw, Loops
    <3>2. loop' = "ecc"
      BY <1>10, <2>6
    <3>3. (BitsOf)' = 8
      BY <3>2 DEF BitsOf
    <3>4. count = D + i + 1 /\ symbol' \in Symbols
      BY <1>1, <1>2, <1>4, <1>8, <1>10 DEF CodeTaken
    <3>5. Placed' = bits + 8 * i' + j'
      BY <1>1, <1>2, <1>8, <3>2 DEF Placed
    <3>6. CASE j + 1 < B
      <4>1. j' = j + 1 /\ i' = i /\ code' = code
        BY <1>8, <3>6
      <4>2. Placed' = Placed + 1
        BY <1>3, <1>4, <1>7, <2>1, <2>2, <3>5, <4>1
      <4>3. code' # None /\ i' < E /\ i' \in Nat /\ j' \in 0..((BitsOf)' - 1)
        BY <1>4, <1>7, <2>1, <3>6, <3>3, <4>1
      <4>4. code' = QRraw_getCode(raw', raw'.dataLength + i')
        BY <1>2, <2>1, <3>1, <4>1
      <4>5. count' = raw'.dataLength + i' + 1 /\ Loops'["ecc"] = E /\ i' <= E
        BY <1>2, <1>3, <1>5, <1>8, <3>1, <3>4, <4>1, <4>3
      <4>6. CodeTaken'
        BY <3>2, <3>4, <4>3, <4>4, <4>5 DEF CodeTaken, LoopNames
      <4> QED
        BY <4>2, <4>6
    <3>7. CASE ~ (j + 1 < B)
      <4>1. j' = 0 /\ i' = i + 1 /\ code' = None
        BY <1>8, <3>7
      <4>2. j = B - 1
        BY <1>7, <3>7
      <4>3. Placed' = Placed + 1
        BY <1>3, <1>4, <2>1, <2>2, <3>5, <4>1, <4>2
      <4>4. CodeTaken'
        BY <1>2, <1>3, <1>4, <1>5, <1>8, <2>1, <3>1, <3>2, <3>4, <4>1 DEF CodeTaken,
           LoopNames
      <4> QED
        BY <4>3, <4>4
    <3> QED
      BY <3>6, <3>7
  <2> QED
    BY <1>1, <1>2, <1>8, <2>2, <2>3, <2>4, <2>5, <2>6
<1> QED
  BY <1>4, <1>9, <1>10

LEMMA PutRemainderNext ==
  ASSUME CodeTaken, PutRemainder
  PROVE  /\ Placed \in Nat /\ Placed < Cardinality(FreeModules[symbol])
         /\ Bits(Remainder) /\ Put(Remainder) /\ symbol' = symbol
         /\ Remainder = Message[symbol][Placed + 1]
         /\ loop' = loop => CodeTaken' /\ Placed' = Placed + 1
<1>1. PICK s, r : s \in Symbols /\ s = symbol /\ r = Raws[s] /\ r = raw
  BY DEF CodeTaken, raw
<1>2. PICK D, E, R, bits, N :
        /\ D = r.dataLength /\ E = r.eccLength /\ R = RemainderBits(s) /\ bits = DataBits(s)
        /\ N = Cardinality(FreeModules[s])
  OBVIOUS
<1>3. /\ D \in Nat /\ E \in Nat /\ R \in Nat /\ bits \in Nat /\ N \in Nat
      /\ N = bits + 8 * E + R
  BY <1>1, <1>2, Sizes
<1>4. Loops["remainder"] = R /\ DOMAIN Loops = {"data", "ecc", "remainder"}
  BY <1>1, <1>2 DEF Loops
<1>5. loop = "remainder" /\ i \in Nat /\ i < R /\ code = None /\ j = 0
  BY <1>4 DEF CodeTaken, PutRemainder
<1>6. Put(Remainder) /\ symbol' = symbol /\ count' = count /\ i' = i + 1 /\ j' = j /\ code' = code
  BY DEF PutRemainder, Put
<1>7. Placed = bits + 8 * E + i
  BY <1>1, <1>2, <1>5 DEF Placed
<1>8. bits + 8 * E + i \in Nat /\ bits + 8 * E + i < N
  BY <1>3, <1>5
<1>9. Message[s][bits + 8 * E + i + 1] = Remainder
  <2>1. PICK n \in 1..N : n = bits + 8 * E + i + 1
    BY <1>3, <1>8
  <2>2. ~ (n <= bits) /\ ~ (n <= bits + 8 * E)
    BY <1>3, <1>5, <2>1
  <2>3. Message[s][n] = Remainder
    BY <1>1, <1>2, <2>1, <2>2 DEF Message
  <2> QED
    BY <2>1, <2>3
<1>10. Bits(Remainder)
  BY DEF Bits, Remainder, FunctionPattern, Free
<1>11. ASSUME loop' = loop PROVE CodeTaken' /\ Placed' = Placed + 1
  <2>1. raw' = r /\ Loops' = Loops
    BY <1>1, <1>6 DEF raw, Loops
  <2>2. Placed' = bits + 8 * E + i'
    BY <1>1, <1>2, <1>5, <1>6, <1>11, <2>1 DEF Placed
  <2>3. Placed' = Placed + 1
    BY <1>3, <1>5, <1>6, <1>7, <2>2
  <2>4. i + 1 \in Nat /\ i + 1 <= R
    BY <1>3, <1>5
  <2>5. CodeTaken'
    BY <1>1, <1>4, <1>5, <1>6, <1>11, <2>1, <2>4 DEF CodeTaken, LoopNames
  <2> QED
    BY <2>3, <2>5
<1> QED
  BY <1>1, <1>2, <1>6, <1>7, <1>8, <1>9, <1>10, <1>11

-----------------------------------------------------------------------------
(* Steps that write no bit.                                                 *)
LEMMA Starts == Init => IInv
<1> SUFFICES ASSUME Init PROVE IInv
  OBVIOUS
<1>1. PICK s, r : s \in Symbols /\ s = symbol /\ r = Raws[s] /\ r = raw
  BY DEF Init, raw
<1>2. /\ r.dataLength \in Nat /\ DataBits(s) = 8 * r.dataLength - r.oddbits
      /\ r.oddbits \in {0, 4} /\ (r.oddbits # 0 => r.dataLength > 0)
  BY <1>1, Sizes
<1>3. loop = "data" /\ i = 0 /\ j = 0 /\ code = None /\ count = 0
  BY DEF Init
<1>4. Loops["data"] = r.dataLength
  BY <1>1 DEF Loops
<1>5. CodeTaken
  BY <1>1, <1>2, <1>3, <1>4 DEF CodeTaken, LoopNames
<1>6. Placed = 0
  BY <1>1, <1>2, <1>3 DEF Placed
<1>7. BitsWritten
  BY <1>6 DEF Init, BitsWritten
<1> QED
  BY <1>5, <1>7 DEF IInv

LEMMA SamePlaced ==
  ASSUME BitsWritten, symbol' = symbol, filler' = filler, frame' = frame, Placed' = Placed
  PROVE  BitsWritten'
BY DEF BitsWritten, Reached, At, OnItsWay

LEMMA GetCodeKeeps ==
  ASSUME IInv, GetCode
  PROVE  IInv' /\ symbol' = symbol /\ frame' = frame /\ Placed' = Placed
<1>1. PICK s, r : s \in Symbols /\ s = symbol /\ r = Raws[s] /\ r = raw
  BY DEF IInv, CodeTaken, raw
<1>2. r.dataLength \in Nat /\ r.eccLength \in Nat /\ r.oddbits \in {0, 4}
  BY <1>1, Sizes
<1>3. Loops["data"] = r.dataLength /\ Loops["ecc"] = r.eccLength
  BY <1>1 DEF Loops
<1>4. /\ loop \in {"data", "ecc"} /\ i < Loops[loop] /\ i \in Nat /\ code = None /\ j = 0
      /\ count = IF loop = "data" THEN i ELSE r.dataLength + i
  BY <1>1, <1>2 DEF IInv, CodeTaken, GetCode
<1>5. symbol' = symbol /\ filler' = filler /\ frame' = frame /\ loop' = loop /\ i' = i /\ j' = j
      /\ code' = QRraw_getCode(raw, count)
      /\ count' = IF count < raw.dataLength + raw.eccLength THEN count + 1 ELSE count
  BY DEF GetCode
<1>6. raw' = raw /\ Loops' = Loops
  BY <1>5 DEF raw, Loops
<1>7. Placed' = Placed
  BY <1>5, <1>6 DEF Placed
<1>8. BitsWritten'
  BY <1>5, <1>7, SamePlaced DEF IInv
<1>9. (BitsOf)' = BitsOf /\ j \in 0..(BitsOf - 1)
  BY <1>1, <1>2, <1>4, <1>5, <1>6 DEF BitsOf
<1>10. code' # None
  <2>1. CASE loop = "data"
    <3>1. PICK k \in 0..(Raws[s].dataLength - 1) : k = count
      BY <1>1, <1>2, <1>3, <1>4, <2>1
    <3>2. \E n \in 0..(Raws[s].dataLength - 1) : QRraw_getCode(Raws[s], k) = <<"data", n>>
      BY <1>1, DataCode
    <3> QED
      BY <1>1, <1>5, <3>1, <3>2 DEF None
  <2>2. CASE loop = "ecc"
    <3>1. PICK k \in 0..(Raws[s].eccLength - 1) : k = i
      BY <1>1, <1>2, <1>3, <1>4, <2>2
    <3>2. \E n \in 0..(Raws[s].eccLength - 1) :
            QRraw_getCode(Raws[s], Raws[s].dataLength + k) = <<"ecc", n>>
      BY <1>1, EccCode
    <3>3. count = Raws[s].dataLength + k
      BY <1>1, <1>4, <2>2, <3>1
    <3>4. PICK n : code' = <<"ecc", n>>
      <4>1. code' = QRraw_getCode(Raws[s], Raws[s].dataLength + k)
        BY <1>1, <1>5, <3>3
      <4> QED
        BY <3>2, <4>1
    <3> QED
      BY <3>4 DEF None
  <2> QED
    BY <1>4, <2>1, <2>2
<1>11. count' = count + 1
  BY <1>1, <1>2, <1>3, <1>4, <1>5
<1>12. CodeTaken'
  <2>1. i' <= Loops'[loop'] /\ i' < Loops'[loop'] /\ i' \in Nat
    BY <1>2, <1>3, <1>4, <1>5, <1>6
  <2>2. j' \in 0..((BitsOf)' - 1)
    BY <1>5, <1>9
  <2>3. code' = QRraw_getCode(raw', IF loop' = "data" THEN i' ELSE raw'.dataLength + i')
    BY <1>1, <1>4, <1>5, <1>6
  <2>4. loop' \in {"data", "ecc"} /\ symbol' \in Symbols
    BY <1>1, <1>4, <1>5
  <2>5. loop' = "data" => count' = i' + 1
    BY <1>4, <1>5, <1>11
  <2>6. loop' = "ecc" => count' = raw'.dataLength + i' + 1
    BY <1>1, <1>4, <1>5, <1>6, <1>11
  <2> QED
    BY <1>10, <2>1, <2>2, <2>3, <2>4, <2>5, <2>6 DEF CodeTaken, LoopNames
<1> QED
  BY <1>5, <1>7, <1>8, <1>12 DEF IInv

LEMMA EndLoopKeeps ==
  ASSUME IInv, EndLoop
  PROVE  IInv' /\ symbol' = symbol /\ frame' = frame /\ Placed' = Placed
<1>1. PICK s, r : s \in Symbols /\ s = symbol /\ r = Raws[s] /\ r = raw
  BY DEF IInv, CodeTaken, raw
<1>2. PICK D, E, R, bits, N :
        /\ D = r.dataLength /\ E = r.eccLength /\ R = RemainderBits(s) /\ bits = DataBits(s)
        /\ N = Cardinality(FreeModules[s])
  OBVIOUS
<1>3. /\ D \in Nat /\ E \in Nat /\ R \in Nat /\ bits \in Nat
      /\ N = bits + 8 * E + R
  BY <1>1, <1>2, Sizes
<1>4. /\ Loops["data"] = D /\ Loops["ecc"] = E /\ Loops["remainder"] = R
      /\ DOMAIN Loops = {"data", "ecc", "remainder"}
  BY <1>1, <1>2 DEF Loops
<1>5. /\ loop \in {"data", "ecc", "remainder"} /\ i = Loops[loop] /\ code = None /\ j = 0
      /\ (loop = "data" => count = D + 0)
  BY <1>1, <1>2, <1>3, <1>4 DEF IInv, CodeTaken, EndLoop
<1>6. symbol' = symbol /\ filler' = filler /\ frame' = frame /\ i' = 0 /\ j' = j /\ code' = code
      /\ count' = count
      /\ loop' = [data |-> "ecc", ecc |-> "remainder", remainder |-> "placed"][loop]
  BY DEF EndLoop
<1>7. raw' = raw /\ Loops' = Loops
  BY <1>6 DEF raw, Loops
<1>8. CASE loop = "data"
  <2>1. loop' = "ecc"
    BY <1>6, <1>8
  <2>2. Placed = bits /\ Placed' = bits + 8 * i' + j'
    BY <1>1, <1>2, <1>4, <1>5, <1>6, <1>7, <1>8, <2>1 DEF Placed
  <2>3. Placed' = Placed
    BY <1>3, <1>5, <1>6, <2>2
  <2>4. CodeTaken'
    BY <1>1, <1>2, <1>3, <1>4, <1>5, <1>6, <1>7, <1>8, <2>1 DEF CodeTaken, LoopNames
  <2> QED
    BY <1>6, <2>3, <2>4, SamePlaced DEF IInv
<1>9. CASE loop = "ecc"
  <2>1. loop' = "remainder"
    BY <1>6, <1>9
  <2>2. Placed = bits + 8 * E + 0 /\ Placed' = bits + 8 * E + 0
    BY <1>1, <1>2, <1>4, <1>5, <1>6, <1>7, <1>9, <2>1 DEF Placed
  <2>3. CodeTaken'
    BY <1>1, <1>2, <1>3, <1>4, <1>5, <1>6, <1>7, <2>1 DEF CodeTaken, LoopNames
  <2> QED
    BY <1>6, <2>2, <2>3, SamePlaced DEF IInv
<1>10. CASE loop = "remainder"
  <2>1. loop' = "placed"
    BY <1>6, <1>10
  <2>2. Placed = bits + 8 * E + R /\ Placed' = N
    BY <1>1, <1>2, <1>4, <1>5, <1>6, <1>7, <1>10, <2>1 DEF Placed
  <2>3. CodeTaken'
    BY <1>1, <1>2, <1>3, <1>4, <1>5, <1>6, <1>7, <2>1 DEF CodeTaken, LoopNames
  <2> QED
    BY <1>3, <1>6, <2>2, <2>3, SamePlaced DEF IInv
<1> QED
  BY <1>5, <1>8, <1>9, <1>10

(* A step that writes a bit is one of the layout's.                         *)
LEMMA PutLays ==
  ASSUME IInv, PutBit \/ PutRemainder
  PROVE  IInv' /\ Layout!PutBit
<1>1. PICK s : s = symbol /\ s \in Symbols
  BY DEF IInv, CodeTaken
<1>2. PICK bit : /\ Bits(bit) /\ Put(bit) /\ bit = Message[s][Placed + 1] /\ symbol' = symbol
                 /\ Placed \in Nat /\ Placed < Cardinality(FreeModules[s])
                 /\ (loop' = loop => CodeTaken' /\ Placed' = Placed + 1)
  <2>1. CASE PutBit
    BY <1>1, <2>1, PutBitNext DEF IInv
  <2>2. CASE PutRemainder
    BY <1>1, <2>2, PutRemainderNext DEF IInv
  <2> QED
    BY <2>1, <2>2
<1>3. /\ OnItsWay(s, filler') /\ At(s, filler') \in FreeModules[s]
      /\ frame' = [frame EXCEPT ![At(s, filler')] = bit]
      /\ frame' = [p \in Modules(s) |-> frame'[p]]
      /\ \A p \in Modules(s) :
           IF p \in FreeModules[s] /\ Zigzag(s, p) <= Reached(s, filler')
             THEN frame'[p] # FunctionPattern /\ frame'[p] # Free
             ELSE frame'[p] = Frames[s][p]
      /\ CountUpTo(s, Reached(s, filler')) = Placed + 1
      /\ loop' = loop
  BY <1>1, <1>2, PutWrites DEF IInv
<1>4. CodeTaken' /\ Placed' = Placed + 1
  BY <1>2, <1>3
<1>5. BitsWritten'
  <2>1. symbol' = s
    BY <1>1, <1>2
  <2> QED
    BY <1>3, <1>4, <2>1 DEF BitsWritten, Reached, At
<1>6. Layout!PutBit
  <2>1. PICK p : p = At(s, filler') /\ p \in Modules(s) /\ p \in FreeModules[s]
    BY <1>1, <1>3, FrameModules
  <2>2. OrderOf[s][p] = Placed + 1
    BY <1>1, <1>3, <2>1, OrderCounts DEF Reached
  <2>3. Frames[s][p] = Free
    <3>1. FreeModules[s] = {q \in Modules(s) : Frames[s][q] = Free}
      BY <1>1, FrameModules
    <3> QED
      BY <2>1, <3>1
  <2>4. p \in DOMAIN frame
    <3>1. DOMAIN frame' = DOMAIN frame /\ DOMAIN frame' = Modules(s)
      BY <1>3
    <3> QED
      BY <2>1, <3>1
  <2> QED
    BY <1>1, <1>2, <1>3, <1>4, <2>1, <2>2, <2>3, <2>4 DEF Layout!PutBit
<1> QED
  BY <1>4, <1>5, <1>6 DEF IInv

LEMMA Steps ==
  ASSUME IInv, [Next]_vars
  PROVE  IInv' /\ [Layout!PutBit]_<<symbol, frame, Placed>>
<1>1. CASE GetCode
  BY <1>1, GetCodeKeeps
<1>2. CASE PutBit
  BY <1>2, PutLays
<1>3. CASE PutRemainder
  BY <1>3, PutLays
<1>4. CASE EndLoop
  BY <1>4, EndLoopKeeps
<1>5. CASE UNCHANGED vars
  <2>1. symbol' = symbol /\ frame' = frame /\ filler' = filler /\ loop' = loop /\ i' = i /\ j' = j
        /\ code' = code /\ count' = count
    BY <1>5 DEF vars
  <2>2. raw' = raw /\ Loops' = Loops
    BY <2>1 DEF raw, Loops
  <2>3. Placed' = Placed /\ (BitsOf)' = BitsOf
    BY <2>1, <2>2 DEF Placed, BitsOf
  <2>4. CodeTaken'
    BY <2>1, <2>2, <2>3 DEF IInv, CodeTaken
  <2>5. BitsWritten'
    BY <2>1, <2>3, SamePlaced DEF IInv
  <2> QED
    BY <2>1, <2>3, <2>4, <2>5 DEF IInv
<1> QED
  BY <1>1, <1>2, <1>3, <1>4, <1>5 DEF Next

-----------------------------------------------------------------------------
(* What qrencode.c does, as theorems.                                       *)
LEMMA Invariant == Spec => []IInv
<1>1. IInv /\ [Next]_vars => IInv'
  BY Steps
<1> QED
  BY Starts, <1>1, PTL DEF Spec

(* QRraw_getCode and MQRraw_getCode (qrencode.c:157 and :248) never index a *)
(* byte past the data or the error correction of their blocks, and the      *)
(* frame filler never stands outside the frame.                             *)
THEOREM ReadsInBuffers == Spec => []CodesInBuffers
<1>1. IInv => CodesInBuffers
  <2> SUFFICES ASSUME IInv PROVE CodesInBuffers
    OBVIOUS
  <2>1. PICK s, w : s = symbol /\ s \in Symbols /\ w = Width(s) /\ w \in Nat /\ w >= 11
    BY Widths DEF IInv, CodeTaken
  <2>2. filler.x \in 0..(w - 1) /\ filler.y \in 0..(w - 1)
    <3>1. CASE filler = FrameFiller_set(symbol)
      BY <2>1, <3>1 DEF FrameFiller_set
    <3>2. CASE OnItsWay(symbol, filler)
      BY <2>1, <3>2 DEF OnItsWay
    <3> QED
      BY <3>1, <3>2 DEF IInv, BitsWritten
  <2>3. raw = Raws[s] /\ Raws[s].dataLength \in Nat /\ Raws[s].eccLength \in Nat
    BY <2>1, Sizes DEF raw
  <2>4. CASE code = None
    BY <2>1, <2>2, <2>4 DEF CodesInBuffers, None
  <2>5. CASE code # None /\ loop = "data"
    <3>1. i \in 0..(Raws[s].dataLength - 1) /\ code = QRraw_getCode(Raws[s], i)
      BY <2>1, <2>3, <2>5 DEF IInv, CodeTaken, Loops
    <3>2. PICK k \in 0..(Raws[s].dataLength - 1) : k = i
      BY <3>1
    <3>3. PICK n \in 0..(Raws[s].dataLength - 1) : QRraw_getCode(Raws[s], k) = <<"data", n>>
      BY <2>1, DataCode
    <3>4. code[1] = "data" /\ code[2] = n /\ n < raw.dataLength
      BY <2>3, <3>1, <3>2, <3>3
    <3> QED
      BY <2>1, <2>2, <3>4 DEF CodesInBuffers
  <2>6. CASE code # None /\ loop = "ecc"
    <3>1. i \in 0..(Raws[s].eccLength - 1) /\ code = QRraw_getCode(Raws[s], Raws[s].dataLength + i)
      BY <2>1, <2>3, <2>6 DEF IInv, CodeTaken, Loops
    <3>2. PICK k \in 0..(Raws[s].eccLength - 1) : k = i
      BY <3>1
    <3>3. PICK n \in 0..(Raws[s].eccLength - 1) :
            QRraw_getCode(Raws[s], Raws[s].dataLength + k) = <<"ecc", n>>
      BY <2>1, EccCode
    <3>4. code[1] = "ecc" /\ code[2] = n /\ n < raw.eccLength
      BY <2>3, <3>1, <3>2, <3>3
    <3> QED
      BY <2>1, <2>2, <3>4 DEF CodesInBuffers
  <2> QED
    BY <2>4, <2>5, <2>6 DEF IInv, CodeTaken
<1> QED
  BY Invariant, <1>1, PTL

(* FrameFiller_next does not return NULL to QRcode_encodeMask while there   *)
(* are bits to write, and once they are written no module is left free.     *)
THEOREM FillsFrame == Spec => []FrameFilled
<1>1. IInv => FrameFilled
  <2> SUFFICES ASSUME IInv, loop \in {"placed", "overrun"}
               PROVE  loop = "placed" /\ \A p \in DOMAIN frame : frame[p] # Free
    BY DEF FrameFilled
  <2>1. loop = "placed"
    BY DEF IInv, CodeTaken, LoopNames
  <2>2. PICK s : s = symbol /\ s \in Symbols
    BY DEF IInv, CodeTaken
  <2>3. Placed = Cardinality(FreeModules[s])
    BY <2>1, <2>2 DEF Placed
  <2>4. Placed # 0
    <3>1. CountUpTo(s, 0) = 1 /\ CountUpTo(s, 0) <= Cardinality(FreeModules[s])
      BY <2>2, CornerFirst, CountType
    <3> QED
      BY <2>3, <3>1
  <2>5. /\ OnItsWay(s, filler) /\ frame = [p \in Modules(s) |-> frame[p]]
        /\ \A p \in Modules(s) :
             IF p \in FreeModules[s] /\ Zigzag(s, p) <= Reached(s, filler)
               THEN frame[p] # FunctionPattern /\ frame[p] # Free
               ELSE frame[p] = Frames[s][p]
        /\ Placed = CountUpTo(s, Reached(s, filler))
    BY <2>2, <2>4 DEF IInv, BitsWritten
  <2>6. NoneAfter(s, Reached(s, filler))
    BY <2>2, <2>3, <2>5, OnItsWayAt, CountType
  <2>7. ASSUME NEW p \in Modules(s) PROVE frame[p] # Free
    <3>1. CASE p \in FreeModules[s]
      BY <2>5, <2>6, <3>1 DEF NoneAfter
    <3>2. CASE p \notin FreeModules[s]
      BY <2>2, <2>5, <3>2, FrameModules
    <3> QED
      BY <3>1, <3>2
  <2> QED
    BY <2>1, <2>5, <2>7
<1> QED
  BY Invariant, <1>1, PTL

(* QRcode_encodeMask implements the layout of the standard: each step that  *)
(* writes a module writes the next bit of the message in the next of the    *)
(* free modules, and each other step changes neither frame nor count.       *)
THEOREM LaysMessage == Spec => LayoutSpec
<1>1. Init => Layout!Init
  <2> SUFFICES ASSUME Init PROVE Layout!Init
    OBVIOUS
  <2>1. IInv
    BY Starts
  <2>2. Placed = 0
    <3>1. ~ OnItsWay(symbol, filler)
      BY DEF Init, FrameFiller_set, OnItsWay
    <3> QED
      BY <2>1, <3>1 DEF IInv, BitsWritten
  <2> QED
    BY <2>2 DEF Init, Layout!Init
<1>2. IInv /\ [Next]_vars => [Layout!PutBit]_<<symbol, frame, Placed>>
  BY Steps
<1> QED
  BY Invariant, <1>1, <1>2, PTL DEF Spec, LayoutSpec, Layout!Spec
-----------------------------------------------------------------------------
(* What the placement is for: no bit of a codeword is without a module, and the*)
(* blocks cover the buffers.                                                *)

(* In the standard's order there is a free module for every number up to    *)
(* that of all.                                                             *)
LEMMA EveryTurn ==
  ASSUME NEW s \in Symbols, NEW n \in 1..Cardinality(FreeModules[s])
  PROVE  \E p \in FreeModules[s] : OrderOf[s][p] = n
<1>1. PICK C \in Nat : C = Cardinality(FreeModules[s])
  BY PlacesCounted
<1> DEFINE T(k) == \E p \in FreeModules[s] : OrderOf[s][p] = k
           Missed == {k \in 1..C : ~ T(k)}
<1>2. \A p \in FreeModules[s] : Zigzag(s, p) \in Nat /\ OrderOf[s][p] = CountUpTo(s, Zigzag(s, p))
  BY FrameModules, OrderCounts, ZigzagType
<1>3. T(1)
  <2>1. PICK p : p = At(s, Corner(s)) /\ p \in FreeModules[s] /\ Zigzag(s, p) <= 0
    BY CornerFirst
  <2>2. Zigzag(s, p) = 0
    BY <1>2, <2>1
  <2>3. CountUpTo(s, 0) = 1
    BY CornerFirst
  <2> QED
    BY <1>2, <2>1, <2>2, <2>3
<1>4. ASSUME NEW k \in 1..C, k + 1 \in 1..C, T(k) PROVE T(k + 1)
  <2>1. PICK p \in FreeModules[s], z \in Nat : OrderOf[s][p] = k /\ z = Zigzag(s, p)
    BY <1>2, <1>4
  <2>2. CountUpTo(s, z) = k
    BY <1>2, <2>1
  <2>3. k # C
    BY <1>4
  <2>4. ~ NoneAfter(s, z)
    BY <1>1, <2>2, <2>3, CountType
  <2> DEFINE Later == {Zigzag(s, q) : q \in {r \in FreeModules[s] : Zigzag(s, r) > z}}
  <2>5. Later # {} /\ Later \subseteq Nat
    BY <1>2, <2>4 DEF NoneAfter
  <2>6. PICK l \in Later : \A v \in Later : l <= v
    BY <2>5, LeastElement
  <2>7. PICK q \in FreeModules[s] : l = Zigzag(s, q) /\ Zigzag(s, q) > z
    BY <2>6
  <2>8. NoneBetween(s, z, Zigzag(s, q))
    <3>1. ASSUME NEW r \in FreeModules[s], Zigzag(s, r) > z PROVE Zigzag(s, r) >= Zigzag(s, q)
      <4>1. Zigzag(s, r) \in Later
        BY <3>1
      <4>2. l <= Zigzag(s, r)
        BY <2>6, <4>1
      <4> QED
        BY <2>7, <4>2
    <3> QED
      BY <1>2, <2>1, <3>1 DEF NoneBetween
  <2>9. CountUpTo(s, Zigzag(s, q)) = CountUpTo(s, z) + 1
    BY <1>2, <2>1, <2>7, <2>8, CountNext
  <2> QED
    BY <1>2, <2>2, <2>9
<1> HIDE DEF T
<1>5. Missed = {}
  <2>1. SUFFICES ASSUME Missed # {} PROVE FALSE
    OBVIOUS
  <2>2. Missed \subseteq Nat
    BY <1>1
  <2>3. PICK m \in Missed : \A v \in Missed : m <= v
    BY <2>1, <2>2, LeastElement
  <2>4. m # 1
    BY <1>3, <2>3
  <2>5. m - 1 \in 1..C /\ (m - 1) + 1 \in 1..C /\ (m - 1) + 1 = m
    BY <1>1, <2>3, <2>4
  <2>6. T(m - 1)
    BY <2>3, <2>5
  <2>7. T((m - 1) + 1)
    BY <1>4, <2>5, <2>6
  <2> QED
    BY <2>3, <2>5, <2>7
<1> QED
  BY <1>1, <1>5 DEF T

(* Every codeword is taken at some time.                                    *)
LEMMA DataReached ==
  ASSUME NEW r, NEW b, NEW d, NEW f, NEW e, IsRaw(r, b, d, f, e),
         NEW n \in 0..(r.dataLength - 1)
  PROVE  \E k \in 0..(r.dataLength - 1) : QRraw_getCode(r, k) = <<"data", n>>
<1>1. IsGrid(b, d, f) /\ r.dataLength = GridSize(b, d, f)
  BY DEF IsRaw
<1>2. b \in Nat /\ d \in Nat /\ f \in 1..b /\ r.dataLength = b * d + (b - f) /\ n \in Nat /\ n < b * d + (b - f)
  BY <1>1 DEF IsGrid, GridSize
<1>3. \A y \in 1..b : r.rsblock[y].data = (y - 1) * d + (IF y <= f THEN 0 ELSE y - 1 - f)
  BY DEF IsRaw
<1>4. PICK g \in Nat : b = f + g
  <2>1. b - f \in Nat /\ b = f + (b - f)
    BY <1>2
  <2> QED
    BY <2>1
<1>5. PICK m \in Nat, h \in Nat, t \in Nat : m = f * d /\ h = g * (d + 1) /\ t = b * d + (b - f) /\ t = m + h
  <2>1. (f + g) * d + g = f * d + g * (d + 1) /\ f * d \in Nat /\ g * (d + 1) \in Nat
    BY <1>2
  <2>2. b - f = g
    BY <1>2, <1>4
  <2> QED
    BY <1>4, <2>1, <2>2
<1>6. \E x, y : <<x, y>> \in Grid(b, d, f) /\ r.rsblock[y].data + x - 1 = n
  <2>1. CASE n < m
    <3>1. d > 0
      BY <1>2, <1>5, <2>1
    <3>2. PICK q \in Nat, v \in 0..d - 1 : n = d * q + v
      <4>1. n \div d \in Nat /\ n % d \in 0..d - 1 /\ n = d * (n \div d) + (n % d)
        BY <1>2, <3>1, Divided
      <4> QED
        BY <4>1
    <3>3. q < f
      <4>1. f < q => d * f + d <= d * q /\ d * f \in Nat /\ d * q \in Nat
        BY <1>2, Products
      <4>2. d * f = m /\ (f = q => d * q = m) /\ d * q \in Nat
        BY <1>2, <1>5
      <4> QED
        BY <1>2, <2>1, <3>2, <4>1, <4>2
    <3>4. q + 1 \in 1..b /\ q + 1 <= f /\ v + 1 \in 1..(d + 1) /\ v + 1 <= d /\ (q + 1) - 1 = q
      BY <1>2, <3>2, <3>3
    <3>5. r.rsblock[q + 1].data = q * d + 0
      BY <1>3, <3>4
    <3>6. r.rsblock[q + 1].data + (v + 1) - 1 = n
      BY <1>2, <3>2, <3>5
    <3>7. <<v + 1, q + 1>> \in Grid(b, d, f)
      BY <3>4 DEF Grid
    <3> QED
      BY <3>6, <3>7
  <2>2. CASE ~ (n < m)
    <3>1. PICK o \in Nat : o = n - m /\ n = m + o /\ o < h
      <4>1. n - m \in Nat /\ n = m + (n - m) /\ n - m < h
        BY <1>2, <1>5, <2>2
      <4> QED
        BY <4>1
    <3>2. PICK w \in Nat : w = d + 1 /\ w > 0
      BY <1>2
    <3>3. PICK q \in Nat, v \in 0..w - 1 : o = w * q + v
      <4>1. o \div w \in Nat /\ o % w \in 0..w - 1 /\ o = w * (o \div w) + (o % w)
        BY <3>2, Divided
      <4> QED
        BY <4>1
    <3>4. q < g
      <4>1. g < q => w * g + w <= w * q /\ w * g \in Nat /\ w * q \in Nat
        BY <3>2, Products
      <4>2. w * g = h /\ (g = q => w * q = h) /\ w * q \in Nat
        BY <1>5, <3>2
      <4> QED
        BY <1>5, <3>1, <3>3, <4>1, <4>2
    <3>5. PICK y \in 1..b : ~ (y <= f) /\ y > f /\ y - 1 = f + q /\ y - 1 - f = q
      <4>1. PICK y \in Nat : y = f + q + 1
        BY <1>2
      <4>2. y \in 1..b /\ ~ (y <= f) /\ y > f /\ y - 1 = f + q /\ y - 1 - f = q
        BY <1>2, <1>4, <3>4, <4>1
      <4> QED
        BY <4>2
    <3>6. v + 1 \in 1..(d + 1)
      BY <3>2, <3>3
    <3>7. r.rsblock[y].data = (f + q) * d + q
      BY <1>3, <3>5
    <3>8. (f + q) * d + q = m + w * q
      <4>1. (f + q) * d + q = f * d + (d + 1) * q
        BY <1>2
      <4> QED
        BY <1>5, <3>2, <4>1
    <3>9. w * q \in Nat
      BY <3>2
    <3>10. r.rsblock[y].data + (v + 1) - 1 = n
      BY <3>1, <3>3, <3>7, <3>8, <3>9
    <3>11. <<v + 1, y>> \in Grid(b, d, f)
      BY <3>5, <3>6 DEF Grid
    <3> QED
      BY <3>10, <3>11
  <2> QED
    BY <2>1, <2>2
<1>7. PICK x, y : <<x, y>> \in Grid(b, d, f) /\ r.rsblock[y].data + x - 1 = n
  BY <1>6
<1>8. PICK k \in 0..(GridSize(b, d, f) - 1) : GridAt(b, d, f, k) = <<x, y>>
  BY <1>1, <1>7, GridFilled
<1>9. k \in 0..(r.dataLength - 1)
  BY <1>1
<1>10. PICK u \in Nat, v \in Nat :
         <<u, v>> = GridAt(b, d, f, k) /\ QRraw_getCode(r, k) = <<"data", r.rsblock[v].data + u - 1>>
  <2>1. \E u \in Nat, v \in Nat :
          /\ <<u, v>> = GridAt(b, d, f, k) /\ <<u, v>> \in Grid(b, d, f)
          /\ QRraw_getCode(r, k) = <<"data", r.rsblock[v].data + u - 1>>
    BY <1>9, DataTaken
  <2> QED
    BY <2>1
<1>11. u = x /\ v = y
  BY <1>8, <1>10
<1> QED
  BY <1>7, <1>9, <1>10, <1>11

LEMMA EccReached ==
  ASSUME NEW r, NEW b, NEW d, NEW f, NEW e, IsRaw(r, b, d, f, e),
         NEW n \in 0..(r.eccLength - 1)
  PROVE  \E k \in 0..(r.eccLength - 1) : QRraw_getCode(r, r.dataLength + k) = <<"ecc", n>>
<1>1. /\ b \in Nat /\ b > 0 /\ e \in Nat /\ r.eccLength = b * e /\ b * e \in Nat /\ n \in Nat /\ n < b * e
      /\ \A y \in 1..b : r.rsblock[y].ecc = (y - 1) * e
  BY DEF IsRaw, IsGrid
<1>2. e > 0
  BY <1>1
<1>3. PICK q \in Nat, v \in 0..e - 1 : n = e * q + v
  <2>1. n \div e \in Nat /\ n % e \in 0..e - 1 /\ n = e * (n \div e) + (n % e)
    BY <1>1, <1>2, Divided
  <2> QED
    BY <2>1
<1>4. q < b
  <2>1. b < q => e * b + e <= e * q /\ e * b \in Nat /\ e * q \in Nat
    BY <1>1, Products
  <2>2. e * b = b * e /\ (b = q => e * q = b * e) /\ e * q \in Nat
    BY <1>1
  <2> QED
    BY <1>1, <1>3, <2>1, <2>2
<1>5. PICK y \in 1..b, x \in 1..e : y = q + 1 /\ x = v + 1 /\ y - 1 = q
  <2>1. q + 1 \in 1..b /\ v + 1 \in 1..e /\ q + 1 - 1 = q
    BY <1>1, <1>2, <1>3, <1>4
  <2> QED
    BY <2>1
<1>6. r.rsblock[y].ecc + x - 1 = n
  <2>1. r.rsblock[y].ecc = q * e
    BY <1>1, <1>5
  <2>2. q * e = e * q /\ q * e \in Nat
    BY <1>1
  <2> QED
    BY <1>3, <1>5, <2>1, <2>2
<1>7. IsGrid(b, e, b) /\ GridSize(b, e, b) = b * e
  BY <1>1 DEF IsGrid, GridSize
<1>8. PICK c : c = <<x, y>> /\ c \in Grid(b, e, b)
  <2>1. <<x, y>> \in Grid(b, e, b)
    BY <1>1, <1>5 DEF Grid
  <2> QED
    BY <2>1
<1>9. PICK g : g = b /\ IsGrid(b, e, g) /\ c \in Grid(b, e, g)
  BY <1>7, <1>8
<1>10. PICK k \in 0..(GridSize(b, e, g) - 1) : GridAt(b, e, g, k) = c
  BY <1>9, GridFilled
<1>11. k \in 0..(r.eccLength - 1)
  BY <1>1, <1>7, <1>9, <1>10
<1>12. PICK u \in 1..e, z \in 1..b :
         <<u, z>> = GridAt(b, e, b, k) /\ QRraw_getCode(r, r.dataLength + k) = <<"ecc", r.rsblock[z].ecc + u - 1>>
  BY <1>11, EccTaken
<1>13. u = x /\ z = y
  BY <1>8, <1>9, <1>10, <1>12
<1> QED
  BY <1>6, <1>11, <1>12, <1>13

(* Each block has 2 to 30 bytes of error correction.                        *)
LEMMA QREccTable ==
  ASSUME NEW v \in 1..40, NEW l \in 0..3
  PROVE  (capacity[v][4][l + 1] \div (eccTable[v][l + 1][1] + eccTable[v][l + 1][2])) \in 2..30
<1>1. PICK c, b : c = capacity[v][4][l + 1] /\ b = eccTable[v][l + 1][1] + eccTable[v][l + 1][2]
  OBVIOUS
<1>2. c \in Nat /\ b \in Nat /\ b > 0
  <2>1. /\ eccTable[v][l + 1][1] \in Nat /\ eccTable[v][l + 1][1] > 0
        /\ eccTable[v][l + 1][2] \in Nat /\ capacity[v][4][l + 1] \in Nat
    BY QRTables
  <2> QED
    BY <1>1, <2>1
<1>3. 2 * b <= c /\ c <= 30 * b
  <2>1. 2 * (eccTable[v][l + 1][1] + eccTable[v][l + 1][2]) <= capacity[v][4][l + 1]
        /\ capacity[v][4][l + 1] <= 30 * (eccTable[v][l + 1][1] + eccTable[v][l + 1][2])
    BY SMTT(200) DEF capacity, eccTable
  <2> QED
    BY <1>1, <2>1
<1>4. PICK q \in Nat, m \in 0..b - 1 : q = c \div b /\ c = b * q + m
  <2>1. c \div b \in Nat /\ c % b \in 0..b - 1 /\ c = b * (c \div b) + (c % b)
    BY <1>2, Divided
  <2> QED
    BY <2>1
<1>5. ~ (q < 2) /\ ~ (30 < q)
  <2>1. q < 2 => b * q \in Nat /\ b * q + b <= b * 2
    BY <1>2, Products
  <2>2. 30 < q => b * q \in Nat /\ b * 30 + b <= b * q
    BY <1>2, Products
  <2> QED
    BY <1>2, <1>3, <1>4, <2>1, <2>2
<1>6. q \in 2..30
  BY <1>5
<1> QED
  BY <1>1, <1>4, <1>6

LEMMA MQREccTable ==
  ASSUME NEW v \in 1..4, NEW l \in 0..3, MQRspec_getECCLength(v, l) > 0
  PROVE  MQRspec_getECCLength(v, l) \in 2..30
BY DEF MQRspec_getECCLength, mqrspecCapacity, MQRspec_getWidth

LEMMA BlocksLie ==
  ASSUME NEW s \in Symbols
  PROVE  BlocksInBuffers(s)
<1>1. PICK r, b, d, f, e : r = Raws[s] /\ IsRaw(r, b, d, f, e)
  BY RawIsRaw
<1>2. /\ b \in Nat /\ b > 0 /\ d \in Nat /\ f \in 1..b /\ e \in Nat
      /\ r.dataLength = b * d + (b - f) /\ b * d \in Nat /\ r.eccLength = b * e /\ r.blocks = b
  BY <1>1 DEF IsRaw, IsGrid, GridSize
<1>3. r.eccLength \div r.blocks = e /\ r.eccLength = e * r.blocks
  <2>1. 0 \in 0..b - 1
    BY <1>2
  <2>2. (b * e + 0) \div b = e
    BY <1>2, <2>1, DividedUniquely
  <2>3. b * e + 0 = b * e /\ b * e = e * b
    BY <1>2
  <2> QED
    BY <1>2, <2>2, <2>3
<1>4. e \in 2..30 /\ r.dataLength = IF s.mqr THEN MQRspec_getDataLength(s.version, s.level)
                                   ELSE QRspec_getDataLength(s.version, s.level)
  <2>1. CASE s.mqr
    <3>1. PICK v \in 1..4, l \in 0..3 : v = s.version /\ l = s.level /\ MQRspec_getECCLength(v, l) > 0
      BY <2>1, SymbolsAssumption DEF MQRSPEC_VERSION_MAX
    <3>2. Raws[s] = MQRraw_new(s)
      BY <2>1 DEF Raws
    <3>3. Raws[s].eccLength = MQRspec_getECCLength(v, l) /\ Raws[s].blocks = 1
          /\ Raws[s].dataLength = MQRspec_getDataLength(s.version, s.level)
      BY <3>1, <3>2 DEF MQRraw_new
    <3>4. b = 1 /\ e = MQRspec_getECCLength(v, l)
      BY <1>1, <1>2, <3>3
    <3> QED
      BY <1>1, <2>1, <3>1, <3>3, <3>4, MQREccTable
  <2>2. CASE ~ s.mqr
    <3>1. PICK v \in 1..40, l \in 0..3 : v = s.version /\ l = s.level
      BY <2>2, SymbolsAssumption DEF QRSPEC_VERSION_MAX
    <3>2. Raws[s] = QRraw_new(s)
      BY <2>2 DEF Raws
    <3>3. PICK spec : spec = QRspec_getEccSpec(s.version, s.level)
      OBVIOUS
    <3>4. spec.b1 = eccTable[v][l + 1][1] /\ spec.b2 = eccTable[v][l + 1][2]
          /\ spec.ecc = capacity[v][4][l + 1] \div (eccTable[v][l + 1][1] + eccTable[v][l + 1][2])
      BY <3>1, <3>3 DEF QRspec_getEccSpec, QRspec_getECCLength
    <3>5. Raws[s].blocks = spec.b1 + spec.b2 /\ Raws[s].eccLength = (spec.b1 + spec.b2) * spec.ecc
      BY <3>2, <3>3 DEF QRraw_new
    <3>6. spec.ecc \in 2..30
      BY <3>4, QREccTable
    <3>7. e = spec.ecc
      <4>1. PICK c \in Nat : c = spec.ecc
        BY <3>6
      <4>2. b * e = b * c
        BY <1>1, <1>2, <3>5, <4>1
      <4>3. 0 \in 0..b - 1
        BY <1>2
      <4>4. (b * e + 0) \div b = e /\ (b * c + 0) \div b = c
        BY <1>2, <4>1, <4>3, DividedUniquely
      <4> QED
        BY <4>1, <4>2, <4>4
    <3>8. PICK n \in Nat : n = QRspec_getDataLength(s.version, s.level)
      <4>1. QRspec_getDataLength(v, l) \in Nat
        BY <3>1, QRTables DEF QRspec_getDataLength, QRspec_getECCLength
      <4> QED
        BY <3>1, <4>1
    <3>9. DataBits(s) = 8 * n
      BY <2>2, <3>8 DEF DataBits
    <3>10. Raws[s].oddbits = 0
      BY <3>2 DEF QRraw_new
    <3>11. DataBits(s) = 8 * r.dataLength - 0
      BY <1>1, <3>10, RawIsRaw
    <3>12. r.dataLength = n
      BY <1>2, <3>9, <3>11
    <3> QED
      BY <2>2, <3>6, <3>7, <3>8, <3>12
  <2> QED
    BY <2>1, <2>2
<1>5. ASSUME NEW k \in 1..r.blocks
      PROVE  /\ r.rsblock[k].data \in Nat /\ r.rsblock[k].dataLength \in Nat
             /\ r.rsblock[k].data + r.rsblock[k].dataLength <= r.dataLength
  <2>1. k \in 1..b
    BY <1>2
  <2>2. /\ r.rsblock[k].dataLength = IF k <= f THEN d ELSE d + 1
        /\ r.rsblock[k].data = (k - 1) * d + (IF k <= f THEN 0 ELSE k - 1 - f)
    BY <1>1, <2>1 DEF IsRaw
  <2>3. PICK m \in Nat : k = m + 1
    <3>1. k - 1 \in Nat /\ k = (k - 1) + 1
      BY <2>1
    <3> QED
      BY <3>1
  <2>4. d * m \in Nat /\ d * m + d <= d * b /\ (k - 1) * d = d * m /\ b * d = d * b
    <3>1. m < b
      BY <1>2, <2>1, <2>3
    <3>2. d * m \in Nat /\ d * m + d <= d * b
      BY <1>2, <3>1, Products
    <3>3. k - 1 = m
      BY <2>3
    <3> QED
      BY <1>2, <3>2, <3>3
  <2>5. CASE k <= f
    BY <1>2, <2>1, <2>2, <2>4, <2>5
  <2>6. CASE ~ (k <= f)
    BY <1>2, <2>1, <2>2, <2>4, <2>6
  <2> QED
    BY <2>5, <2>6
<1>6. r.dataLength \in Nat /\ DataBits(s) = 8 * r.dataLength - r.oddbits /\ r.oddbits \in {0, 4}
  BY <1>1, <1>2, RawIsRaw
<1>7. \A k \in 1..r.blocks : /\ r.rsblock[k].data \in Nat /\ r.rsblock[k].dataLength \in Nat
                             /\ r.rsblock[k].data + r.rsblock[k].dataLength <= r.dataLength
  BY <1>5
<1>8. r.blocks \in Nat \ {0} /\ r.eccLength \div r.blocks \in 2..30
      /\ r.eccLength = (r.eccLength \div r.blocks) * r.blocks
  <2>1. r.blocks \in Nat \ {0}
    BY <1>2
  <2> QED
    BY <1>3, <1>4, <2>1, Zenon
<1> QED
  BY <1>1, <1>4, <1>6, <1>7, <1>8, Zenon DEF BlocksInBuffers

(* The halved codeword of a Micro QR symbol is the last of its one block.   *)
LEMMA OddCode ==
  ASSUME NEW s \in Symbols, Raws[s].oddbits # 0, NEW k \in 0..(Raws[s].dataLength - 1)
  PROVE  QRraw_getCode(Raws[s], k) = <<"data", k>>
<1>1. s.mqr
  <2>1. ~ s.mqr => Raws[s] = QRraw_new(s)
    BY DEF Raws
  <2>2. QRraw_new(s).oddbits = 0
    BY DEF QRraw_new
  <2> QED
    BY <2>1, <2>2
<1>2. PICK r : r = Raws[s] /\ r = MQRraw_new(s)
  BY <1>1 DEF Raws
<1>3. PICK D : D = r.dataLength
  OBVIOUS
<1>4. D \in Nat /\ k \in Nat /\ k < D
  <2>1. D = Raws[s].dataLength /\ Raws[s].dataLength \in Nat
    BY <1>2, <1>3, Sizes
  <2> QED
    BY <2>1
<1>5. r.blocks = 1 /\ r.rsblock[1].data = 0 /\ r.rsblock[1].dataLength = D /\ r.b1 = 1
  BY <1>2, <1>3 DEF MQRraw_new
<1>6. k \div 1 = k /\ k % 1 = 0
  BY <1>4
<1>7. QRraw_getCode(r, k) = <<"data", k>>
  BY <1>3, <1>4, <1>5, <1>6 DEF QRraw_getCode
<1> QED
  BY <1>2, <1>7

LEMMA BitsPlaced ==
  ASSUME NEW s \in Symbols
  PROVE  EveryBitPlaced(s)
<1>1. PICK D \in Nat, E \in Nat, o \in {0, 4}, M \in Nat, C \in Nat :
        /\ D = Raws[s].dataLength /\ E = Raws[s].eccLength /\ o = Raws[s].oddbits
        /\ M = DataBits(s) /\ C = Cardinality(FreeModules[s])
        /\ M = 8 * D - o /\ C >= M + 8 * E
  <2>1. PICK D \in Nat, E \in Nat, o \in {0, 4}, M \in Nat, C \in Nat, R \in Nat :
          /\ D = Raws[s].dataLength /\ E = Raws[s].eccLength /\ o = Raws[s].oddbits
          /\ M = DataBits(s) /\ C = Cardinality(FreeModules[s]) /\ R = RemainderBits(s)
    BY Sizes, Zenon
  <2>2. M = 8 * D - o /\ C = M + 8 * E + R
    BY <2>1, Sizes, Zenon
  <2>3. C >= M + 8 * E
    BY <2>2
  <2> QED
    BY <2>1, <2>2, <2>3, Zenon
<1>2. ASSUME NEW n \in 0..(D - 1), NEW h \in BitNumbers(s, <<"data", n>>)
      PROVE  \E m \in 1..C : Message[s][m] = Bit(<<"data", n>>, h)
  <2>1. h \in 0..7
    <3>1. BitNumbers(s, <<"data", n>>) \in {0..(7 - o), 0..7}
      BY <1>1, Zenon DEF BitNumbers
    <3>2. 7 - o \in {3, 7}
      BY <1>1
    <3>3. 0..3 \subseteq 0..7
      OBVIOUS
    <3> QED
      BY <1>2, <3>1, <3>2, <3>3
  <2>2. PICK k \in 0..(D - 1) : QRraw_getCode(Raws[s], k) = <<"data", n>>
    <3>1. PICK r, b, d, f, e : r = Raws[s] /\ IsRaw(r, b, d, f, e)
      BY RawIsRaw
    <3>2. n \in 0..(r.dataLength - 1)
      BY <1>1, <3>1
    <3>3. \E k \in 0..(r.dataLength - 1) : QRraw_getCode(r, k) = <<"data", n>>
      BY <3>1, <3>2, DataReached
    <3> QED
      BY <1>1, <3>1, <3>3
  <2>3. 8 * k + h < M
    <3>1. CASE o = 0
      BY <1>1, <2>1, <3>1
    <3>2. CASE o # 0
      <4>1. k = n
        <5>1. QRraw_getCode(Raws[s], k) = <<"data", k>>
          BY <1>1, <3>2, OddCode
        <5> QED
          BY <2>2, <5>1
      <4>2. CASE n = D - 1
        <5>1. BitNumbers(s, <<"data", n>>) = 0..(7 - o)
          BY <1>1, <4>2, Zenon DEF BitNumbers
        <5>2. 7 - o = 3
          BY <1>1, <3>2
        <5>3. h \in 0..3
          BY <1>2, <5>1, <5>2
        <5> QED
          BY <1>1, <4>1, <4>2, <5>3
      <4>3. CASE n # D - 1
        BY <1>1, <2>1, <4>1, <4>3
      <4> QED
        BY <4>2, <4>3
    <3> QED
      BY <3>1, <3>2
  <2>4. Message[s][8 * k + h + 1] = Bit(QRraw_getCode(Raws[s], k), h)
    <3>1. k \in 0..(Raws[s].dataLength - 1) /\ 8 * k + h < DataBits(s)
          /\ 8 * k + h < Cardinality(FreeModules[s]) /\ Cardinality(FreeModules[s]) \in Nat
      BY <1>1, <2>1, <2>3
    <3> QED
      BY <2>1, <3>1, DataMessage
  <2>5. 8 * k + h + 1 \in 1..C
    BY <1>1, <2>1, <2>3
  <2> QED
    BY <2>2, <2>4, <2>5
<1>3. ASSUME NEW n \in 0..(E - 1), NEW h \in 0..7
      PROVE  \E m \in 1..C : Message[s][m] = Bit(<<"ecc", n>>, h)
  <2>1. PICK k \in 0..(E - 1) : QRraw_getCode(Raws[s], D + k) = <<"ecc", n>>
    <3>1. PICK r, b, d, f, e : r = Raws[s] /\ IsRaw(r, b, d, f, e)
      BY RawIsRaw
    <3>2. n \in 0..(r.eccLength - 1)
      BY <1>1, <3>1
    <3>3. \E k \in 0..(r.eccLength - 1) : QRraw_getCode(r, r.dataLength + k) = <<"ecc", n>>
      BY <3>1, <3>2, EccReached
    <3> QED
      BY <1>1, <3>1, <3>3
  <2>2. k \in 0..(Raws[s].eccLength - 1) /\ DataBits(s) + 8 * k + h < Cardinality(FreeModules[s])
        /\ Cardinality(FreeModules[s]) \in Nat
    BY <1>1
  <2>3. Message[s][DataBits(s) + 8 * k + h + 1] = Bit(QRraw_getCode(Raws[s], Raws[s].dataLength + k), h)
    BY <2>2, EccMessage
  <2>4. PICK m \in 1..C : m = DataBits(s) + 8 * k + h + 1
    <3>1. M + 8 * k + h + 1 \in 1..C
      BY <1>1
    <3> QED
      BY <1>1, <3>1
  <2> QED
    BY <1>1, <2>1, <2>3, <2>4
<1>4. \A m \in 1..C : Message[s][m] \in {Message[s][OrderOf[s][p]] : p \in FreeModules[s]}
  <2>1. ASSUME NEW m \in 1..C PROVE \E p \in FreeModules[s] : OrderOf[s][p] = m
    BY <1>1, EveryTurn
  <2> QED
    BY <2>1
<1>5. ASSUME NEW word \in Words(s), NEW h \in BitNumbers(s, word)
      PROVE  \E m \in 1..C : Message[s][m] = Bit(word, h)
  <2>1. CASE \E n \in 0..(D - 1) : word = <<"data", n>>
    BY <1>2, <1>5, <2>1
  <2>2. CASE \E n \in 0..(E - 1) : word = <<"ecc", n>>
    <3>1. word # <<"data", Raws[s].dataLength - 1>>
      BY <2>2
    <3>2. BitNumbers(s, word) = 0..7
      BY <3>1, Zenon DEF BitNumbers
    <3> QED
      BY <1>3, <1>5, <2>2, <3>2
  <2>3. (\E n \in 0..(D - 1) : word = <<"data", n>>) \/ (\E n \in 0..(E - 1) : word = <<"ecc", n>>)
    BY <1>1 DEF Words
  <2> QED
    BY <2>1, <2>2, <2>3
<1> QED
  BY <1>4, <1>5, Zenon DEF EveryBitPlaced

(* In every symbol each bit of each codeword has a module of its own ...    *)
THEOREM SymbolsPlaced == \A s \in Symbols : EveryBitPlaced(s) /\ BlocksInBuffers(s)
BY BitsPlaced, BlocksLie
=============================================================================
