---------------------------- MODULE QRInputProofs ----------------------------
(***************************************************************************)
(* Theorems of QRInput, for any objects and any memory: whatever order     *)
(* appends, encodes, structured-append headers and frees come in, no list  *)
(* loses data, shares a chunk or has a header behind data.                 *)
(***************************************************************************)
EXTENDS QRInput, SequenceTheorems, TLAPS

(* What the invariant says of one list s, with the ages a and modes m of    *)
(* its nodes, of which g are chunks of the user.                            *)
Once(s) == \A i, j \in DOMAIN s : s[i] = s[j] => i = j
Aged(s, a, g) ==
  /\ \A k \in 1..g : \E i \in DOMAIN s : a[s[i]] = k
  /\ \A i \in DOMAIN s : a[s[i]] <= g
  /\ \A i, j \in DOMAIN s : i < j /\ a[s[i]] > 0 /\ a[s[j]] > 0 => a[s[i]] < a[s[j]]
Led(s, m) == \A i, j \in DOMAIN s : m[s[i]] = "data" /\ i < j => m[s[j]] \in UserModes

(* The tail is the chunk appended last; only headers can lie behind it.     *)
LastGiven(s, t, a, g) == IF t = NULL THEN g = 0 ELSE t \in Elements(s) /\ a[t] = g

Lists ==
  \A o \in Obj : /\ Once(list[o]) /\ Aged(list[o], age, given[o]) /\ Led(list[o], mode)
                 /\ LastGiven(list[o], tail[o], age, given[o])
Allocated == \A o \in Obj : \A n \in Elements(list[o]) : mode[n] # Free
Apart     == \A o, p \in Obj : o # p => Elements(list[o]) \cap Elements(list[p]) = {}

IInv == TypeOK /\ Lists /\ Allocated /\ Apart
-----------------------------------------------------------------------------
LEMMA InList ==
  ASSUME NEW s \in Seq(Node)
  PROVE  /\ Len(s) \in Nat /\ DOMAIN s = 1..Len(s)
         /\ \A i \in 1..Len(s) : s[i] \in Node /\ s[i] \in Elements(s)
         /\ \A e \in Elements(s) : \E i \in 1..Len(s) : e = s[i]
BY DEF Elements

(* A header is put somewhere in a list: t is s with n behind its first p    *)
(* nodes.                                                                   *)
Old(i, p) == IF i <= p THEN i ELSE i - 1
InsertedAt(t, s, n, p) ==
  /\ p \in 0..Len(s) /\ t \in Seq(Node) /\ Len(t) = Len(s) + 1
  /\ \A i \in 1..Len(t) : t[i] = IF i = p + 1 THEN n ELSE s[Old(i, p)]

LEMMA InsertMap ==
  ASSUME NEW s \in Seq(Node), NEW n, NEW t, NEW p, InsertedAt(t, s, n, p)
  PROVE  /\ Len(s) \in Nat /\ DOMAIN t = 1..Len(s) + 1 /\ DOMAIN s = 1..Len(s)
         /\ p \in 0..Len(s) /\ p + 1 \in 1..Len(s) + 1 /\ t[p + 1] = n
         /\ \A i \in 1..Len(s) + 1 : i # p + 1 => Old(i, p) \in 1..Len(s) /\ t[i] = s[Old(i, p)]
         /\ \A i, j \in 1..Len(s) + 1 : i # p + 1 /\ j # p + 1 =>
              (i < j => Old(i, p) < Old(j, p)) /\ (i # j => Old(i, p) # Old(j, p))
         /\ \A x \in 1..Len(s) : \E i \in 1..Len(s) + 1 : i # p + 1 /\ Old(i, p) = x
<1>1. /\ Len(s) \in Nat /\ DOMAIN t = 1..Len(s) + 1 /\ p \in 0..Len(s) /\ p + 1 \in 1..Len(s) + 1
      /\ t[p + 1] = n
  BY DEF InsertedAt
<1>2. \A i \in 1..Len(s) + 1 : i # p + 1 => Old(i, p) \in 1..Len(s) /\ t[i] = s[Old(i, p)]
  BY <1>1 DEF InsertedAt, Old
<1>3. \A i, j \in 1..Len(s) + 1 : i # p + 1 /\ j # p + 1 =>
        (i < j => Old(i, p) < Old(j, p)) /\ (i # j => Old(i, p) # Old(j, p))
  BY <1>1 DEF Old
<1>4. ASSUME NEW x \in 1..Len(s) PROVE \E i \in 1..Len(s) + 1 : i # p + 1 /\ Old(i, p) = x
  <2>1. CASE x <= p
    <3>1. x \in 1..Len(s) + 1 /\ x # p + 1 /\ Old(x, p) = x
      BY <1>1, <2>1 DEF Old
    <3> QED
      BY <3>1
  <2>2. CASE ~(x <= p)
    <3>1. x + 1 \in 1..Len(s) + 1 /\ x + 1 # p + 1 /\ Old(x + 1, p) = x
      BY <1>1, <2>2 DEF Old
    <3> QED
      BY <3>1
  <2> QED
    BY <2>1, <2>2
<1> QED
  BY <1>1, <1>2, <1>3, <1>4

LEMMA InsertOnce ==
  ASSUME NEW s \in Seq(Node), NEW n \in Node \ Elements(s), NEW t, NEW p, InsertedAt(t, s, n, p),
         Once(s)
  PROVE  Once(t) /\ Elements(t) = Elements(s) \cup {n}
<1>1. Once(t)
  <2>1. DOMAIN t = 1..Len(s) + 1
    BY InsertMap
  <2>2. /\ t[p + 1] = n
        /\ \A i \in 1..Len(s) + 1 : i # p + 1 => t[i] \in Elements(s)
    BY InsertMap, InList
  <2>3. ASSUME NEW i \in 1..Len(s) + 1, NEW j \in 1..Len(s) + 1, i # j, t[i] = t[j] PROVE FALSE
    <3>1. i # p + 1 /\ j # p + 1
      BY <2>2, <2>3
    <3>2. PICK x \in 1..Len(s) : x = Old(i, p) /\ t[i] = s[x]
      BY <3>1, InsertMap
    <3>3. PICK y \in 1..Len(s) : y = Old(j, p) /\ t[j] = s[y]
      BY <3>1, InsertMap
    <3>4. x # y
      BY <2>3, <3>1, <3>2, <3>3, InsertMap
    <3> QED
      BY <2>3, <3>2, <3>3, <3>4, InList DEF Once
  <2> QED
    BY <2>1, <2>3 DEF Once
<1>2. Elements(s) \subseteq Elements(t) /\ n \in Elements(t)
  <2>1. ASSUME NEW e \in Elements(s) PROVE e \in Elements(t)
    <3>1. PICK x \in 1..Len(s) : e = s[x]
      BY InList
    <3>2. PICK i \in 1..Len(s) + 1 : i # p + 1 /\ Old(i, p) = x
      BY InsertMap
    <3>3. i \in DOMAIN t /\ e = t[i]
      BY <3>1, <3>2, InsertMap
    <3> QED
      BY <3>3 DEF Elements
  <2>2. p + 1 \in DOMAIN t /\ t[p + 1] = n
    BY InsertMap
  <2>3. n \in Elements(t)
    BY <2>2 DEF Elements
  <2> QED
    BY <2>1, <2>3
<1>3. ASSUME NEW i \in 1..Len(s) + 1 PROVE t[i] \in Elements(s) \cup {n}
  BY InsertMap, InList
<1>4. Elements(t) \subseteq Elements(s) \cup {n}
  BY <1>3, InsertMap DEF Elements
<1> QED
  BY <1>1, <1>2, <1>4

LEMMA InsertAged ==
  ASSUME NEW s \in Seq(Node), NEW n \in Node, NEW t, NEW p, InsertedAt(t, s, n, p),
         NEW a \in [Node -> Nat], NEW b \in [Node -> Nat], NEW g \in Nat,
         b[n] = 0, \A e \in Elements(s) : b[e] = a[e], Aged(s, a, g)
  PROVE  Aged(t, b, g)
<1>1. \A i \in 1..Len(s) : b[s[i]] = a[s[i]] /\ a[s[i]] \in Nat
  BY InList
<1>2. ASSUME NEW i \in 1..Len(s) + 1, i # p + 1
      PROVE  Old(i, p) \in 1..Len(s) /\ b[t[i]] = a[s[Old(i, p)]]
  BY <1>1, <1>2, InsertMap
<1>3. b[t[p + 1]] = 0
  BY InsertMap
<1>4. ASSUME NEW i \in 1..Len(s) + 1 PROVE b[t[i]] <= g
  <2>1. CASE i = p + 1
    BY <1>3, <2>1
  <2>2. CASE i # p + 1
    BY <1>2, <2>2, InList DEF Aged
  <2> QED
    BY <2>1, <2>2
<1>5. ASSUME NEW i \in 1..Len(s) + 1, NEW j \in 1..Len(s) + 1, i < j, b[t[i]] > 0, b[t[j]] > 0
      PROVE  b[t[i]] < b[t[j]]
  <2>1. i # p + 1 /\ j # p + 1
    BY <1>3, <1>5
  <2>2. PICK x \in 1..Len(s) : x = Old(i, p) /\ b[t[i]] = a[s[x]]
    BY <1>2, <2>1
  <2>3. PICK y \in 1..Len(s) : y = Old(j, p) /\ b[t[j]] = a[s[y]]
    BY <1>2, <2>1
  <2>4. x < y
    BY <1>5, <2>1, <2>2, <2>3, InsertMap
  <2>5. a[s[x]] > 0 /\ a[s[y]] > 0
    BY <1>5, <2>2, <2>3
  <2>6. x \in DOMAIN s /\ y \in DOMAIN s
    BY InList
  <2>7. a[s[x]] < a[s[y]]
    BY <2>4, <2>5, <2>6 DEF Aged
  <2> QED
    BY <2>2, <2>3, <2>7
<1>6. ASSUME NEW k \in 1..g PROVE \E i \in 1..Len(s) + 1 : b[t[i]] = k
  <2>1. PICK x \in 1..Len(s) : a[s[x]] = k
    BY InList DEF Aged
  <2>2. PICK i \in 1..Len(s) + 1 : i # p + 1 /\ Old(i, p) = x
    BY InsertMap
  <2> QED
    BY <1>2, <2>1, <2>2
<1>7. DOMAIN t = 1..Len(s) + 1
  BY InsertMap
<1> QED
  BY <1>4, <1>5, <1>6, <1>7 DEF Aged

LEMMA InsertLed ==
  ASSUME NEW s \in Seq(Node), NEW n \in Node, NEW t, NEW p, InsertedAt(t, s, n, p),
         NEW m, NEW r, \A e \in Elements(s) : r[e] = m[e], r[n] # "data",
         \A i \in 1..p : m[s[i]] # "data", Led(s, m)
  PROVE  Led(t, r)
<1>1. \A i \in 1..Len(s) : r[s[i]] = m[s[i]]
  BY InList
<1>2. ASSUME NEW i \in 1..Len(s) + 1, i # p + 1
      PROVE  Old(i, p) \in 1..Len(s) /\ r[t[i]] = m[s[Old(i, p)]]
  BY <1>1, <1>2, InsertMap
<1>3. r[t[p + 1]] # "data"
  BY InsertMap
<1>4. ASSUME NEW i \in 1..Len(s) + 1, r[t[i]] = "data" PROVE i # p + 1 /\ ~(i <= p)
  <2>1. i # p + 1
    BY <1>3, <1>4
  <2>2. ASSUME i <= p PROVE FALSE
    <3>1. i \in 1..p /\ Old(i, p) = i
      BY <2>2, InsertMap DEF Old
    <3> QED
      BY <1>2, <1>4, <2>1, <3>1
  <2> QED
    BY <2>1, <2>2
<1>5. ASSUME NEW i \in 1..Len(s) + 1, NEW j \in 1..Len(s) + 1, i < j, r[t[i]] = "data"
      PROVE  r[t[j]] \in UserModes
  <2>1. i # p + 1 /\ j # p + 1
    BY <1>4, <1>5, InsertMap
  <2>2. Old(i, p) < Old(j, p)
    BY <1>5, <2>1, InsertMap
  <2> QED
    BY <1>2, <1>5, <2>1, <2>2, InList DEF Led
<1>6. DOMAIN t = 1..Len(s) + 1
  BY InsertMap
<1> QED
  BY <1>5, <1>6 DEF Led
-----------------------------------------------------------------------------
(* A chunk is appended behind the first q nodes of a list.                  *)
AppendedAt(t, s, n, q) ==
  /\ q \in 0..Len(s) /\ t \in Seq(Node) /\ Len(t) = q + 1
  /\ t[q + 1] = n /\ \A i \in 1..q : t[i] = s[i]

LEMMA AppendOnce ==
  ASSUME NEW s \in Seq(Node), NEW n \in Node \ Elements(s), NEW t, NEW q, AppendedAt(t, s, n, q),
         Once(s)
  PROVE  Once(t) /\ Elements(t) \subseteq Elements(s) \cup {n} /\ n \in Elements(t)
<1>1. /\ Len(s) \in Nat /\ DOMAIN s = 1..Len(s) /\ DOMAIN t = 1..q + 1 /\ q \in 0..Len(s)
      /\ t[q + 1] = n /\ \A i \in 1..q : t[i] = s[i]
  BY DEF AppendedAt
<1>2. \A i \in 1..Len(s) : s[i] # n
  BY <1>1 DEF Elements
<1>3. Once(t)
  BY <1>1, <1>2 DEF Once
<1>4. \A j \in 1..q + 1 : (j \in 1..q /\ j \in 1..Len(s)) \/ t[j] = n
  BY <1>1
<1>5. \A j \in 1..q + 1 : t[j] \in Elements(s) \cup {n}
  BY <1>1, <1>4 DEF Elements
<1>6. q + 1 \in DOMAIN t
  BY <1>1
<1> QED
  BY <1>1, <1>3, <1>5, <1>6 DEF Elements

LEMMA AppendAged ==
  ASSUME NEW s \in Seq(Node), NEW n \in Node, NEW t, NEW q, AppendedAt(t, s, n, q),
         NEW a \in [Node -> Nat], NEW b \in [Node -> Nat], NEW g \in Nat,
         b[n] = g + 1, \A e \in Elements(s) : b[e] = a[e], Aged(s, a, g),
         q > 0 => a[s[q]] = g, q = 0 => g = 0
  PROVE  Aged(t, b, g + 1)
<1>1. /\ Len(s) \in Nat /\ DOMAIN s = 1..Len(s) /\ DOMAIN t = 1..q + 1 /\ q \in 0..Len(s)
      /\ t[q + 1] = n /\ \A i \in 1..q : t[i] = s[i]
  BY DEF AppendedAt
<1>2. \A i \in 1..Len(s) : b[s[i]] = a[s[i]] /\ a[s[i]] \in Nat /\ a[s[i]] <= g
  BY InList DEF Aged
<1>3. \A i \in 1..q : i \in 1..Len(s) /\ b[t[i]] = a[s[i]]
  BY <1>1, <1>2
<1>4. b[t[q + 1]] = g + 1
  BY <1>1
<1>5. \A i \in 1..q + 1 : i \in 1..q \/ i = q + 1
  BY <1>1
<1>6. ASSUME NEW i \in 1..q + 1 PROVE b[t[i]] <= g + 1
  <2>1. CASE i = q + 1
    BY <1>4, <2>1
  <2>2. CASE i \in 1..q
    <3>1. b[t[i]] = a[s[i]] /\ a[s[i]] \in Nat /\ a[s[i]] <= g
      BY <1>2, <1>3, <2>2
    <3> QED
      BY <3>1
  <2> QED
    BY <1>5, <2>1, <2>2
<1>7. ASSUME NEW i \in 1..q + 1, NEW j \in 1..q + 1, i < j, b[t[i]] > 0, b[t[j]] > 0
      PROVE  b[t[i]] < b[t[j]]
  <2>1. i \in 1..q /\ i \in 1..Len(s)
    BY <1>1, <1>7
  <2>2. CASE j = q + 1
    <3>1. b[t[i]] = a[s[i]] /\ a[s[i]] \in Nat /\ a[s[i]] <= g /\ b[t[j]] = g + 1
      BY <1>2, <1>3, <1>4, <2>1, <2>2
    <3> QED
      BY <3>1
  <2>3. CASE j \in 1..q
    BY <1>1, <1>3, <1>7, <2>1, <2>3 DEF Aged
  <2> QED
    BY <1>5, <2>2, <2>3
<1>8. ASSUME NEW k \in 1..g + 1 PROVE \E i \in 1..q + 1 : b[t[i]] = k
  <2>1. CASE k = g + 1
    BY <1>1, <1>4, <2>1
  <2>2. CASE k \in 1..g
    <3>1. PICK x \in 1..Len(s) : a[s[x]] = k
      BY <1>1, <2>2 DEF Aged
    <3>2. q > 0 /\ a[s[q]] = g /\ q \in 1..Len(s)
      BY <1>1, <2>2
    <3>3. x <= q
      <4>1. ASSUME q < x PROVE FALSE
        <5>1. a[s[q]] < a[s[x]]
          <6>1. a[s[q]] > 0 /\ a[s[x]] > 0
            BY <2>2, <3>1, <3>2
          <6> QED
            BY <1>1, <3>2, <4>1, <6>1 DEF Aged
        <5> QED
          BY <2>2, <3>1, <3>2, <5>1
      <4> QED
        BY <1>1, <4>1
    <3>4. x \in 1..q /\ b[t[x]] = k
      BY <1>1, <1>3, <3>1, <3>3
    <3>5. x \in 1..q + 1
      BY <1>1, <3>4
    <3> QED
      BY <3>4, <3>5
  <2> QED
    BY <2>1, <2>2
<1> QED
  BY <1>1, <1>6, <1>7, <1>8 DEF Aged

LEMMA AppendLed ==
  ASSUME NEW s \in Seq(Node), NEW n \in Node, NEW t, NEW q, AppendedAt(t, s, n, q),
         NEW m, NEW r, \A e \in Elements(s) : r[e] = m[e], r[n] \in UserModes, Led(s, m)
  PROVE  Led(t, r)
<1>1. /\ Len(s) \in Nat /\ DOMAIN s = 1..Len(s) /\ DOMAIN t = 1..q + 1 /\ q \in 0..Len(s)
      /\ t[q + 1] = n /\ \A i \in 1..q : t[i] = s[i]
  BY DEF AppendedAt
<1>2. \A i \in 1..q : i \in 1..Len(s) /\ r[t[i]] = m[s[i]]
  BY <1>1 DEF Elements
<1>3. ASSUME NEW i \in 1..q + 1, NEW j \in 1..q + 1, i < j, r[t[i]] = "data"
      PROVE  r[t[j]] \in UserModes
  <2>1. CASE j = q + 1
    BY <1>1, <2>1
  <2>2. CASE j # q + 1
    <3>1. i \in 1..q /\ j \in 1..q
      BY <1>1, <1>3, <2>2
    <3> QED
      BY <1>1, <1>2, <1>3, <3>1 DEF Led
  <2> QED
    BY <2>1, <2>2
<1> QED
  BY <1>1, <1>3 DEF Led
-----------------------------------------------------------------------------
(* Which of these each operation does to a list.                            *)
LEMMA SecondPlaceInserts ==
  ASSUME NEW s \in Seq(Node), s # <<>>, NEW n \in Node
  PROVE  InsertedAt(SecondPlace(s, n), s, n, 1)
<1>1. Len(s) \in Nat /\ Len(s) >= 1 /\ s[1] \in Node /\ \A i \in 2..Len(s) : s[i] \in Node
  BY InList
<1> DEFINE r == SubSeq(s, 2, Len(s))
<1>2. r \in Seq(Node) /\ Len(r) = Len(s) - 1 /\ \A i \in 1..Len(s) - 1 : r[i] = s[i + 1]
  <2>1. /\ SubSeq(s, 2, Len(s)) \in Seq(Node)
        /\ Len(SubSeq(s, 2, Len(s))) = IF 2 <= Len(s) THEN Len(s) - 2 + 1 ELSE 0
        /\ \A i \in 1..Len(s) - 2 + 1 : SubSeq(s, 2, Len(s))[i] = s[2 + i - 1]
    BY <1>1, SubSeqProperties
  <2>2. \A i \in 1..Len(s) - 1 : i \in 1..Len(s) - 2 + 1 /\ 2 + i - 1 = i + 1
    BY <1>1
  <2>3. Len(r) = Len(s) - 1
    <3> DEFINE k == Len(s)  l == Len(r)
    <3>1. k \in Nat /\ k >= 1 /\ l = IF 2 <= k THEN k - 2 + 1 ELSE 0
      BY <1>1, <2>1
    <3> HIDE DEF k, l
    <3>2. l = k - 1
      BY <3>1
    <3> QED
      BY <3>2 DEF k, l
  <2>4. ASSUME NEW i \in 1..Len(s) - 1 PROVE r[i] = s[i + 1]
    BY <2>1, <2>2
  <2> QED
    BY <2>1, <2>3, <2>4
<1> DEFINE f == <<s[1], n>>
<1>3. f \in Seq(Node) /\ Len(f) = 2 /\ f[1] = s[1] /\ f[2] = n
  BY <1>1
<1> HIDE DEF r, f
<1>4. /\ f \o r \in Seq(Node) /\ Len(f \o r) = Len(s) + 1
      /\ \A i \in 1..Len(s) + 1 : (f \o r)[i] = IF i <= 2 THEN f[i] ELSE r[i - 2]
  <2>1. /\ f \o r \in Seq(Node) /\ Len(f \o r) = Len(f) + Len(r)
        /\ \A i \in 1..Len(f) + Len(r) : (f \o r)[i] = IF i <= Len(f) THEN f[i] ELSE r[i - Len(f)]
    BY <1>2, <1>3, ConcatProperties
  <2>2. Len(f) + Len(r) = Len(s) + 1
    BY <1>1, <1>2, <1>3
  <2> QED
    BY <1>3, <2>1, <2>2
<1>5. ASSUME NEW i \in 1..Len(s) + 1 PROVE (f \o r)[i] = IF i = 2 THEN n ELSE s[Old(i, 1)]
  <2>1. CASE i <= 2
    BY <1>3, <1>4, <2>1 DEF Old
  <2>2. CASE ~(i <= 2)
    <3>1. i - 2 \in 1..Len(s) - 1 /\ (f \o r)[i] = r[i - 2] /\ i - 2 + 1 = i - 1 /\ Old(i, 1) = i - 1
      BY <1>1, <1>4, <2>2 DEF Old
    <3> QED
      BY <1>2, <2>2, <3>1
  <2> QED
    BY <2>1, <2>2
<1>6. SecondPlace(s, n) = f \o r
  BY DEF SecondPlace, f, r
<1> QED
  BY <1>1, <1>4, <1>5, <1>6 DEF InsertedAt

LEMMA PrefixInserts ==
  ASSUME NEW s \in Seq(Node), NEW n \in Node
  PROVE  InsertedAt(<<n>> \o s, s, n, 0)
<1> DEFINE f == <<n>>
<1>1. f \in Seq(Node) /\ Len(f) = 1 /\ f[1] = n /\ Len(s) \in Nat
  BY InList
<1> HIDE DEF f
<1>2. /\ f \o s \in Seq(Node) /\ Len(f \o s) = Len(s) + 1
      /\ \A i \in 1..Len(s) + 1 : (f \o s)[i] = IF i <= 1 THEN f[i] ELSE s[i - 1]
  BY <1>1, ConcatProperties
<1>3. InsertedAt(f \o s, s, n, 0)
  BY <1>1, <1>2 DEF InsertedAt, Old
<1> QED
  BY <1>3 DEF f

LEMMA UpToAppends ==
  ASSUME NEW s \in Seq(Node), NEW e \in Elements(s), NEW n \in Node
  PROVE  \E q \in 1..Len(s) : s[q] = e /\ AppendedAt(UpTo(s, e) \o <<n>>, s, n, q)
<1> DEFINE q == CHOOSE i \in DOMAIN s : s[i] = e
<1>1. Len(s) \in Nat /\ q \in 1..Len(s) /\ s[q] = e
  BY InList
<1> DEFINE r == UpTo(s, e)
<1>2. r = SubSeq(s, 1, q)
  BY DEF UpTo
<1> HIDE DEF q
<1>3. r \in Seq(Node) /\ Len(r) = q /\ \A i \in 1..q : r[i] = s[i]
  <2>1. \A i \in 1..q : s[i] \in Node
    BY <1>1, InList
  <2>2. /\ SubSeq(s, 1, q) \in Seq(Node) /\ Len(SubSeq(s, 1, q)) = IF 1 <= q THEN q - 1 + 1 ELSE 0
        /\ \A i \in 1..q - 1 + 1 : SubSeq(s, 1, q)[i] = s[1 + i - 1]
    BY <1>1, <2>1, SubSeqProperties
  <2> QED
    BY <1>1, <1>2, <2>2
<1> DEFINE f == <<n>>
<1>4. f \in Seq(Node) /\ Len(f) = 1 /\ f[1] = n
  OBVIOUS
<1> HIDE DEF f, r
<1>5. /\ r \o f \in Seq(Node) /\ Len(r \o f) = q + 1
      /\ \A i \in 1..q + 1 : (r \o f)[i] = IF i <= q THEN r[i] ELSE f[i - q]
  <2>1. /\ r \o f \in Seq(Node) /\ Len(r \o f) = Len(r) + Len(f)
        /\ \A i \in 1..Len(r) + Len(f) : (r \o f)[i] = IF i <= Len(r) THEN r[i] ELSE f[i - Len(r)]
    BY <1>3, <1>4, ConcatProperties
  <2> QED
    BY <1>3, <1>4, <2>1
<1>6. AppendedAt(r \o f, s, n, q)
  BY <1>1, <1>3, <1>4, <1>5 DEF AppendedAt
<1> QED
  BY <1>1, <1>6 DEF r, f

LEMMA FirstAppends ==
  ASSUME NEW s \in Seq(Node), NEW n \in Node
  PROVE  AppendedAt(<<n>>, s, n, 0)
BY InList DEF AppendedAt
-----------------------------------------------------------------------------
(* What the invariant says of one object, in the terms of the lemmas above. *)
LEMMA OneList ==
  ASSUME IInv, NEW o \in Obj
  PROVE  /\ list[o] \in Seq(Node) /\ given[o] \in Nat /\ age \in [Node -> Nat]
         /\ \A e \in Elements(list[o]) : e \in Node /\ mode[e] # Free
         /\ Once(list[o]) /\ Aged(list[o], age, given[o]) /\ Led(list[o], mode)
         /\ LastGiven(list[o], tail[o], age, given[o])
<1>1. list[o] \in Seq(Node) /\ given[o] \in Nat /\ age \in [Node -> Nat]
  BY DEF IInv, TypeOK
<1>2. \A e \in Elements(list[o]) : e \in Node
  BY <1>1, InList
<1> QED
  BY <1>1, <1>2 DEF IInv, Allocated, Lists

\* A step from ages a and modes m to b and r keeps those of the nodes of s.
NodesKept(s, a, b, m, r) == \A e \in Elements(s) : m[e] # Free /\ b[e] = a[e] /\ r[e] = m[e]
\* u is s with n somewhere in front of all data.
LeadingAt(u, s, n, m) == \E p : InsertedAt(u, s, n, p) /\ \A i \in 1..p : m[s[i]] # "data"

LEMMA Same ==
  ASSUME NEW s \in Seq(Node), NEW a, NEW b, NEW m, NEW r, NEW t, NEW g,
         NodesKept(s, a, b, m, r), Aged(s, a, g), Led(s, m), LastGiven(s, t, a, g)
  PROVE  Aged(s, b, g) /\ Led(s, r) /\ LastGiven(s, t, b, g)
<1>1. \A i \in DOMAIN s : s[i] \in Elements(s) /\ b[s[i]] = a[s[i]] /\ r[s[i]] = m[s[i]]
  BY InList DEF NodesKept
<1>2. Aged(s, b, g)
  BY <1>1 DEF Aged
<1>3. Led(s, r)
  BY <1>1 DEF Led
<1> QED
  BY <1>2, <1>3 DEF LastGiven, NodesKept

LEMMA HeaderKeeps ==
  ASSUME NEW s \in Seq(Node), NEW n \in Node, NEW u, NEW a \in [Node -> Nat], NEW b \in [Node -> Nat],
         NEW m, NEW r, NEW t, NEW g \in Nat,
         NodesKept(s, a, b, m, r), m[n] = Free, b[n] = 0, r[n] # "data", LeadingAt(u, s, n, m),
         Once(s), Aged(s, a, g), Led(s, m), LastGiven(s, t, a, g)
  PROVE  /\ Once(u) /\ Aged(u, b, g) /\ Led(u, r) /\ LastGiven(u, t, b, g)
         /\ Elements(u) = Elements(s) \cup {n}
<1>1. PICK p : InsertedAt(u, s, n, p) /\ \A i \in 1..p : m[s[i]] # "data"
  BY DEF LeadingAt
<1>2. n \notin Elements(s)
  BY DEF NodesKept
<1>3. Once(u) /\ Elements(u) = Elements(s) \cup {n}
  BY <1>1, <1>2, InsertOnce
<1>4. \A e \in Elements(s) : b[e] = a[e]
  BY DEF NodesKept
<1>5. \A e \in Elements(s) : r[e] = m[e]
  BY DEF NodesKept
<1>6. Aged(u, b, g)
  BY <1>1, <1>4, InsertAged
<1>7. Led(u, r)
  BY <1>1, <1>5, InsertLed
<1>8. LastGiven(u, t, b, g)
  BY <1>3, <1>4 DEF LastGiven
<1> QED
  BY <1>3, <1>6, <1>7, <1>8

\* All the invariant says of the list s of one object, whose tail is t.
ListOK(s, t, a, m, g) == Once(s) /\ Aged(s, a, g) /\ Led(s, m) /\ LastGiven(s, t, a, g)
\* What a header n finds and makes of ages and modes.
HeaderNode(n, b, m, r) == m[n] = Free /\ b[n] = 0 /\ r[n] # "data"

LEMMA HeaderKeepsList ==
  ASSUME NEW s \in Seq(Node), NEW n \in Node, NEW u, NEW a \in [Node -> Nat], NEW b \in [Node -> Nat],
         NEW m, NEW r, NEW t, NEW g \in Nat,
         NodesKept(s, a, b, m, r), HeaderNode(n, b, m, r), LeadingAt(u, s, n, m),
         ListOK(s, t, a, m, g)
  PROVE  ListOK(u, t, b, r, g) /\ Elements(u) = Elements(s) \cup {n}
BY HeaderKeeps DEF ListOK, HeaderNode

LEMMA OneHeader ==
  ASSUME IInv, TypeOK', NEW o \in Obj, NEW n \in Node,
         NodesKept(list[o], age, age', mode, mode'), mode[n] = Free, mode'[n] # "data", age'[n] = 0,
         LeadingAt(list'[o], list[o], n, mode)
  PROVE  /\ Once(list'[o]) /\ Aged(list'[o], age', given[o]) /\ Led(list'[o], mode')
         /\ LastGiven(list'[o], tail[o], age', given[o])
         /\ Elements(list'[o]) = Elements(list[o]) \cup {n}
<1>1. PICK g \in Nat : g = given[o]
  BY OneList
<1>2. ListOK(list[o], tail[o], age, mode, g)
  BY <1>1, OneList DEF ListOK
<1>3. list[o] \in Seq(Node) /\ age \in [Node -> Nat]
  BY OneList
<1>4. age' \in [Node -> Nat]
  BY DEF TypeOK
<1>5. HeaderNode(n, age', mode, mode')
  BY DEF HeaderNode
<1>6. ListOK(list'[o], tail[o], age', mode', g) /\ Elements(list'[o]) = Elements(list[o]) \cup {n}
  BY <1>2, <1>3, <1>4, <1>5, HeaderKeepsList
<1> QED
  BY <1>1, <1>6 DEF ListOK

(* Headers: some objects o get a new node h[o], in front of all data.       *)
LEMMA HeadersKeep ==
  ASSUME IInv, NEW h \in [Obj -> Node \cup {NULL}],
         UNCHANGED <<tail, given>>, TypeOK',
         \A o, p \in Obj : o # p /\ h[o] # NULL => h[o] # h[p],
         \A n \in Node : mode[n] # Free => mode'[n] = mode[n] /\ age'[n] = age[n],
         \A o \in Obj : h[o] = NULL => list'[o] = list[o],
         \A o \in Obj : h[o] # NULL =>
           /\ mode[h[o]] = Free /\ mode'[h[o]] \notin {Free, "data"} /\ age'[h[o]] = 0
           /\ LeadingAt(list'[o], list[o], h[o], mode)
  PROVE  IInv'
<1>1. age' \in [Node -> Nat]
  BY DEF TypeOK
<1>2. ASSUME NEW o \in Obj
      PROVE  NodesKept(list[o], age, age', mode, mode')
  BY OneList DEF NodesKept
<1>3. ASSUME NEW o \in Obj
      PROVE  /\ Once(list'[o]) /\ Aged(list'[o], age', given[o]) /\ Led(list'[o], mode')
             /\ LastGiven(list'[o], tail[o], age', given[o])
             /\ Elements(list'[o]) = Elements(list[o]) \cup ({h[o]} \ {NULL})
             /\ \A e \in Elements(list'[o]) : mode'[e] # Free
  <2>1. CASE h[o] = NULL
    <3>1. list'[o] = list[o]
      BY <2>1
    <3>2. Aged(list[o], age', given[o]) /\ Led(list[o], mode') /\ LastGiven(list[o], tail[o], age', given[o])
      BY <1>2, OneList, Same
    <3>3. Once(list[o]) /\ \A e \in Elements(list[o]) : mode'[e] # Free
      BY <1>2, OneList DEF NodesKept
    <3> QED
      BY <2>1, <3>1, <3>2, <3>3
  <2>2. CASE h[o] # NULL
    <3>1. h[o] \in Node /\ mode[h[o]] = Free /\ mode'[h[o]] # "data" /\ mode'[h[o]] # Free /\ age'[h[o]] = 0
          /\ LeadingAt(list'[o], list[o], h[o], mode)
      BY <2>2
    <3>2. /\ Once(list'[o]) /\ Aged(list'[o], age', given[o]) /\ Led(list'[o], mode')
          /\ LastGiven(list'[o], tail[o], age', given[o])
          /\ Elements(list'[o]) = Elements(list[o]) \cup {h[o]}
      BY <1>2, <3>1, OneHeader
    <3>3. \A e \in Elements(list'[o]) : mode'[e] # Free
      BY <1>2, <3>1, <3>2 DEF NodesKept
    <3> QED
      BY <2>2, <3>2, <3>3
  <2> QED
    BY <2>1, <2>2
<1>4. Lists' /\ Allocated'
  BY <1>3 DEF Lists, Allocated
<1>5. ASSUME NEW o \in Obj, NEW p \in Obj, o # p PROVE Elements(list'[o]) \cap Elements(list'[p]) = {}
  <2>1. Elements(list[o]) \cap Elements(list[p]) = {}
    BY <1>5 DEF IInv, Apart
  <2>2. h[o] # NULL => h[o] \notin Elements(list[p]) /\ h[o] # h[p]
    BY <1>2, <1>5 DEF NodesKept
  <2>3. h[p] # NULL => h[p] \notin Elements(list[o])
    BY <1>2 DEF NodesKept
  <2> QED
    BY <1>3, <2>1, <2>2, <2>3
<1>6. Apart'
  BY <1>5 DEF Apart
<1> QED
  BY <1>4, <1>6 DEF IInv
-----------------------------------------------------------------------------
(* An append: behind the tail, where the chunk appended before it is.       *)
TailPlace(s, q, a, g) == (q > 0 => a[s[q]] = g) /\ (q = 0 => g = 0)
ChunkNode(n, b, m, r, g) == m[n] = Free /\ b[n] = g + 1 /\ r[n] \in UserModes

LEMMA AppendKeepsList ==
  ASSUME NEW s \in Seq(Node), NEW n \in Node, NEW u, NEW q, NEW a \in [Node -> Nat],
         NEW b \in [Node -> Nat], NEW m, NEW r, NEW t, NEW g \in Nat,
         NodesKept(s, a, b, m, r), ChunkNode(n, b, m, r, g), AppendedAt(u, s, n, q),
         TailPlace(s, q, a, g), ListOK(s, t, a, m, g)
  PROVE  ListOK(u, n, b, r, g + 1) /\ Elements(u) \subseteq Elements(s) \cup {n}
<1>1. n \notin Elements(s) /\ n # NULL
  BY NodeAssumption DEF NodesKept, ChunkNode
<1>2. \A e \in Elements(s) : b[e] = a[e]
  BY DEF NodesKept
<1>3. \A e \in Elements(s) : r[e] = m[e]
  BY DEF NodesKept
<1>4. Once(u) /\ Elements(u) \subseteq Elements(s) \cup {n} /\ n \in Elements(u)
  BY <1>1, AppendOnce DEF ListOK
<1>5. b[n] = g + 1 /\ r[n] \in UserModes /\ Aged(s, a, g) /\ Led(s, m)
  BY DEF ChunkNode, ListOK
<1>6. (q > 0 => a[s[q]] = g) /\ (q = 0 => g = 0)
  BY DEF TailPlace
<1>7. Aged(u, b, g + 1)
  BY <1>2, <1>5, <1>6, AppendAged
<1>8. Led(u, r)
  BY <1>3, <1>5, AppendLed
<1>9. LastGiven(u, n, b, g + 1)
  BY <1>1, <1>4, <1>5 DEF LastGiven
<1> QED
  BY <1>4, <1>7, <1>8, <1>9 DEF ListOK

LEMMA AppendKeeps ==
  ASSUME IInv, NEW o \in Obj, NEW m \in UserModes, NEW n \in Node, QRinput_append(o, m, n), TypeOK'
  PROVE  IInv'
<1>1. /\ list \in [Obj -> Seq(Node)] /\ tail \in [Obj -> Node \cup {NULL}] /\ given \in [Obj -> Nat]
      /\ age \in [Node -> Nat] /\ mode \in [Node -> Modes \cup {Free}] /\ age' \in [Node -> Nat]
  BY DEF IInv, TypeOK
<1>2. /\ mode[n] = Free /\ mode' = [mode EXCEPT ![n] = m] /\ tail' = [tail EXCEPT ![o] = n]
      /\ given' = [given EXCEPT ![o] = @ + 1] /\ age' = [age EXCEPT ![n] = given'[o]]
      /\ list' = [list EXCEPT ![o] = IF tail[o] = NULL THEN <<n>> ELSE UpTo(@, tail[o]) \o <<n>>]
  BY DEF QRinput_append
<1>3. PICK g \in Nat : g = given[o]
  BY <1>1
<1>4. tail'[o] = n /\ given'[o] = g + 1 /\ age'[n] = g + 1 /\ mode'[n] = m /\ mode'[n] # Free
  BY <1>1, <1>2, <1>3 DEF UserModes, Free
<1>5. ASSUME NEW p \in Obj
      PROVE  n \notin Elements(list[p]) /\ NodesKept(list[p], age, age', mode, mode')
  BY <1>1, <1>2, OneList DEF NodesKept
<1>6. ListOK(list[o], tail[o], age, mode, g)
  BY <1>3, OneList DEF ListOK
<1>7. \E q : AppendedAt(list'[o], list[o], n, q) /\ TailPlace(list[o], q, age, g)
  <2>1. CASE tail[o] = NULL
    <3>1. list'[o] = <<n>> /\ g = 0
      BY <1>1, <1>2, <1>6, <2>1 DEF ListOK, LastGiven
    <3>2. TailPlace(list[o], 0, age, g)
      BY <3>1 DEF TailPlace
    <3> QED
      BY <1>1, <3>1, <3>2, FirstAppends
  <2>2. CASE tail[o] # NULL
    <3>1. list'[o] = UpTo(list[o], tail[o]) \o <<n>> /\ tail[o] \in Elements(list[o]) /\ age[tail[o]] = g
      BY <1>1, <1>2, <1>6, <2>2 DEF ListOK, LastGiven
    <3>2. PICK q \in 1..Len(list[o]) : list[o][q] = tail[o] /\ AppendedAt(list'[o], list[o], n, q)
      BY <1>1, <3>1, UpToAppends
    <3>3. TailPlace(list[o], q, age, g)
      BY <3>1, <3>2 DEF TailPlace
    <3> QED
      BY <3>2, <3>3
  <2> QED
    BY <2>1, <2>2
<1>8. ListOK(list'[o], n, age', mode', g + 1) /\ Elements(list'[o]) \subseteq Elements(list[o]) \cup {n}
  <2>1. PICK q : AppendedAt(list'[o], list[o], n, q) /\ TailPlace(list[o], q, age, g)
    BY <1>7
  <2>2. ChunkNode(n, age', mode, mode', g)
    BY <1>2, <1>4 DEF ChunkNode
  <2>3. list[o] \in Seq(Node) /\ NodesKept(list[o], age, age', mode, mode')
    BY <1>1, <1>5
  <2> QED
    BY <1>1, <1>6, <2>1, <2>2, <2>3, AppendKeepsList
<1>9. ASSUME NEW p \in Obj, p # o
      PROVE  /\ list'[p] = list[p] /\ ListOK(list'[p], tail'[p], age', mode', given'[p])
             /\ \A e \in Elements(list'[p]) : mode'[e] # Free
  <2>1. list'[p] = list[p] /\ tail'[p] = tail[p] /\ given'[p] = given[p]
    BY <1>1, <1>2, <1>9
  <2>2. Aged(list[p], age', given[p]) /\ Led(list[p], mode') /\ LastGiven(list[p], tail[p], age', given[p])
    BY <1>5, OneList, Same
  <2>3. Once(list[p]) /\ \A e \in Elements(list[p]) : mode'[e] # Free
    BY <1>5, OneList DEF NodesKept
  <2> QED
    BY <2>1, <2>2, <2>3 DEF ListOK
<1>10. \A e \in Elements(list'[o]) : mode'[e] # Free
  BY <1>4, <1>5, <1>8 DEF NodesKept
<1>11. Lists' /\ Allocated'
  <2>1. ASSUME NEW p \in Obj
        PROVE  /\ ListOK(list'[p], tail'[p], age', mode', given'[p])
               /\ \A e \in Elements(list'[p]) : mode'[e] # Free
    <3>1. CASE p = o
      BY <1>4, <1>8, <1>10, <3>1
    <3>2. CASE p # o
      BY <1>9, <3>2
    <3> QED
      BY <3>1, <3>2
  <2> QED
    BY <2>1 DEF Lists, Allocated, ListOK
<1>12. ASSUME NEW p \in Obj, NEW x \in Obj, p # x
       PROVE  Elements(list'[p]) \cap Elements(list'[x]) = {}
  <2>1. Elements(list[p]) \cap Elements(list[x]) = {}
    BY <1>12 DEF IInv, Apart
  <2>2. CASE p = o
    BY <1>5, <1>8, <1>9, <1>12, <2>1, <2>2
  <2>3. CASE x = o
    BY <1>5, <1>8, <1>9, <1>12, <2>1, <2>3
  <2>4. CASE p # o /\ x # o
    BY <1>9, <2>1, <2>4
  <2> QED
    BY <2>2, <2>3, <2>4
<1>13. Apart'
  BY <1>12 DEF Apart
<1> QED
  BY <1>11, <1>13 DEF IInv

(* Frees: the chunks of the objects os, and no chunk of another object.     *)
LEMMA FreeKeeps ==
  ASSUME IInv, NEW os \in SUBSET Obj, FreeObjects(os), TypeOK'
  PROVE  IInv'
<1> DEFINE chunks == UNION {Elements(list[o]) : o \in os}
<1>1. /\ list' = [o \in Obj |-> IF o \in os THEN <<>> ELSE list[o]]
      /\ tail' = [o \in Obj |-> IF o \in os THEN NULL ELSE tail[o]]
      /\ given' = [o \in Obj |-> IF o \in os THEN 0 ELSE given[o]]
      /\ mode' = [n \in Node |-> IF n \in chunks THEN Free ELSE mode[n]]
      /\ age' = [n \in Node |-> IF n \in chunks THEN 0 ELSE age[n]]
  BY DEF FreeObjects
<1>2. ASSUME NEW o \in Obj, o \in os
      PROVE  /\ Elements(list'[o]) = {} /\ ListOK(list'[o], tail'[o], age', mode', given'[o])
  <2>1. list'[o] = <<>> /\ tail'[o] = NULL /\ given'[o] = 0
    BY <1>1, <1>2
  <2>2. DOMAIN list'[o] = {}
    BY <2>1
  <2> QED
    BY <2>1, <2>2 DEF ListOK, Once, Aged, Led, LastGiven, Elements
<1>3. ASSUME NEW o \in Obj, o \notin os
      PROVE  /\ list'[o] = list[o] /\ ListOK(list'[o], tail'[o], age', mode', given'[o])
             /\ \A e \in Elements(list'[o]) : mode'[e] # Free
  <2>1. list'[o] = list[o] /\ tail'[o] = tail[o] /\ given'[o] = given[o]
    BY <1>1, <1>3
  <2>2. \A p \in os : Elements(list[p]) \cap Elements(list[o]) = {}
    BY <1>3 DEF IInv, Apart
  <2>3. NodesKept(list[o], age, age', mode, mode')
    <3>1. \A e \in Elements(list[o]) : e \notin chunks
      BY <2>2
    <3>2. \A e \in Elements(list[o]) : e \in Node /\ mode[e] # Free
      BY OneList
    <3> QED
      BY <1>1, <3>1, <3>2 DEF NodesKept
  <2>4. Aged(list[o], age', given[o]) /\ Led(list[o], mode') /\ LastGiven(list[o], tail[o], age', given[o])
    BY <2>3, OneList, Same
  <2>5. Once(list[o]) /\ \A e \in Elements(list[o]) : mode'[e] # Free
    BY <2>3, OneList DEF NodesKept
  <2> QED
    BY <2>1, <2>4, <2>5 DEF ListOK
<1>4. Lists' /\ Allocated'
  BY <1>2, <1>3 DEF Lists, Allocated, ListOK
<1>5. Apart'
  <2>1. ASSUME NEW o \in Obj, NEW p \in Obj, o # p PROVE Elements(list'[o]) \cap Elements(list'[p]) = {}
    <3>1. Elements(list[o]) \cap Elements(list[p]) = {}
      BY <2>1 DEF IInv, Apart
    <3> QED
      BY <1>2, <1>3, <3>1
  <2> QED
    BY <2>1 DEF Apart
<1> QED
  BY <1>4, <1>5 DEF IInv
-----------------------------------------------------------------------------
(* Where the headers of an encode and of a structured append go.            *)
LEMMA InsertedLeads ==
  ASSUME NEW s \in Seq(Node), s # <<>>, NEW n \in Node
  PROVE  LeadingAt(Inserted(s, n), s, n, mode)
<1>1. CASE mode[s[1]] \in {"STRUCTURE", "ECI"}
  <2>1. InsertedAt(Inserted(s, n), s, n, 1)
    BY <1>1, SecondPlaceInserts DEF Inserted
  <2>2. \A i \in 1..1 : mode[s[i]] # "data"
    BY <1>1
  <2> QED
    BY <2>1, <2>2 DEF LeadingAt
<1>2. CASE mode[s[1]] \notin {"STRUCTURE", "ECI"}
  <2>1. InsertedAt(Inserted(s, n), s, n, 0)
    BY <1>2, PrefixInserts DEF Inserted
  <2>2. \A i \in 1..0 : mode[s[i]] # "data"
    OBVIOUS
  <2> QED
    BY <2>1, <2>2 DEF LeadingAt
<1> QED
  BY <1>1, <1>2

LEMMA PrefixLeads ==
  ASSUME NEW s \in Seq(Node), NEW n \in Node
  PROVE  LeadingAt(<<n>> \o s, s, n, mode)
<1>1. \A i \in 1..0 : mode[s[i]] # "data"
  OBVIOUS
<1> QED
  BY <1>1, PrefixInserts DEF LeadingAt

LEMMA LeadingType ==
  ASSUME NEW s, NEW n, NEW u, LeadingAt(u, s, n, mode)
  PROVE  u \in Seq(Node)
BY DEF LeadingAt, InsertedAt

\* The step changes an object's flag or its place in a struct, and no list.
LEMMA ListsAlone ==
  ASSUME IInv, TypeOK', UNCHANGED <<list, tail, mode, given, age>>
  PROVE  IInv'
BY DEF IInv, Lists, Allocated, Apart, Aged, Led, LastGiven, Once

LEMMA EncodeLists ==
  ASSUME IInv, NEW o \in Obj, NEW n \in Node, Encode(o, n)
  PROVE  /\ list[o] = <<>> => list' = list
         /\ list[o] # <<>> => /\ list' = [list EXCEPT ![o] = Inserted(list[o], n)]
                             /\ LeadingAt(list'[o], list[o], n, mode)
         /\ UNCHANGED <<tail, given>> /\ list' \in [Obj -> Seq(Node)]
<1>1. list \in [Obj -> Seq(Node)] /\ tail \in [Obj -> Node \cup {NULL}]
  BY DEF IInv, TypeOK
<1>2. UNCHANGED <<tail, given>>
  BY <1>1 DEF Encode, TailKept
<1>3. list[o] = <<>> => list' = list
  BY DEF Encode
<1>4. ASSUME list[o] # <<>>
      PROVE  /\ list' = [list EXCEPT ![o] = Inserted(list[o], n)]
             /\ LeadingAt(list'[o], list[o], n, mode)
  <2>1. list' = [list EXCEPT ![o] = Inserted(list[o], n)]
    BY <1>4 DEF Encode
  <2>2. list'[o] = Inserted(list[o], n)
    BY <1>1, <2>1
  <2> QED
    BY <1>1, <1>4, <2>1, <2>2, InsertedLeads
<1>5. ASSUME list[o] # <<>> PROVE list' \in [Obj -> Seq(Node)]
  <2>1. Inserted(list[o], n) \in Seq(Node)
    BY <1>1, <1>5, InsertedLeads, LeadingType
  <2> QED
    BY <1>1, <1>4, <1>5, <2>1
<1> QED
  BY <1>1, <1>2, <1>3, <1>4, <1>5

LEMMA EncodeKeeps ==
  ASSUME IInv, NEW o \in Obj, NEW n \in Node, Encode(o, n), TypeOK'
  PROVE  IInv'
<1> DEFINE h == [p \in Obj |-> IF p = o /\ list[o] # <<>> THEN n ELSE NULL]
<1>1. mode \in [Node -> Modes \cup {Free}] /\ age \in [Node -> Nat] /\ list \in [Obj -> Seq(Node)]
  BY DEF IInv, TypeOK
<1>2. mode[n] = Free /\ mode' = [mode EXCEPT ![n] = "FNC1SECOND"] /\ age' = [age EXCEPT ![n] = 0]
  BY DEF Encode
<1>3. h \in [Obj -> Node \cup {NULL}]
  OBVIOUS
<1>4. \A p, x \in Obj : p # x /\ h[p] # NULL => h[p] # h[x]
  BY NodeAssumption
<1>5. \A e \in Node : mode[e] # Free => mode'[e] = mode[e] /\ age'[e] = age[e]
  BY <1>1, <1>2
<1>6. \A p \in Obj : h[p] = NULL => list'[p] = list[p]
  BY <1>1, EncodeLists, NodeAssumption
<1>7. ASSUME NEW p \in Obj, h[p] # NULL
      PROVE  /\ mode[h[p]] = Free /\ mode'[h[p]] \notin {Free, "data"} /\ age'[h[p]] = 0
             /\ LeadingAt(list'[p], list[p], h[p], mode)
  <2>1. p = o /\ list[o] # <<>> /\ h[p] = n
    BY <1>7
  <2>2. mode'[n] = "FNC1SECOND" /\ age'[n] = 0
    BY <1>1, <1>2
  <2> HIDE DEF h
  <2> QED
    BY <1>2, <2>1, <2>2, EncodeLists DEF Free
<1>8. UNCHANGED <<tail, given>>
  BY EncodeLists
<1> HIDE DEF h
<1> QED
  BY <1>3, <1>4, <1>5, <1>6, <1>7, <1>8, HeadersKeep

LEMMA InsertHeadersKeeps ==
  ASSUME IInv, NEW k \in 1..Len(members), NEW new \in [1..k -> Node], InsertHeaders(new), TypeOK'
  PROVE  IInv'
<1> DEFINE at(o) == CHOOSE i \in DOMAIN new : members[i] = o
           has(o) == \E i \in DOMAIN new : members[i] = o
           h == [o \in Obj |-> IF has(o) THEN new[at(o)] ELSE NULL]
<1>1. /\ mode \in [Node -> Modes \cup {Free}] /\ age \in [Node -> Nat] /\ list \in [Obj -> Seq(Node)]
      /\ k \in Nat
  BY DEF IInv, TypeOK
<1>2. /\ \A i \in 1..k : mode[new[i]] = Free /\ \A j \in 1..i - 1 : new[i] # new[j]
      /\ mode' = [n \in Node |-> IF n \in Elements(new) THEN "STRUCTURE" ELSE mode[n]]
      /\ age' = [n \in Node |-> IF n \in Elements(new) THEN 0 ELSE age[n]]
      /\ UNCHANGED <<tail, given>>
  BY DEF InsertHeaders
<1>3. list' = [o \in Obj |-> IF has(o) THEN <<new[at(o)]>> \o list[o] ELSE list[o]]
  BY DEF InsertHeaders, Prefixed
<1>4. ASSUME NEW i \in 1..k, NEW j \in 1..k, i # j PROVE new[i] # new[j]
  <2>1. i \in 1..j - 1 \/ j \in 1..i - 1
    BY <1>1, <1>4
  <2> QED
    BY <1>2, <2>1
<1>5. ASSUME NEW o \in Obj, has(o)
      PROVE  at(o) \in 1..k /\ members[at(o)] = o /\ new[at(o)] \in Node /\ new[at(o)] # NULL
  BY <1>5, NodeAssumption
<1>6. h \in [Obj -> Node \cup {NULL}]
  BY <1>5
<1>7. ASSUME NEW o \in Obj, NEW p \in Obj, o # p, h[o] # NULL PROVE h[o] # h[p]
  <2>1. has(o) /\ h[o] = new[at(o)]
    BY <1>7
  <2>2. CASE has(p)
    <3>1. h[p] = new[at(p)]
      BY <2>2
    <3> HIDE DEF h, has, at
    <3>2. at(o) # at(p)
      BY <1>5, <1>7, <2>1, <2>2
    <3> QED
      BY <1>4, <1>5, <2>1, <2>2, <3>1, <3>2
  <2>3. CASE ~has(p)
    BY <1>7, <2>3
  <2> QED
    BY <2>2, <2>3
<1>8. \A n \in Node : mode[n] # Free => mode'[n] = mode[n] /\ age'[n] = age[n]
  BY <1>2 DEF Elements
<1>9. \A o \in Obj : h[o] = NULL => list'[o] = list[o]
  BY <1>3, <1>5
<1>10. ASSUME NEW o \in Obj, h[o] # NULL
       PROVE  /\ mode[h[o]] = Free /\ mode'[h[o]] \notin {Free, "data"} /\ age'[h[o]] = 0
              /\ LeadingAt(list'[o], list[o], h[o], mode)
  <2>1. has(o) /\ h[o] = new[at(o)] /\ list'[o] = <<new[at(o)]>> \o list[o]
    BY <1>3, <1>10
  <2> HIDE DEF h, has, at
  <2>2. at(o) \in 1..k /\ new[at(o)] \in Node /\ new[at(o)] \in Elements(new)
    BY <1>5, <2>1 DEF Elements
  <2>3. mode[h[o]] = Free /\ mode'[h[o]] = "STRUCTURE" /\ age'[h[o]] = 0
    BY <1>2, <2>1, <2>2
  <2>4. LeadingAt(list'[o], list[o], h[o], mode)
    BY <1>1, <2>1, <2>2, PrefixLeads
  <2> QED
    BY <2>3, <2>4 DEF Free
<1>11. UNCHANGED <<tail, given>>
  BY <1>2
<1> HIDE DEF h, has, at
<1> QED
  BY <1>6, <1>7, <1>8, <1>9, <1>10, <1>11, HeadersKeep
-----------------------------------------------------------------------------
LEMMA InitIInv == Init => IInv
<1> SUFFICES ASSUME Init PROVE IInv
  OBVIOUS
<1>1. TypeOK
  <2>1. list \in [Obj -> Seq(Node)] /\ members \in Seq(Obj)
    <3>1. <<>> \in Seq(Node)
      OBVIOUS
    <3> QED
      BY <3>1 DEF Init
  <2>2. mode \in [Node -> Modes \cup {Free}] /\ tail \in [Obj -> Node \cup {NULL}]
    BY DEF Init
  <2>3. live \in [Obj -> BOOLEAN] /\ mqr \in [Obj -> BOOLEAN] /\ crashed \in BOOLEAN
    BY Zenon DEF Init
  <2>4. fnc1 \in [Obj -> 0..2] /\ given \in [Obj -> Nat] /\ age \in [Node -> Nat]
    BY DEF Init
  <2> QED
    BY <2>1, <2>2, <2>3, <2>4 DEF TypeOK
<1>2. \A o \in Obj : list[o] = <<>> /\ DOMAIN list[o] = {} /\ tail[o] = NULL /\ given[o] = 0
  BY DEF Init
<1>3. Lists
  BY <1>2 DEF Lists, Once, Aged, Led, LastGiven
<1>4. Allocated /\ Apart
  BY <1>2 DEF Allocated, Apart, Elements
<1> QED
  BY <1>1, <1>3, <1>4 DEF IInv

LEMMA FreeTypes ==
  ASSUME IInv, NEW os \in SUBSET Obj, FreeObjects(os), members' \in Seq(Obj)
  PROVE  TypeOK'
<1>1. TypeOK
  BY DEF IInv
<1>2. /\ live' \in [Obj -> BOOLEAN] /\ mqr' \in [Obj -> BOOLEAN] /\ fnc1' \in [Obj -> 0..2]
      /\ tail' \in [Obj -> Node \cup {NULL}] /\ given' \in [Obj -> Nat] /\ crashed' \in BOOLEAN
  BY <1>1 DEF FreeObjects, TypeOK
<1>3. list' \in [Obj -> Seq(Node)]
  BY <1>1 DEF FreeObjects, TypeOK
<1>4. mode' \in [Node -> Modes \cup {Free}] /\ age' \in [Node -> Nat]
  BY <1>1 DEF FreeObjects, TypeOK
<1> QED
  BY <1>2, <1>3, <1>4 DEF TypeOK

LEMMA AppendTypes ==
  ASSUME IInv, NEW o \in Obj, NEW m \in UserModes, NEW n \in Node, QRinput_append(o, m, n)
  PROVE  TypeOK'
<1>1. TypeOK
  BY DEF IInv
<1>2. ASSUME tail[o] # NULL PROVE UpTo(list[o], tail[o]) \o <<n>> \in Seq(Node)
  BY <1>2, OneList, UpToAppends DEF AppendedAt, LastGiven
<1>3. list' \in [Obj -> Seq(Node)]
  <2>1. \E s \in Seq(Node) : list' = [list EXCEPT ![o] = s]
    <3>1. CASE tail[o] = NULL
      <4>1. <<n>> \in Seq(Node) /\ list' = [list EXCEPT ![o] = <<n>>]
        BY <3>1 DEF QRinput_append
      <4> QED
        BY <4>1
    <3>2. CASE tail[o] # NULL
      <4>1. list' = [list EXCEPT ![o] = UpTo(list[o], tail[o]) \o <<n>>]
        BY <3>2 DEF QRinput_append
      <4> QED
        BY <1>2, <3>2, <4>1
    <3> QED
      BY <3>1, <3>2
  <2> QED
    BY <1>1, <2>1 DEF TypeOK
<1>4. given' \in [Obj -> Nat]
  BY <1>1 DEF TypeOK, QRinput_append
<1>5. age' \in [Node -> Nat]
  BY <1>1, <1>4 DEF TypeOK, QRinput_append
<1>6. mode' \in [Node -> Modes \cup {Free}] /\ tail' \in [Obj -> Node \cup {NULL}]
  BY <1>1 DEF TypeOK, QRinput_append, Modes
<1> QED
  BY <1>1, <1>3, <1>4, <1>5, <1>6 DEF TypeOK, QRinput_append

LEMMA EncodeTypes ==
  ASSUME IInv, NEW o \in Obj, NEW n \in Node, Encode(o, n)
  PROVE  TypeOK'
<1>1. TypeOK
  BY DEF IInv
<1>2. list' \in [Obj -> Seq(Node)] /\ tail' = tail
  BY EncodeLists
<1>3. mode' \in [Node -> Modes \cup {Free}] /\ age' \in [Node -> Nat] /\ crashed' \in BOOLEAN
  BY <1>1 DEF TypeOK, Encode, Modes
<1> QED
  BY <1>1, <1>2, <1>3 DEF TypeOK, Encode

LEMMA InsertHeadersTypes ==
  ASSUME IInv, NEW k \in 1..Len(members), NEW new \in [1..k -> Node], InsertHeaders(new)
  PROVE  TypeOK'
<1>1. TypeOK
  BY DEF IInv
<1>2. list' \in [Obj -> Seq(Node)]
  <2>1. \A n \in Node, s \in Seq(Node) : <<n>> \o s \in Seq(Node)
    OBVIOUS
  <2> DEFINE at(o) == CHOOSE i \in DOMAIN new : members[i] = o
             has(o) == \E i \in DOMAIN new : members[i] = o
  <2>2. list' = [o \in Obj |-> IF has(o) THEN <<new[at(o)]>> \o list[o] ELSE list[o]]
    BY DEF InsertHeaders, Prefixed
  <2>3. \A o \in Obj : has(o) => new[at(o)] \in Node
    OBVIOUS
  <2>4. \A o \in Obj : list[o] \in Seq(Node)
    BY <1>1 DEF TypeOK
  <2> HIDE DEF at, has
  <2> QED
    BY <2>1, <2>2, <2>3, <2>4
<1>3. mode' \in [Node -> Modes \cup {Free}] /\ age' \in [Node -> Nat]
  BY <1>1 DEF TypeOK, InsertHeaders, Modes
<1> QED
  BY <1>1, <1>2, <1>3 DEF TypeOK, InsertHeaders

(* Every operation keeps the invariant.                                     *)
LEMMA Inductive == IInv /\ [Next]_vars => IInv'
<1> SUFFICES ASSUME IInv, [Next]_vars PROVE IInv'
  OBVIOUS
<1>1. TypeOK
  BY DEF IInv
<1>2. ASSUME NEW o \in Obj, NEW micro \in BOOLEAN, New(o, micro) PROVE IInv'
  <2>1. TypeOK'
    BY <1>1, <1>2 DEF TypeOK, New
  <2> QED
    BY <1>2, <2>1, ListsAlone DEF New
<1>3. ASSUME NEW o \in Obj, NEW m \in UserModes, NEW n \in Node, QRinput_append(o, m, n) PROVE IInv'
  BY <1>3, AppendTypes, AppendKeeps
<1>4. ASSUME NEW o \in Obj, QRinput_setFNC1First(o) PROVE IInv'
  <2>1. TypeOK'
    BY <1>1, <1>4 DEF TypeOK, QRinput_setFNC1First
  <2> QED
    BY <1>4, <2>1, ListsAlone DEF QRinput_setFNC1First
<1>5. ASSUME NEW o \in Obj, QRinput_setFNC1Second(o, 97) PROVE IInv'
  <2>1. TypeOK'
    BY <1>1, <1>5 DEF TypeOK, QRinput_setFNC1Second
  <2> QED
    BY <1>5, <2>1, ListsAlone DEF QRinput_setFNC1Second
<1>6. ASSUME NEW o \in Obj, NEW n \in Node, Encode(o, n) PROVE IInv'
  BY <1>6, EncodeTypes, EncodeKeeps
<1>7. ASSUME NEW o \in Obj, QRinput_free(o) PROVE IInv'
  <2>1. FreeObjects({o}) /\ members' \in Seq(Obj)
    BY <1>1, <1>7 DEF TypeOK, QRinput_free
  <2> QED
    BY <2>1, FreeTypes, FreeKeeps
<1>8. ASSUME NEW o \in Obj, QRinput_Struct_appendInput(o) PROVE IInv'
  <2>1. members' \in Seq(Obj)
    BY <1>1, <1>8 DEF TypeOK, QRinput_Struct_appendInput
  <2>2. TypeOK'
    BY <1>1, <1>8, <2>1 DEF TypeOK, QRinput_Struct_appendInput
  <2> QED
    BY <1>8, <2>2, ListsAlone DEF QRinput_Struct_appendInput
<1>9. ASSUME NEW k \in 1..Len(members), NEW new \in [1..k -> Node], InsertHeaders(new) PROVE IInv'
  BY <1>9, InsertHeadersTypes, InsertHeadersKeeps
<1>10. ASSUME QRinput_Struct_free PROVE IInv'
  <2>1. Owned \in SUBSET Obj
    BY <1>1 DEF TypeOK, Owned, Elements
  <2>2. FreeObjects(Owned) /\ members' \in Seq(Obj)
    BY <1>10 DEF QRinput_Struct_free
  <2> QED
    BY <2>1, <2>2, FreeTypes, FreeKeeps
<1>11. ASSUME UNCHANGED vars PROVE IInv'
  BY <1>1, <1>11, ListsAlone DEF vars, TypeOK
<1> QED
  BY <1>2, <1>3, <1>4, <1>5, <1>6, <1>7, <1>8, <1>9, <1>10, <1>11 DEF Next

LEMMA Always == Spec => []IInv
BY InitIInv, Inductive, PTL DEF Spec

(* The objects and the memory of the chunks keep their types.               *)
THEOREM TypeCorrect == Spec => []TypeOK
<1>1. IInv => TypeOK
  BY DEF IInv
<1> QED
  BY <1>1, Always, PTL

(* An encode finds all the user appended, once and in order: an append      *)
(* behind a tail that headers have left stale cuts off headers only.        *)
THEOREM KeepsData == Spec => []DataIntact
<1>1. IInv => DataIntact
  BY DEF IInv, Lists, Aged, DataIntact
<1> QED
  BY <1>1, Always, PTL

(* No chunk is in two places of the lists or in one after its free, and an  *)
(* append writes through a tail that its own list still reaches.            *)
THEOREM OwnsChunks == Spec => []ChunksOwned
<1>1. ASSUME IInv PROVE ChunksOwned
  <2>1. ASSUME NEW o \in Obj PROVE tail[o] = NULL \/ tail[o] \in Elements(list[o])
    BY <1>1, OneList DEF LastGiven
  <2>2. ASSUME NEW o \in Obj, NEW i \in DOMAIN list[o]
        PROVE  /\ mode[list[o][i]] # Free
               /\ \A p \in Obj : \A j \in DOMAIN list[p] : list[o][i] = list[p][j] => o = p /\ i = j
    <3>1. mode[list[o][i]] # Free
      BY <1>1 DEF IInv, Allocated, Elements
    <3>2. ASSUME NEW p \in Obj, NEW j \in DOMAIN list[p], list[o][i] = list[p][j] PROVE o = p /\ i = j
      <4>1. list[o][i] \in Elements(list[o]) /\ list[o][i] \in Elements(list[p])
        BY <3>2 DEF Elements
      <4>2. o = p
        BY <1>1, <4>1 DEF IInv, Apart
      <4> QED
        BY <1>1, <3>2, <4>2, OneList DEF Once
    <3> QED
      BY <3>1, <3>2
  <2> QED
    BY <2>1, <2>2 DEF ChunksOwned
<1>2. IInv => ChunksOwned
  BY <1>1
<1> QED
  BY <1>2, Always, PTL

(* Whatever inserts a header inserts it in front of all data.               *)
THEOREM HeadersFirst == Spec => []HeadersLead
<1>1. IInv => HeadersLead
  BY DEF IInv, Lists, Led, HeadersLead
<1> QED
  BY <1>1, Always, PTL
=============================================================================
