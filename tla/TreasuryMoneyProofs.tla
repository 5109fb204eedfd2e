------------------------- MODULE TreasuryMoneyProofs -------------------------
(***************************************************************************)
(* The treasury's accounts: its sliding windows, its net exposure and its  *)
(* results agree with the money that moved, for every configuration, every *)
(* number of markets and every amount.                                     *)
(***************************************************************************)
EXTENDS TreasuryProofs

-----------------------------------------------------------------------------
(* Rings of buckets.                                                       *)

RingShape(w, n) ==
    w \in [head : Nat, idx : 0 .. n - 1, amounts : [0 .. n - 1 -> Int]]

Recent(h, n) == h - n + 1 .. h

(* The buckets hold the n most recent periods, each one once.              *)
LEMMA RingPeriods ==
    ASSUME NEW n \in Nat \ {0}, NEW w, RingShape(w, n)
    PROVE  /\ \A i \in 0 .. n - 1 : RingPeriod(w, n, i) \in Recent(w.head, n)
           /\ \A i, j \in 0 .. n - 1 :
                 RingPeriod(w, n, i) = RingPeriod(w, n, j) => i = j
           /\ \A p \in Recent(w.head, n) :
                 \E i \in 0 .. n - 1 : RingPeriod(w, n, i) = p
           /\ RingPeriod(w, n, w.idx) = w.head
<1>1. PICK h \in Nat, x \in 0 .. n - 1 : h = w.head /\ x = w.idx
  BY DEF RingShape
<1>2. \A i \in 0 .. n - 1 :
          RingPeriod(w, n, i) = h - x + i - (IF i <= x THEN 0 ELSE n)
  BY <1>1 DEF RingPeriod
<1>3. \A i \in 0 .. n - 1 : RingPeriod(w, n, i) \in Recent(w.head, n)
  BY <1>1, <1>2 DEF Recent
<1>4. ASSUME NEW i \in 0 .. n - 1, NEW j \in 0 .. n - 1,
             RingPeriod(w, n, i) = RingPeriod(w, n, j)
      PROVE  i = j
  BY <1>2, <1>4
<1>5. ASSUME NEW p \in Recent(w.head, n)
      PROVE  \E i \in 0 .. n - 1 : RingPeriod(w, n, i) = p
  <2>1. p \in Int /\ h - n + 1 <= p /\ p <= h
    BY <1>1 DEF Recent
  <2>2. CASE p - h + x >= 0
    <3>1. PICK i \in 0 .. n - 1 : i = p - h + x /\ i <= x
      BY <2>1, <2>2
    <3>2. RingPeriod(w, n, i) = p
      BY <1>2, <2>1, <3>1
    <3> QED
      BY <3>2
  <2>3. CASE p - h + x < 0
    <3>1. PICK i \in 0 .. n - 1 : i = p - h + x + n /\ ~(i <= x)
      BY <2>1, <2>3
    <3>2. RingPeriod(w, n, i) = p
      BY <1>2, <2>1, <3>1
    <3> QED
      BY <3>2
  <2> QED
    BY <2>1, <2>2, <2>3
<1> QED
  BY <1>1, <1>2, <1>3, <1>4, <1>5

LEMMA RingTotal ==
    ASSUME NEW n \in Nat \ {0}, NEW w, NEW f, Counts(w, n, f)
    PROVE  RingSum(w) = SumFunctionOnSet(f, Recent(w.head, n))
<1>1. RingShape(w, n)
  BY DEF Counts, RingShape
<1> DEFINE h == [i \in 0 .. n - 1 |-> RingPeriod(w, n, i)]
<1>2. \A i \in 0 .. n - 1 : /\ h[i] \in Recent(w.head, n)
                            /\ w.amounts[i] \in Int /\ w.amounts[i] = f[h[i]]
  BY <1>1, RingPeriods DEF Counts, RingShape
<1>3. \A i, j \in 0 .. n - 1 : h[i] = h[j] => i = j
  BY <1>1, RingPeriods
<1>4. \A p \in Recent(w.head, n) : \E i \in 0 .. n - 1 : h[i] = p
  BY <1>1, RingPeriods
<1>5. IsFiniteSet(0 .. n - 1) /\ IsFiniteSet(Recent(w.head, n))
  <2>1. PICK u \in Int, v \in Int, z \in Int :
            u = w.head /\ v = w.head - n + 1 /\ z = n - 1
    BY <1>1 DEF RingShape
  <2>2. IsFiniteSet(v .. u) /\ IsFiniteSet(0 .. z)
    BY FS_Interval
  <2>3. Recent(w.head, n) = v .. u /\ 0 .. n - 1 = 0 .. z
    BY <2>1 DEF Recent
  <2> QED
    BY <2>2, <2>3, Zenon
<1>6. SumFunctionOnSet(w.amounts, 0 .. n - 1)
          = SumFunctionOnSet(f, Recent(w.head, n))
  <2> DEFINE S == 0 .. n - 1
             T == Recent(w.head, n)
  <2>1. /\ \A x \in S : /\ h[x] \in T /\ w.amounts[x] \in Int
                         /\ w.amounts[x] = f[h[x]]
        /\ \A x, y \in S : h[x] = h[y] => x = y
        /\ \A p \in T : \E x \in S : h[x] = p
        /\ IsFiniteSet(S) /\ IsFiniteSet(T)
    BY <1>2, <1>3, <1>4, <1>5, Zenon
  <2> HIDE DEF S, T, h
  <2>2. SumFunctionOnSet(w.amounts, S) = SumFunctionOnSet(f, T)
    BY <2>1, SumRenamed
  <2> QED
    BY <2>2 DEF S, T
<1>7. DOMAIN w.amounts = 0 .. n - 1
  BY <1>1 DEF RingShape
<1> QED
  BY <1>6, <1>7, SumDomain DEF RingSum

(* advance(): the ring still counts f, which says nothing of the periods   *)
(* after its head.                                                         *)
LEMMA AdvanceCounts ==
    ASSUME NEW n \in Nat \ {0}, NEW w, NEW f, Counts(w, n, f),
           NEW t \in Nat, \A p \in Int : p > w.head => f[p] = 0
    PROVE  /\ Counts(Advance(w, t, n), n, f)
           /\ Advance(w, t, n).head = MaxOf(t, w.head)
<1>1. PICK h \in Nat, x \in 0 .. n - 1 :
          h = w.head /\ x = w.idx /\ w.amounts \in [0 .. n - 1 -> Int]
  BY DEF Counts
<1>2. CASE t <= h
  BY <1>1, <1>2 DEF Advance, MaxOf
<1>3. CASE t > h
  <2> DEFINE s == MinOf(t - w.head, n)
             passed == {(w.idx + k) % n : k \in 1 .. s}
             y == (w.idx + s) % n
             v == [head |-> t, idx |-> y,
                   amounts |-> [i \in 0 .. n - 1 |->
                                   IF i \in passed THEN 0 ELSE w.amounts[i]]]
  <2>1. Advance(w, t, n) = v
    <3>1. ~(t <= w.head) /\ DOMAIN w.amounts = 0 .. n - 1
      BY <1>1, <1>3
    <3> QED
      BY <3>1, Zenon DEF Advance
  <2>2. /\ s \in 1 .. n /\ s <= t - h /\ (s < n => s = t - h)
        /\ x + s \in Nat
    BY <1>1, <1>3, SMTT(30) DEF MinOf
  <2>3. y = IF x + s < n THEN x + s ELSE x + s - n
    <3>1. \A k \in 0 .. n : (x + k) % n = IF x + k < n THEN x + k
                                          ELSE x + k - n
      BY ShortStep
    <3>2. y = (x + s) % n
      BY <1>1
    <3> HIDE DEF s, y
    <3>3. s \in 0 .. n
      BY <2>2
    <3> QED
      BY <3>1, <3>2, <3>3
  <2>4. \A i \in 0 .. n - 1 :
            i \in passed <=> \E k \in 1 .. s : i = (IF x + k < n THEN x + k
                                                   ELSE x + k - n)
    <3>1. \A k \in 0 .. n : (x + k) % n = IF x + k < n THEN x + k
                                          ELSE x + k - n
      BY ShortStep
    <3>2. passed = {(x + k) % n : k \in 1 .. s}
      BY <1>1
    <3> HIDE DEF s, passed
    <3>3. \A k \in 1 .. s : k \in 0 .. n
      BY <2>2
    <3> QED
      BY <3>1, <3>2, <3>3
  <2> HIDE DEF s, passed, y
  <2>5. y \in 0 .. n - 1
    BY <2>2, <2>3
  <2>6. v \in [head : Nat, idx : 0 .. n - 1, amounts : [0 .. n - 1 -> Int]]
    BY <1>1, <2>5
  <2>7. ASSUME NEW i \in 0 .. n - 1 PROVE v.amounts[i] = f[RingPeriod(v, n, i)]
    <3> DEFINE old == h - x + i - (IF i <= x THEN 0 ELSE n)
               new == t - y + i - (IF i <= y THEN 0 ELSE n)
    <3>1. RingPeriod(w, n, i) = old /\ RingPeriod(v, n, i) = new
      BY <1>1 DEF RingPeriod
    <3>2. old \in Int /\ new \in Int
      BY <1>1, <2>5, SMTT(30)
    <3>3. CASE i \in passed
      <4>1. PICK k \in 1 .. s : i = IF x + k < n THEN x + k ELSE x + k - n
        BY <2>4, <3>3
      <4>2. new > h
        <5> DEFINE d == s - k
        <5>1. d \in 0 .. s - 1 /\ d < n
          BY <2>2
        <5>2. i <= y => y - i = d \/ y - i = d - n
          BY <2>2, <2>3, <4>1
        <5>3. ~(i <= y) => y - i + n = d \/ y - i + n = d + n
          BY <2>2, <2>3, <4>1
        <5>4. new = t - d \/ new = t - d + n \/ new = t - d - n
          BY <2>5, <5>1, <5>2, <5>3
        <5>5. new # t - d - n
          BY <2>2, <2>3, <2>5, <4>1, <5>1
        <5> QED
          BY <1>1, <1>3, <2>2, <5>1, <5>4, <5>5
      <4>3. f[new] = 0
        BY <1>1, <3>2, <4>2
      <4> QED
        BY <3>1, <3>3, <4>3
    <3>4. CASE i \notin passed
      <4>1. \A k \in 1 .. s : i # (IF x + k < n THEN x + k ELSE x + k - n)
        BY <2>4, <3>4
      <4>2. s < n
        <5>1. SUFFICES ASSUME s = n PROVE FALSE
          BY <2>2
        <5>2. CASE i > x
          <6>1. i - x \in 1 .. s /\ x + (i - x) = i
            BY <5>1, <5>2
          <6> QED
            BY <4>1, <6>1
        <5>3. CASE i <= x
          <6>1. i - x + n \in 1 .. s /\ x + (i - x + n) = i + n
            BY <5>1, <5>3
          <6> QED
            BY <4>1, <6>1
        <5> QED
          BY <5>2, <5>3
      <4>3. s = t - h
        BY <2>2, <4>2
      <4>4. ~(i - x \in 1 .. s)
        <5>1. ASSUME i - x \in 1 .. s PROVE FALSE
          <6>1. x + (i - x) = i
            OBVIOUS
          <6> QED
            BY <4>1, <5>1, <6>1
        <5> QED
          BY <5>1
      <4>5. ~(i - x + n \in 1 .. s)
        <5>1. ASSUME i - x + n \in 1 .. s PROVE FALSE
          <6>1. x + (i - x + n) = i + n
            OBVIOUS
          <6> QED
            BY <4>1, <5>1, <6>1
        <5> QED
          BY <5>1
      <4>6. i <= x => i - x + n > s
        <5>1. i <= x => i - x + n >= 1
          OBVIOUS
        <5> QED
          BY <2>2, <4>5, <5>1
      <4>7. ~(i <= x) => i - x > s
        BY <2>2, <4>4
      <4>8. new = old
        <5>1. CASE i <= x
          <6>1. x + s < n \/ i > x + s - n
            BY <2>2, <4>6, <5>1
          <6>2. CASE x + s < n
            BY <2>2, <2>3, <4>3, <5>1, <6>2
          <6>3. CASE ~(x + s < n)
            BY <2>2, <2>3, <4>3, <5>1, <6>1, <6>3
          <6> QED
            BY <6>2, <6>3
        <5>2. CASE ~(i <= x)
          <6>1. x + s < n /\ i > x + s
            BY <2>2, <4>7, <5>2
          <6> QED
            BY <2>2, <2>3, <4>3, <5>2, <6>1
        <5> QED
          BY <5>1, <5>2
      <4> QED
        BY <3>1, <3>4, <4>8 DEF Counts
    <3> QED
      BY <3>3, <3>4
  <2> HIDE DEF v
  <2>8. Counts(v, n, f)
    BY <2>6, <2>7 DEF Counts
  <2>9. v.head = MaxOf(t, w.head)
    BY <1>1, <1>3 DEF v, MaxOf
  <2> QED
    BY <2>1, <2>8, <2>9
<1> QED
  BY <1>1, <1>2, <1>3

(* g is f with a added to what it says of period p.                        *)
Raised(f, g, p, a) ==
    g[p] = f[p] + a /\ \A q \in Int : q # p => g[q] = f[q]

LEMMA AddCounts ==
    ASSUME NEW n \in Nat \ {0}, NEW w, NEW f, Counts(w, n, f),
           NEW a \in Int, NEW g, Raised(f, g, w.head, a)
    PROVE  Counts(AddToHead(w, a), n, g) /\ AddToHead(w, a).head = w.head
<1> DEFINE v == AddToHead(w, a)
<1>1. PICK h \in Nat, x \in 0 .. n - 1, m \in [0 .. n - 1 -> Int] :
          w = [head |-> h, idx |-> x, amounts |-> m]
  BY DEF Counts
<1>2. v = [head |-> h, idx |-> x, amounts |-> [m EXCEPT ![x] = @ + a]]
  <2>1. w.idx = x /\ w.amounts = m
    BY <1>1
  <2>2. v = [w EXCEPT !.amounts = [m EXCEPT ![x] = @ + a]]
    BY <2>1, Zenon DEF AddToHead
  <2> QED
    BY <1>1, <2>2
<1>3. RingShape(w, n)
  BY <1>1 DEF RingShape
<1>4. v \in [head : Nat, idx : 0 .. n - 1, amounts : [0 .. n - 1 -> Int]]
  BY <1>2
<1>5. ASSUME NEW i \in 0 .. n - 1 PROVE v.amounts[i] = g[RingPeriod(v, n, i)]
  <2>1. RingPeriod(v, n, i) = RingPeriod(w, n, i)
    BY <1>1, <1>2 DEF RingPeriod
  <2>2. m[i] = f[RingPeriod(w, n, i)]
    BY <1>1 DEF Counts
  <2>3. RingPeriod(w, n, i) \in Int
    BY <1>1 DEF RingPeriod
  <2>4. CASE i = x
    <3>1. RingPeriod(w, n, i) = w.head
      BY <1>1, <1>3, <2>4, RingPeriods
    <3> QED
      BY <1>2, <2>1, <2>2, <2>4, <3>1 DEF Raised
  <2>5. CASE i # x
    <3>1. RingPeriod(w, n, i) # w.head
      BY <1>1, <2>5 DEF RingPeriod
    <3> QED
      BY <1>2, <2>1, <2>2, <2>3, <2>5, <3>1 DEF Raised
  <2> QED
    BY <2>4, <2>5
<1>6. v.head = w.head
  BY <1>1, <1>2
<1> HIDE DEF v
<1>7. Counts(v, n, g) /\ v.head = w.head
  BY <1>4, <1>5, <1>6 DEF Counts
<1> QED
  BY <1>7 DEF v

(* A ring that counts f but for the periods in D counts some g that is f   *)
(* everywhere else; and back.                                              *)
LEMMA BlurredRing ==
    ASSUME NEW n \in Nat \ {0}, NEW w, NEW f, NEW D, CountsExcept(w, n, f, D),
           \A p \in Int : f[p] \in Int,
           \A p \in Int \ D : p > w.head => f[p] = 0
    PROVE  \E g \in [Int -> Int] :
              /\ Counts(w, n, g) /\ \A p \in Int \ D : g[p] = f[p]
              /\ \A p \in Int : p > w.head => g[p] = 0
<1> DEFINE P(i) == RingPeriod(w, n, i)
           Held1(p) == \E i \in 0 .. n - 1 : P(i) = p
           At(p) == CHOOSE i \in 0 .. n - 1 : P(i) = p
           g == [p \in Int |-> IF p \notin D THEN f[p]
                               ELSE IF Held1(p) THEN w.amounts[At(p)] ELSE 0]
<1>1. RingShape(w, n)
  BY DEF CountsExcept, RingShape
<1>2. w.head \in Nat /\ w.amounts \in [0 .. n - 1 -> Int]
  BY <1>1 DEF RingShape
<1>3. ASSUME NEW i \in 0 .. n - 1
      PROVE  P(i) \in Int /\ P(i) <= w.head /\ At(P(i)) = i
  <2>1. P(i) \in w.head - n + 1 .. w.head
    BY <1>1, RingPeriods DEF Recent
  <2>2. P(i) \in Int /\ P(i) <= w.head
    BY <1>2, <2>1
  <2>3. \A j \in 0 .. n - 1 : P(j) = P(i) => j = i
    BY <1>1, RingPeriods
  <2> HIDE DEF P
  <2>4. At(P(i)) = i
    BY <2>3
  <2> QED
    BY <2>2, <2>4
<1>4. \A i \in 0 .. n - 1 : P(i) \in D \/ w.amounts[i] = f[P(i)]
  BY DEF CountsExcept
<1> HIDE DEF P
<1>5. ASSUME NEW p \in Int PROVE Held1(p) => At(p) \in 0 .. n - 1
  OBVIOUS
<1> HIDE DEF At
<1>6. g \in [Int -> Int]
  BY <1>2, <1>5
<1>7. ASSUME NEW i \in 0 .. n - 1 PROVE w.amounts[i] = g[P(i)]
  <2>1. Held1(P(i)) /\ At(P(i)) = i /\ P(i) \in Int
    BY <1>3
  <2> QED
    BY <1>4, <2>1
<1>8. ASSUME NEW p \in Int, p > w.head PROVE g[p] = 0
  <2>1. ~Held1(p)
    BY <1>2, <1>3, <1>8
  <2> QED
    BY <1>8, <2>1
<1>9. \A p \in Int \ D : g[p] = f[p]
  OBVIOUS
<1> HIDE DEF g
<1>10. Counts(w, n, g)
  BY <1>1, <1>7 DEF Counts, RingShape, P
<1> QED
  BY <1>6, <1>8, <1>9, <1>10

LEMMA CountsOutside ==
    ASSUME NEW n \in Nat \ {0}, NEW w, NEW g, NEW f, NEW D, Counts(w, n, g),
           \A p \in Int \ D : g[p] = f[p]
    PROVE  CountsExcept(w, n, f, D)
<1>1. ASSUME NEW i \in 0 .. n - 1
      PROVE  \/ RingPeriod(w, n, i) \in D
             \/ w.amounts[i] = f[RingPeriod(w, n, i)]
  <2>1. RingPeriod(w, n, i) \in Int
    BY DEF Counts, RingPeriod
  <2>2. w.amounts[i] = g[RingPeriod(w, n, i)]
    BY DEF Counts
  <2> QED
    BY <2>1, <2>2
<1> QED
  BY <1>1 DEF Counts, CountsExcept

-----------------------------------------------------------------------------
(* Hours and days.                                                         *)

LEMMA Periods ==
    ASSUME NEW c \in Nat \ {0}, NEW t \in Nat
    PROVE  /\ t \div c \in Nat
           /\ \A x \in Int : x <= t \div c <=> x * c <= t
<1>1. PICK q \in Nat, r \in Nat : q = t \div c /\ r < c /\ t = c * q + r
  BY Division
<1>2. ASSUME NEW x \in Int, x <= q PROVE x * c <= t
  <2>1. PICK d \in Nat : q = x + d
    BY <1>2
  <2>2. c * q = x * c + c * d /\ c * d \in Nat /\ x * c \in Int
    BY <2>1
  <2> QED
    BY <1>1, <2>2
<1>3. ASSUME NEW x \in Int, ~(x <= q) PROVE ~(x * c <= t)
  <2>1. PICK d \in Nat : x = q + 1 + d
    BY <1>3
  <2>2. x * c = c * q + c + c * d /\ c * d \in Nat /\ c * q \in Int
    BY <2>1
  <2> QED
    BY <1>1, <2>2
<1> QED
  BY <1>1, <1>2, <1>3

LEMMA Later ==
    ASSUME NEW c \in Nat \ {0}, NEW t \in Nat, NEW u \in Nat, t <= u
    PROVE  t \div c <= u \div c
<1>1. PICK q \in Nat : q = t \div c /\ q * c <= t
  BY Periods
<1>2. PICK m \in Int : m = q * c /\ m <= t
  BY <1>1
<1>3. m <= u
  BY <1>2
<1> QED
  BY <1>1, <1>2, <1>3, Periods

LEMMA DayPositive == DaySeconds \in Nat \ {0}
<1>1. PICK b \in Nat \ {0} : b = Buckets - 1
  BY TreasuryMathAssumption
<1>2. PICK s \in Nat \ {0} : s = BucketSeconds
  BY TreasuryMathAssumption
<1>3. b * s \in Nat /\ b * s # 0
  OBVIOUS
<1> QED
  BY <1>1, <1>2, <1>3 DEF DaySeconds

LEMMA Clocks ==
    ASSUME NEW t \in Nat, NEW u \in Nat, t <= u
    PROVE  /\ Hour(t) \in Nat /\ Hour(u) \in Nat /\ Hour(t) <= Hour(u)
           /\ Day(t) \in Nat /\ Day(u) \in Nat /\ Day(t) <= Day(u)
BY Later, Periods, DayPositive, TreasuryMathAssumption DEF Hour, Day

-----------------------------------------------------------------------------
(* What a set of records of spending adds up to.                           *)

Records(R) ==
    IsFiniteSet(R) /\ \A r \in R : r.at \in Nat /\ r.amount \in Nat

Amounts(R) == [r \in R |-> r.amount]
Hours(R) == [r \in R |-> Hour(r.at)]
Total(R) == SumFunctionOnSet(Amounts(R), R)

LEMMA FewerRecords ==
    ASSUME NEW R, Records(R), NEW T \in SUBSET R
    PROVE  /\ Records(T) /\ Total(T) = SumFunctionOnSet(Amounts(R), T)
           /\ Total(T) \in Nat
<1>1. Records(T)
  BY FS_Subset DEF Records
<1>2. \A r \in T : Amounts(T)[r] \in Nat /\ Amounts(T)[r] = Amounts(R)[r]
  BY <1>1 DEF Records, Amounts
<1>3. Total(T) = SumFunctionOnSet(Amounts(R), T)
  BY <1>1, <1>2, SumSame DEF Records, Total
<1>4. Total(T) \in Nat
  BY <1>1, <1>2, SumNat DEF Records, Total
<1> QED
  BY <1>1, <1>3, <1>4

LEMMA LessInTotal ==
    ASSUME NEW R, Records(R), NEW T \in SUBSET R
    PROVE  Total(T) <= Total(R)
<1>1. \A r \in R : Amounts(R)[r] \in Nat
  BY DEF Records, Amounts
<1>2. SumFunctionOnSet(Amounts(R), T) <= SumFunctionOnSet(Amounts(R), R)
  BY <1>1, SumFewer DEF Records
<1> QED
  BY <1>2, FewerRecords DEF Total

LEMMA OneMoreRecord ==
    ASSUME NEW R, Records(R), NEW r, r \notin R, r.at \in Nat, r.amount \in Nat
    PROVE  Records(R \cup {r}) /\ Total(R \cup {r}) = Total(R) + r.amount
<1>1. Records(R \cup {r})
  BY FS_AddElement DEF Records
<1>2. (R \cup {r}) \ {r} = R /\ R \subseteq R \cup {r}
  OBVIOUS
<1>3. \A x \in R \cup {r} : Amounts(R \cup {r})[x] \in Int
  BY <1>1 DEF Records, Amounts
<1>4. Amounts(R \cup {r})[r] = r.amount
  BY DEF Amounts
<1>5. PICK S : S = R \cup {r}
  OBVIOUS
<1>6. SumFunctionOnSet(Amounts(S), S)
          = r.amount + SumFunctionOnSet(Amounts(S), S \ {r})
  <2>1. /\ IsFiniteSet(S) /\ r \in S /\ Amounts(S)[r] = r.amount
        /\ \A x \in S : Amounts(S)[x] \in Int
    BY <1>1, <1>3, <1>4, <1>5 DEF Records
  <2> QED
    BY <2>1, SumTake
<1>7. Total(R) = SumFunctionOnSet(Amounts(S), R)
  BY <1>1, <1>2, <1>5, FewerRecords
<1>8. S \ {r} = R
  BY <1>2, <1>5
<1>9. Total(S) = r.amount + Total(R)
  BY <1>6, <1>7, <1>8, Zenon DEF Total
<1>10. Total(R) \in Nat
  BY FewerRecords
<1> QED
  BY <1>1, <1>5, <1>9, <1>10

Since(R, from) == {q \in R : q.at > from}
InHour(R, p) == {q \in R : Hour(q.at) = p}

LEMMA RecordsSum ==
    ASSUME NEW R, NEW from, NEW p \in Int
    PROVE  /\ SpentIn(R, from) = Total(Since(R, from))
           /\ SpentByHour(R)[p] = Total(InHour(R, p))
<1>1. ASSUME NEW S PROVE SumFunction([r \in S |-> r.amount]) = Total(S)
  BY SumDomain DEF Total, Amounts
<1>2. SpentIn(R, from) = SumFunction([r \in Since(R, from) |-> r.amount])
  BY Zenon DEF SpentIn, Since
<1>3. SpentByHour(R)[p] = SumFunction([r \in InHour(R, p) |-> r.amount])
  BY Zenon DEF SpentByHour, InHour
<1> QED
  BY <1>1, <1>2, <1>3, Zenon

InWindow(R, t) == {r \in R : Hour(r.at) > Hour(t) - Buckets}

(* A window that holds the records reports what was spent in the hours it  *)
(* spans.                                                                  *)
LEMMA WindowTotal ==
    ASSUME NEW R, Records(R), NEW w, NEW t \in Nat,
           Counts(w, Buckets, SpentByHour(R)), w.head <= Hour(t),
           \A r \in R : r.at <= t /\ Hour(r.at) <= w.head
    PROVE  Used(w, t) = Total(InWindow(R, t))
<1> DEFINE f == SpentByHour(R)
           v == Advance(w, Hour(t), Buckets)
           P == Recent(Hour(t), Buckets)
<1>1. Buckets \in Nat \ {0} /\ Hour(t) \in Nat /\ w.head \in Nat
  BY TreasuryMathAssumption, Clocks DEF Counts
<1>2. ASSUME NEW p \in Int, p > w.head PROVE f[p] = 0
  <2>1. \A q \in R : Hour(q.at) # p
    BY <1>1, <1>2, Clocks DEF Records
  <2>2. InHour(R, p) = {}
    BY <2>1 DEF InHour
  <2>3. Total({}) = 0
    BY SumEmpty DEF Total
  <2>4. f[p] = Total(InHour(R, p))
    BY RecordsSum
  <2> QED
    BY <2>2, <2>3, <2>4
<1>3. Counts(v, Buckets, f) /\ v.head = Hour(t)
  <2> HIDE DEF f
  <2>1. v.head = MaxOf(Hour(t), w.head) /\ Counts(v, Buckets, f)
    BY <1>1, <1>2, AdvanceCounts DEF f
  <2> QED
    BY <1>1, <2>1 DEF MaxOf
<1>4. Used(w, t) = SumFunctionOnSet(f, P)
  <2> HIDE DEF f, v
  <2>1. RingSum(v) = SumFunctionOnSet(f, Recent(v.head, Buckets))
    BY <1>1, <1>3, RingTotal
  <2> QED
    BY <1>3, <2>1 DEF Used, v
<1>5. IsFiniteSet(P) /\ P \subseteq Int
  <2>1. PICK x \in Int, y \in Int : x = Hour(t) /\ y = Hour(t) - Buckets + 1
    BY <1>1
  <2>2. P = y .. x
    BY <2>1 DEF Recent
  <2> QED
    BY <2>2, FS_Interval
<1>6. \A p \in P : f[p] = SumFunctionOnSet(Amounts(R), Class(Hours(R), R, p))
  <2> SUFFICES ASSUME NEW p \in P
               PROVE  f[p] = SumFunctionOnSet(Amounts(R), Class(Hours(R), R, p))
    OBVIOUS
  <2>1. f[p] = Total(InHour(R, p))
    BY <1>5, RecordsSum
  <2>2. /\ InHour(R, p) = Class(Hours(R), R, p)
        /\ Class(Hours(R), R, p) \subseteq R
    BY DEF Class, Hours, InHour
  <2>3. Total(Class(Hours(R), R, p))
            = SumFunctionOnSet(Amounts(R), Class(Hours(R), R, p))
    BY <2>2, FewerRecords
  <2> QED
    BY <2>1, <2>2, <2>3, Zenon
<1>7. SumFunctionOnSet(f, P)
          = SumFunctionOnSet(Amounts(R), Within(Hours(R), R, P))
  <2>1. \A r \in R : Amounts(R)[r] \in Int
    BY DEF Records, Amounts
  <2> DEFINE h == Hours(R)
             a == Amounts(R)
  <2>2. /\ IsFiniteSet(R) /\ IsFiniteSet(P) /\ \A r \in R : a[r] \in Int
        /\ \A p \in P : f[p] = SumFunctionOnSet(a, Class(h, R, p))
    BY <1>5, <1>6, <2>1, Zenon DEF Records
  <2> HIDE DEF f, P, a, h
  <2>3. SumFunctionOnSet(f, P) = SumFunctionOnSet(a, Within(h, R, P))
    BY <2>2, SumClasses
  <2> QED
    BY <2>3 DEF a, h
<1>8. Within(Hours(R), R, P) = InWindow(R, t)
  <2>1. ASSUME NEW r \in R
        PROVE  Hour(r.at) \in P <=> Hour(r.at) > Hour(t) - Buckets
    <3>1. Hour(r.at) \in Nat /\ Hour(r.at) <= Hour(t)
      BY Clocks DEF Records
    <3> QED
      BY <1>1, <3>1 DEF Recent
  <2> QED
    BY <2>1 DEF Within, Hours, InWindow
<1>9. Total(InWindow(R, t)) = SumFunctionOnSet(Amounts(R), InWindow(R, t))
  <2>1. InWindow(R, t) \subseteq R
    BY DEF InWindow
  <2> QED
    BY <2>1, FewerRecords
<1> QED
  BY <1>4, <1>7, <1>8, <1>9, Zenon

(* consume_window(): the window holds one record more.                     *)
LEMMA WindowConsumes ==
    ASSUME NEW R, Records(R), NEW w, NEW t \in Nat,
           Counts(w, Buckets, SpentByHour(R)), w.head <= Hour(t),
           \A r \in R : r.at <= t /\ Hour(r.at) <= w.head,
           NEW z, z \notin R, z.at = t, z.amount \in Nat
    PROVE  LET v == ConsumeWindow(w, t, z.amount)
               S == R \cup {z}
           IN  /\ Counts(v, Buckets, SpentByHour(S)) /\ v.head = Hour(t)
               /\ \A r \in S : Hour(r.at) <= v.head
<1> DEFINE f == SpentByHour(R)
           S == R \cup {z}
           g == SpentByHour(S)
           u == Advance(w, Hour(t), Buckets)
           v == AddToHead(u, z.amount)
<1>1. Buckets \in Nat \ {0} /\ Hour(t) \in Nat /\ w.head \in Nat
  BY TreasuryMathAssumption, Clocks DEF Counts
<1>2. ASSUME NEW p \in Int, p > w.head PROVE f[p] = 0
  <2>1. \A q \in R : Hour(q.at) # p
    BY <1>1, <1>2, Clocks DEF Records
  <2>2. InHour(R, p) = {}
    BY <2>1 DEF InHour
  <2>3. Total({}) = 0
    BY SumEmpty DEF Total
  <2>4. f[p] = Total(InHour(R, p))
    BY RecordsSum
  <2> QED
    BY <2>2, <2>3, <2>4
<1>3. Counts(u, Buckets, f) /\ u.head = Hour(t)
  <2> HIDE DEF f
  <2>1. u.head = MaxOf(Hour(t), w.head) /\ Counts(u, Buckets, f)
    BY <1>1, <1>2, AdvanceCounts DEF f
  <2> QED
    BY <1>1, <2>1 DEF MaxOf
<1>4. ASSUME NEW p \in Int
      PROVE  g[p] = IF p = Hour(t) THEN f[p] + z.amount ELSE f[p]
  <2> DEFINE A == InHour(R, p)
             B == InHour(S, p)
  <2>1. f[p] = Total(A) /\ g[p] = Total(B)
    BY RecordsSum
  <2>2. A \subseteq R /\ z \notin A
    BY DEF InHour
  <2>3. B = IF p = Hour(t) THEN A \cup {z} ELSE A
    BY DEF InHour
  <2> HIDE DEF A, B, f, g
  <2>4. Records(A)
    BY <2>2, FewerRecords
  <2>5. Total(A \cup {z}) = Total(A) + z.amount
    BY <2>2, <2>4, OneMoreRecord
  <2> QED
    BY <2>1, <2>3, <2>5
<1>5. Counts(v, Buckets, g) /\ v.head = Hour(t)
  <2> HIDE DEF f, g, u
  <2>1. Raised(f, g, u.head, z.amount) /\ z.amount \in Int
    BY <1>1, <1>3, <1>4 DEF Raised
  <2> QED
    BY <1>1, <1>3, <2>1, AddCounts
<1>6. \A r \in S : Hour(r.at) <= Hour(t)
  BY Clocks DEF Records
<1> QED
  BY <1>5, <1>6 DEF ConsumeWindow

-----------------------------------------------------------------------------
(* What the invariant says of the views.                                   *)

Held == TreasuryInv /\ MoneyInv

LEMMA HeldRecords ==
    ASSUME Held
    PROVE  /\ Records(hist.spent) /\ now \in Nat /\ Hour(now) \in Nat
           /\ \A a \in Agents : Records(SpentBy(a))
           /\ \A r \in hist.spent : r.at <= now /\ r.agent \in Agents
<1>1. now \in Nat /\ Hour(now) \in Nat
  BY Clocks DEF Held, TreasuryInv, GovInv, GovTypes
<1>2. /\ Records(hist.spent)
      /\ \A r \in hist.spent : r.at <= now /\ r.agent \in Agents
  BY DEF Held, MoneyInv, SpendingNumbered, Records
<1>3. \A a \in Agents : SpentBy(a) \subseteq hist.spent
  BY DEF SpentBy
<1> QED
  BY <1>1, <1>2, <1>3, FewerRecords

LEMMA UsageTotals ==
    ASSUME Held
    PROVE  /\ DailyUsage.amount = Total(InWindow(hist.spent, now))
           /\ \A a \in Agents :
                 AgentDailyUsage(a).amount = Total(InWindow(SpentBy(a), now))
<1>1. ASSUME NEW R \in SUBSET hist.spent, NEW w, Holding(w, R)
      PROVE  Used(w, now) = Total(InWindow(R, now))
  <2>1. Records(R) /\ now \in Nat /\ \A r \in R : r.at <= now
    BY HeldRecords, FewerRecords
  <2> QED
    BY <1>1, <2>1, WindowTotal DEF Holding
<1>2. Used(book.window, now) = Total(InWindow(hist.spent, now))
  BY <1>1 DEF Held, MoneyInv, WindowsAgree
<1>3. ASSUME NEW a \in Agents
      PROVE  Used(book.agentWindow[a], now) = Total(InWindow(SpentBy(a), now))
  <2>1. SpentBy(a) \in SUBSET hist.spent
    BY DEF SpentBy
  <2> QED
    BY <1>1, <2>1 DEF Held, MoneyInv, WindowsAgree
<1> QED
  BY <1>2, <1>3 DEF DailyUsage, AgentDailyUsage, Summarize

LEMMA UsageIsSpent ==
    ASSUME Held
    PROVE  DailyUsage.amount = SpentIn(hist.spent, DailyUsage.start - 1)
<1> DEFINE x == Hour(now) - (Buckets - 1)
           s == NonNeg(x) * BucketSeconds
<1>1. book.window.head \in Nat /\ book.window.head <= Hour(now)
  BY DEF Held, MoneyInv, WindowsAgree, Holding, Counts
<1>2. /\ Hour(now) \in Nat /\ Buckets \in Nat \ {0}
      /\ BucketSeconds \in Nat \ {0}
  BY HeldRecords, TreasuryMathAssumption
<1>3. DailyUsage.start = s
  <2>1. MaxOf(book.window.head, Hour(now)) = Hour(now)
    BY <1>1, <1>2 DEF MaxOf
  <2> QED
    BY <2>1, Zenon DEF DailyUsage, Summarize
<1>4. x \in Int /\ NonNeg(x) \in Nat /\ s \in Nat
  BY <1>2 DEF NonNeg
<1>5. ASSUME NEW r \in hist.spent
      PROVE  r.at > s - 1 <=> Hour(r.at) > Hour(now) - Buckets
  <2>1. PICK t \in Nat : t = r.at
    BY HeldRecords DEF Records
  <2>2. PICK h \in Nat : h = Hour(t)
    BY <2>1, Clocks
  <2>3. NonNeg(x) <= h <=> s <= t
    BY <1>2, <1>4, <2>2, Periods DEF Hour
  <2>4. NonNeg(x) <= h <=> x <= h
    BY <1>4, <2>2 DEF NonNeg
  <2> HIDE DEF s
  <2>5. s <= t <=> t > s - 1
    BY <1>4
  <2>6. x <= h <=> h > Hour(now) - Buckets
    BY <1>2
  <2> QED
    BY <2>1, <2>2, <2>3, <2>4, <2>5, <2>6
<1>6. Since(hist.spent, s - 1) = InWindow(hist.spent, now)
  BY <1>5 DEF InWindow, Since
<1>7. SpentIn(hist.spent, s - 1) = Total(Since(hist.spent, s - 1))
  BY RecordsSum
<1>8. SpentIn(hist.spent, s - 1) = Total(InWindow(hist.spent, now))
  BY <1>6, <1>7, Zenon
<1> QED
  BY <1>3, <1>8, UsageTotals

LEMMA AgentsAddUp ==
    ASSUME Held
    PROVE  DailyUsage.amount
               = SumFunction([a \in Agents |-> AgentDailyUsage(a).amount])
<1> DEFINE R == InWindow(hist.spent, now)
           h == [r \in R |-> r.agent]
           f == Amounts(R)
           g == [a \in Agents |-> AgentDailyUsage(a).amount]
<1>1. Records(R) /\ R \subseteq hist.spent
  <2>1. R \subseteq hist.spent
    BY DEF InWindow
  <2> QED
    BY <2>1, HeldRecords, FewerRecords
<1>2. ASSUME NEW a \in Agents PROVE g[a] = SumFunctionOnSet(f, Class(h, R, a))
  <2>1. Class(h, R, a) = InWindow(SpentBy(a), now) /\ Class(h, R, a) \subseteq R
    BY DEF Class, InWindow, SpentBy
  <2>2. Total(Class(h, R, a)) = SumFunctionOnSet(f, Class(h, R, a))
    BY <1>1, <2>1, FewerRecords
  <2>3. g[a] = Total(InWindow(SpentBy(a), now))
    BY UsageTotals
  <2> QED
    BY <2>1, <2>2, <2>3, Zenon
<1>3. IsFiniteSet(R) /\ IsFiniteSet(Agents) /\ \A r \in R : f[r] \in Int
  BY <1>1, TreasuryGovAssumption DEF Records, Amounts
<1>4. Within(h, R, Agents) = R
  BY <1>1, HeldRecords DEF Within
<1>5. SumFunctionOnSet(g, Agents) = SumFunctionOnSet(f, R)
  <2> HIDE DEF g, f, h, R
  <2>1. SumFunctionOnSet(g, Agents) = SumFunctionOnSet(f, Within(h, R, Agents))
    BY <1>2, <1>3, SumClasses
  <2> QED
    BY <1>4, <2>1, Zenon
<1>6. SumFunction(g) = SumFunctionOnSet(g, Agents)
  BY SumDomain
<1> QED
  BY <1>5, <1>6, UsageTotals DEF Total

LEMMA FloorIsLeast ==
    ASSUME NEW m \in MarketType, m.status = "open",
           NEW kind \in {"yes", "no", "void"}
    PROVE  FloorValue(m) <= FloorValue([m EXCEPT !.status = kind])
<1> DEFINE w == [m EXCEPT !.status = kind]
<1>1. /\ w.status = kind /\ w.pos = m.pos /\ w.lp = m.lp
      /\ w.claimed = m.claimed /\ w.reserve = m.reserve
  BY DEF MarketType
<1>2. LpPart(w) = LpPart(m)
  BY <1>1 DEF LpPart
<1>3. PICK y \in Nat, n \in Nat : y = m.pos.yes /\ n = m.pos.no
  BY DEF MarketType, Outcomes
<1>4. PICK u \in Nat, v \in Nat : u = LpPart(m).yes /\ v = LpPart(m).no
  BY DEF MarketType, Outcomes, LpPart
<1>5. FloorValue(m) = MinOf(y, n) + MinOf(u, v)
  BY <1>3, <1>4 DEF FloorValue
<1>6. FloorValue(w) = TreasurySettleValue(kind, m.pos)
                      + TreasurySettleValue(kind, LpPart(m))
  BY <1>1, <1>2 DEF FloorValue
<1>7. CASE kind = "yes"
  BY <1>3, <1>4, <1>5, <1>6, <1>7 DEF TreasurySettleValue, MinOf
<1>8. CASE kind = "no"
  BY <1>3, <1>4, <1>5, <1>6, <1>8 DEF TreasurySettleValue, MinOf
<1>9. CASE kind = "void"
  <2>1. FloorValue(w) = (y + n) \div 2 + (u + v) \div 2
    BY <1>3, <1>4, <1>6, <1>9 DEF TreasurySettleValue
  <2>2. MinOf(y, n) <= (y + n) \div 2 /\ MinOf(u, v) <= (u + v) \div 2
    BY DEF MinOf
  <2> QED
    BY <1>5, <2>1, <2>2 DEF MinOf
<1> QED
  BY <1>7, <1>8, <1>9

LEMMA HeldBooks == ASSUME Held PROVE BooksMatchMoney
<1>1. ASSUME NEW id \in Ids, NEW kind \in {"yes", "no", "void"},
             mkt[Core(id)].status = "open"
      PROVE  MarketValuation(id).floor
                <= FloorValue([mkt[Core(id)] EXCEPT !.status = kind])
  <2>1. Core(id) \in Markets
    BY CoreMarket DEF Held, TreasuryInv
  <2>2. mkt[Core(id)] \in MarketType
    BY <2>1 DEF Held, TreasuryInv, StateTypes
  <2> QED
    BY <1>1, <2>2, FloorIsLeast DEF MarketValuation
<1>2. AccountsAgree
  BY DEF Held, MoneyInv
<1> QED
  BY <1>1, <1>2, UsageIsSpent, AgentsAddUp DEF BooksMatchMoney, AccountsAgree

(* The window brought up to today counts g, the results of its days but    *)
(* for the blurred ones.                                                   *)
DaysHold(g) ==
    LET v == Advance(book.days, Day(now), stop.days)
    IN  /\ Counts(v, stop.days, g) /\ v.head = Day(now)
        /\ \A d \in Int \ hist.blurred : g[d] = ResultOf[d]

LEMMA HeldDays ==
    ASSUME Held
    PROVE  /\ stop.days \in Nat \ {0} /\ now \in Nat /\ Day(now) \in Nat
           /\ hist.results \in [0 .. Day(MaxTime) -> Int]
           /\ Day(MaxTime) \in Nat /\ Day(now) <= Day(MaxTime)
           /\ hist.blurred \subseteq 0 .. Day(now)
           /\ \A d \in Int : ResultOf[d] \in Int
           /\ \A d \in Int \ hist.blurred : d > Day(now) => ResultOf[d] = 0
<1> DEFINE D == Day(now)
           n == stop.days
<1>1. n \in Nat \ {0} /\ D \in Nat /\ now \in Nat
  <2>1. now \in Nat /\ now <= now
    BY HeldRecords
  <2>2. D \in Nat
    BY <2>1, Clocks
  <2>3. n \in 1 .. 30
    BY Zenon DEF Held, MoneyInv, MoneyTypes
  <2> QED
    BY <2>1, <2>2, <2>3
<1>2. /\ CountsExcept(book.days, n, ResultOf, hist.blurred)
      /\ book.days.head <= D /\ book.days.head \in Nat
      /\ hist.blurred \subseteq 0 .. D
      /\ \A d \in DOMAIN hist.results \ hist.blurred :
            d > book.days.head => hist.results[d] = 0
  <2>1. ResultsAgree
    BY DEF Held, MoneyInv
  <2>2. book.days.head \in Nat
    BY <2>1 DEF ResultsAgree, CountsExcept
  <2> QED
    BY <2>1, <2>2 DEF ResultsAgree
<1>3. hist.results \in [0 .. Day(MaxTime) -> Int]
  BY Zenon DEF Held, MoneyInv, MoneyTypes
<1>4. ASSUME NEW d \in Int PROVE ResultOf[d] \in Int
  <2>1. ResultOf[d] = IF d \in DOMAIN hist.results THEN hist.results[d] ELSE 0
    BY Zenon DEF ResultOf
  <2>2. d \in DOMAIN hist.results => hist.results[d] \in Int
    BY <1>3
  <2> QED
    BY <2>1, <2>2
<1>5. \A p \in Int \ hist.blurred : p > book.days.head => ResultOf[p] = 0
  BY <1>2 DEF ResultOf
<1>6. Day(MaxTime) \in Nat /\ D <= Day(MaxTime)
  <2>1. MaxTime \in Nat /\ now <= MaxTime
    BY TreasuryGovAssumption DEF Held, MoneyInv, MoneyTypes
  <2> QED
    BY <1>1, <2>1, Clocks
<1>7. \A p \in Int \ hist.blurred : p > D => ResultOf[p] = 0
  BY <1>1, <1>2, <1>5
<1> HIDE DEF D, n
<1> QED
  BY <1>1, <1>2, <1>3, <1>4, <1>6, <1>7 DEF D, n

(* The window as it was left counts such a g too.                          *)
LEMMA HeldCounts ==
    ASSUME Held
    PROVE  /\ book.days.head \in Nat /\ book.days.head <= Day(now)
           /\ \E g \in [Int -> Int] :
                 /\ Counts(book.days, stop.days, g)
                 /\ \A p \in Int \ hist.blurred : g[p] = ResultOf[p]
                 /\ \A p \in Int : p > book.days.head => g[p] = 0
<1>1. PICK n \in Nat \ {0} : n = stop.days
  BY HeldDays
<1>2. PICK f, D, w : f = ResultOf /\ D = hist.blurred /\ w = book.days
  OBVIOUS
<1>3. \A p \in Int : f[p] \in Int
  BY <1>2, HeldDays
<1>4. CountsExcept(w, n, f, D) /\ w.head <= Day(now) /\ w.head \in Nat
  <2>1. ResultsAgree
    BY DEF Held, MoneyInv
  <2>2. book.days.head \in Nat
    BY <2>1 DEF ResultsAgree, CountsExcept
  <2> QED
    BY <1>1, <1>2, <2>1, <2>2 DEF ResultsAgree
<1>5. \A p \in Int \ D : p > w.head => f[p] = 0
  BY <1>2 DEF Held, MoneyInv, ResultsAgree, ResultOf
<1>6. \E g \in [Int -> Int] :
         /\ Counts(w, n, g) /\ \A p \in Int \ D : g[p] = f[p]
         /\ \A p \in Int : p > w.head => g[p] = 0
  BY <1>3, <1>4, <1>5, BlurredRing
<1> QED
  BY <1>1, <1>2, <1>4, <1>6

LEMMA HeldRing ==
    ASSUME Held PROVE \E g \in [Int -> Int] : DaysHold(g)
<1> DEFINE D == Day(now)
           n == stop.days
           v == Advance(book.days, D, n)
<1>1. n \in Nat \ {0} /\ D \in Nat
  BY HeldDays
<1>2. book.days.head <= D /\ book.days.head \in Nat
  BY HeldCounts
<1>3. PICK g \in [Int -> Int] :
         /\ Counts(book.days, n, g)
         /\ \A p \in Int \ hist.blurred : g[p] = ResultOf[p]
         /\ \A p \in Int : p > book.days.head => g[p] = 0
  BY HeldCounts
<1>4. Counts(v, n, g) /\ v.head = D
  <2>1. Counts(v, n, g) /\ v.head = MaxOf(D, book.days.head)
    BY <1>1, <1>3, AdvanceCounts
  <2> QED
    BY <1>1, <1>2, <2>1 DEF MaxOf
<1>5. DaysHold(g)
  BY <1>3, <1>4 DEF DaysHold
<1> QED
  BY <1>5

LEMMA HeldStop == ASSUME Held PROVE DrawdownIsTrue
<1> DEFINE D == Day(now)
           n == stop.days
           S == Recent(D, n)
           E == {e \in DOMAIN hist.results : e > D - n}
           v == Advance(book.days, D, n)
<1>1. n \in Nat \ {0} /\ D \in Nat /\ now \in Nat
  BY HeldDays
<1>2. hist.blurred \subseteq 0 .. D
  BY HeldDays
<1>3. \A d \in Int : ResultOf[d] \in Int
  BY HeldDays
<1>4. \A p \in Int \ hist.blurred : p > D => ResultOf[p] = 0
  BY HeldDays
<1>5. PICK g \in [Int -> Int] :
         /\ Counts(v, n, g) /\ v.head = D
         /\ \A d \in Int \ hist.blurred : g[d] = ResultOf[d]
  <2>1. PICK g \in [Int -> Int] : DaysHold(g)
    BY HeldRing
  <2> QED
    BY <2>1 DEF DaysHold
<1>6. RingSum(v) = SumFunctionOnSet(g, S)
  <2> HIDE DEF v
  <2>1. RingSum(v) = SumFunctionOnSet(g, Recent(v.head, n))
    BY <1>1, <1>5, RingTotal
  <2> QED
    BY <1>5, <2>1
<1>7. DOMAIN hist.results = 0 .. Day(MaxTime) /\ Day(MaxTime) \in Nat
  BY HeldDays
<1>8. IsFiniteSet(S) /\ IsFiniteSet(E) /\ S \subseteq Int /\ E \subseteq Int
  <2>1. S = D - n + 1 .. D /\ E \subseteq 0 .. Day(MaxTime)
    BY <1>7 DEF Recent
  <2> HIDE DEF S, E, D, n
  <2>2. D - n + 1 \in Int /\ D \in Int /\ Day(MaxTime) \in Int
    BY <1>1, <1>7
  <2>3. IsFiniteSet(D - n + 1 .. D) /\ IsFiniteSet(0 .. Day(MaxTime))
    BY <2>2, FS_Interval
  <2>4. IsFiniteSet(S) /\ IsFiniteSet(E)
    BY <2>1, <2>3, FS_Subset
  <2>5. S \subseteq Int /\ E \subseteq Int
    BY <2>1
  <2> QED
    BY <2>4, <2>5
<1>9. S \cap E \in SUBSET S /\ S \cap E \in SUBSET E
  OBVIOUS
<1>10. ASSUME NEW d \in S \ (S \cap E) PROVE ResultOf[d] = 0
  <2>1. d \notin DOMAIN hist.results
    BY <1>1, <1>10 DEF Recent
  <2> QED
    BY <1>8, <2>1 DEF ResultOf
<1>11. ASSUME NEW d \in E \ (S \cap E) PROVE ResultOf[d] = 0
  <2>1. d > D
    <3>1. d \in Int /\ d \notin D - n + 1 .. D /\ d > D - n
      BY <1>8, <1>11 DEF Recent
    <3> HIDE DEF S, E, D, n
    <3> QED
      BY <1>1, <3>1
  <2>2. d \notin hist.blurred
    BY <1>1, <1>2, <2>1
  <2> QED
    BY <1>4, <1>8, <2>1, <2>2
<1>12. ASSUME Unblurred
       PROVE  SumFunctionOnSet(g, S) = SumFunctionOnSet(ResultOf, E)
  <2>1. ASSUME NEW d \in S PROVE g[d] \in Int /\ g[d] = ResultOf[d]
    <3>1. d \in Int /\ d > D - n
      BY <1>1 DEF Recent
    <3>2. d \notin hist.blurred
      BY <1>1, <1>2, <1>12, <3>1 DEF Unblurred
    <3> QED
      BY <1>5, <3>1, <3>2
  <2> HIDE DEF S, E
  <2>2. SumFunctionOnSet(g, S) = SumFunctionOnSet(ResultOf, S)
    BY <1>8, <2>1, SumSame
  <2>3. SumFunctionOnSet(ResultOf, S) = SumFunctionOnSet(ResultOf, S \cap E)
    BY <1>3, <1>8, <1>9, <1>10, SumSupport
  <2>4. SumFunctionOnSet(ResultOf, E) = SumFunctionOnSet(ResultOf, S \cap E)
    BY <1>3, <1>8, <1>9, <1>11, SumSupport
  <2> QED
    BY <2>2, <2>3, <2>4
<1>13. WindowResult = SumFunctionOnSet(ResultOf, E)
  <2> DEFINE r == [d \in E |-> hist.results[d]]
  <2>1. \A d \in E : r[d] \in Int /\ r[d] = ResultOf[d]
    BY <1>3, <1>8 DEF ResultOf
  <2>2. DOMAIN r = E /\ WindowResult = SumFunction(r)
    BY DEF WindowResult
  <2> HIDE DEF r, E
  <2>3. SumFunction(r) = SumFunctionOnSet(r, E)
    BY <2>2, SumDomain
  <2>4. SumFunctionOnSet(r, E) = SumFunctionOnSet(ResultOf, E)
    BY <1>8, <2>1, SumSame
  <2> QED
    BY <2>2, <2>3, <2>4
<1>14. DrawdownStatus.pnl = RingSum(v)
  BY DEF DrawdownStatus, CalcWindowPnl
<1>15. DrawdownStatus.tripped => stop.paused
  BY DEF Held, MoneyInv, DrawdownStatus
<1> HIDE DEF D, n, S, E, v
<1> QED
  BY <1>6, <1>12, <1>13, <1>14, <1>15 DEF DrawdownIsTrue

-----------------------------------------------------------------------------
(* What the operations of the book do to its accounts.                     *)

BookShape(b) ==
    /\ {"window", "agentWindow", "exposure", "net", "netTotal", "pnl",
        "realized", "days", "creations", "at", "slot"} \subseteq DOMAIN b
    /\ DOMAIN b.realized = Ids
    /\ b.exposure \in [Markets -> [amount : Int, open : BOOLEAN]]
    /\ b.net \in [Markets -> [in : Int, out : Int]] /\ b.netTotal \in Int
    /\ b.pnl \in [Ids -> [cost : Int, proceeds : Int, realized : BOOLEAN]]

SameWindows(b, c) == c.window = b.window /\ c.agentWindow = b.agentWindow

SameResults(b, c) ==
    c.days = b.days /\ \A i \in Ids : c.pnl[i].realized = b.pnl[i].realized

SameAccounts(b, c) ==
    /\ BookShape(c)
    /\ c.net = b.net /\ c.netTotal = b.netTotal
    /\ \A j \in Markets : c.exposure[j].amount = b.exposure[j].amount
    /\ \A i \in Ids : /\ c.pnl[i].cost = b.pnl[i].cost
                      /\ c.pnl[i].proceeds = b.pnl[i].proceeds

(* c is b after x went into market k, y came out and z came as its fees.   *)
BookMoved(b, c, k, x, y, z) ==
    /\ BookShape(c)
    /\ \A j \in Markets : j # k => c.net[j] = b.net[j]
    /\ c.net[k].in = b.net[k].in + x
    /\ c.net[k].out = b.net[k].out + (y + z)
    /\ c.netTotal = b.netTotal - CostBasis(b.net[k]) + CostBasis(c.net[k])
    /\ \A j \in Markets : j # k => c.exposure[j].amount = b.exposure[j].amount
    /\ c.exposure[k].amount = b.exposure[k].amount + x
    /\ \A i \in Ids : i # k[2] => /\ c.pnl[i].cost = b.pnl[i].cost
                                  /\ c.pnl[i].proceeds = b.pnl[i].proceeds
    /\ c.pnl[k[2]].cost = b.pnl[k[2]].cost + x
    /\ c.pnl[k[2]].proceeds = b.pnl[k[2]].proceeds + y

LEMMA MarketParts ==
    ASSUME NEW k \in Markets
    PROVE  k[1] \in Cores /\ k[2] \in Ids /\ k = <<k[1], k[2]>>
BY DEF Markets

LEMMA ShapeParts ==
    ASSUME NEW b, BookShape(b)
    PROVE  /\ \A k \in Markets :
                 /\ b.net[k] \in [in : Int, out : Int]
                 /\ b.net[k].in \in Int /\ b.net[k].out \in Int
                 /\ CostBasis(b.net[k]) \in Nat
                 /\ b.exposure[k].amount \in Int
           /\ \A i \in Ids : b.pnl[i].cost \in Int /\ b.pnl[i].proceeds \in Int
           /\ b.netTotal \in Int
<1>1. ASSUME NEW k \in Markets
      PROVE  /\ b.net[k] \in [in : Int, out : Int]
             /\ b.net[k].in \in Int /\ b.net[k].out \in Int
             /\ CostBasis(b.net[k]) \in Nat
             /\ b.exposure[k].amount \in Int
  <2>1. b.net[k] \in [in : Int, out : Int]
    BY DEF BookShape
  <2>2. b.net[k].in \in Int /\ b.net[k].out \in Int
    BY <2>1
  <2>3. b.exposure[k] \in [amount : Int, open : BOOLEAN]
    BY DEF BookShape
  <2> QED
    BY <2>1, <2>2, <2>3 DEF CostBasis, NonNeg
<1>2. ASSUME NEW i \in Ids
      PROVE  b.pnl[i].cost \in Int /\ b.pnl[i].proceeds \in Int
  <2>1. b.pnl[i] \in [cost : Int, proceeds : Int, realized : BOOLEAN]
    BY DEF BookShape
  <2> QED
    BY <2>1
<1>3. b.netTotal \in Int
  BY DEF BookShape
<1> QED
  BY <1>1, <1>2, <1>3

LEMMA SameIsMoved ==
    ASSUME NEW b, BookShape(b), NEW c, SameAccounts(b, c), NEW k \in Markets
    PROVE  BookMoved(b, c, k, 0, 0, 0)
<1>1. k[2] \in Ids
  BY MarketParts
<1> QED
  BY <1>1, ShapeParts DEF SameAccounts, BookMoved

LEMMA MovedTwice ==
    ASSUME NEW b, BookShape(b), NEW c, NEW d, NEW k \in Markets,
           NEW x1 \in Int, NEW y1 \in Int, NEW z1 \in Int,
           NEW x2 \in Int, NEW y2 \in Int, NEW z2 \in Int,
           BookMoved(b, c, k, x1, y1, z1), BookMoved(c, d, k, x2, y2, z2)
    PROVE  BookMoved(b, d, k, x1 + x2, y1 + y2, z1 + z2)
<1>1. k[2] \in Ids
  BY MarketParts
<1>2. BookShape(c) /\ BookShape(d)
  BY DEF BookMoved
<1>3. /\ d.net[k].in = b.net[k].in + (x1 + x2)
      /\ d.net[k].out = b.net[k].out + ((y1 + y2) + (z1 + z2))
      /\ d.exposure[k].amount = b.exposure[k].amount + (x1 + x2)
      /\ d.pnl[k[2]].cost = b.pnl[k[2]].cost + (x1 + x2)
      /\ d.pnl[k[2]].proceeds = b.pnl[k[2]].proceeds + (y1 + y2)
  BY <1>1, ShapeParts DEF BookMoved
<1>4. d.netTotal = b.netTotal - CostBasis(b.net[k]) + CostBasis(d.net[k])
  <2>1. /\ c.netTotal = b.netTotal - CostBasis(b.net[k]) + CostBasis(c.net[k])
        /\ d.netTotal = c.netTotal - CostBasis(c.net[k]) + CostBasis(d.net[k])
    BY DEF BookMoved
  <2> QED
    BY <1>2, <2>1, ShapeParts
<1>5. \A j \in Markets : j # k =>
          /\ d.net[j] = b.net[j]
          /\ d.exposure[j].amount = b.exposure[j].amount
  BY DEF BookMoved
<1>6. \A i \in Ids : i # k[2] => /\ d.pnl[i].cost = b.pnl[i].cost
                                 /\ d.pnl[i].proceeds = b.pnl[i].proceeds
  BY DEF BookMoved
<1> QED
  BY <1>2, <1>3, <1>4, <1>5, <1>6 DEF BookMoved

LEMMA SavedNet ==
    ASSUME NEW b, BookShape(b), NEW k \in Markets,
           NEW x \in [in : Int, out : Int]
    PROVE  LET c == SaveNet(b, k, x) IN
           /\ BookShape(c) /\ c.net = [b.net EXCEPT ![k] = x]
           /\ c.netTotal = b.netTotal - CostBasis(b.net[k]) + CostBasis(x)
           /\ c.exposure = b.exposure /\ c.pnl = b.pnl
           /\ SameWindows(b, c) /\ c.days = b.days
<1> DEFINE c == SaveNet(b, k, x)
<1>1. PICK u \in Int : u = b.netTotal - CostBasis(b.net[k]) + CostBasis(x)
  <2>1. CostBasis(x) \in Nat
    BY DEF CostBasis, NonNeg
  <2> QED
    BY <2>1, ShapeParts
<1>2. c = [b EXCEPT !.net = [b.net EXCEPT ![k] = x], !.netTotal = u]
  BY <1>1, Zenon DEF SaveNet
<1>3. /\ DOMAIN c = DOMAIN b /\ c.net = [b.net EXCEPT ![k] = x]
      /\ c.netTotal = u /\ c.exposure = b.exposure /\ c.pnl = b.pnl
      /\ c.window = b.window /\ c.agentWindow = b.agentWindow
      /\ c.days = b.days /\ c.realized = b.realized
  BY <1>2 DEF BookShape
<1> HIDE DEF c
<1>4. c.net \in [Markets -> [in : Int, out : Int]]
  BY <1>3 DEF BookShape
<1>5. BookShape(c)
  BY <1>3, <1>4 DEF BookShape
<1>6. /\ BookShape(c) /\ c.net = [b.net EXCEPT ![k] = x]
      /\ c.netTotal = b.netTotal - CostBasis(b.net[k]) + CostBasis(x)
      /\ c.exposure = b.exposure /\ c.pnl = b.pnl
      /\ SameWindows(b, c) /\ c.days = b.days
  BY <1>1, <1>3, <1>5 DEF SameWindows
<1> QED
  BY <1>6 DEF c

(* record_return(): a return lowers the cost basis of its market.          *)
LEMMA ReturnMoves ==
    ASSUME NEW b, BookShape(b), NEW k \in Markets, NEW n \in Nat
    PROVE  LET c == RecordReturn(b, k, n) IN
           /\ BookMoved(b, c, k, 0, 0, n)
           /\ SameWindows(b, c) /\ SameResults(b, c)
<1>1. CASE n <= 0
  <2>1. RecordReturn(b, k, n) = b /\ n = 0
    BY <1>1 DEF RecordReturn
  <2>2. SameAccounts(b, b) /\ SameWindows(b, b) /\ SameResults(b, b)
    BY DEF SameAccounts, SameWindows, SameResults
  <2> QED
    BY <2>1, <2>2, SameIsMoved
<1>2. CASE ~(n <= 0)
  <2> DEFINE x == [b.net[k] EXCEPT !.out = @ + n]
             c == SaveNet(b, k, x)
  <2>1. RecordReturn(b, k, n) = c
    BY <1>2, Zenon DEF RecordReturn
  <2>2. /\ x \in [in : Int, out : Int] /\ x.in = b.net[k].in
        /\ x.out = b.net[k].out + n
    BY ShapeParts
  <2> HIDE DEF x
  <2>3. /\ BookShape(c) /\ c.net = [b.net EXCEPT ![k] = x]
        /\ c.netTotal = b.netTotal - CostBasis(b.net[k]) + CostBasis(x)
        /\ c.exposure = b.exposure /\ c.pnl = b.pnl
        /\ SameWindows(b, c) /\ c.days = b.days
    BY <2>2, SavedNet
  <2> HIDE DEF c
  <2>4. c.net[k] = x /\ \A j \in Markets : j # k => c.net[j] = b.net[j]
    BY <2>3 DEF BookShape
  <2>5. BookMoved(b, c, k, 0, 0, n)
    BY <2>2, <2>3, <2>4, ShapeParts, MarketParts DEF BookMoved
  <2>6. SameResults(b, c)
    BY <2>3 DEF SameResults
  <2> QED
    BY <2>1, <2>3, <2>5, <2>6
<1> QED
  BY <1>1, <1>2

LEMMA ProceedsRecorded ==
    ASSUME NEW b, BookShape(b), NEW k \in Markets, NEW n \in Nat
    PROVE  LET c == RecordProceeds(b, k, n) IN
           /\ BookShape(c) /\ c.net = b.net /\ c.netTotal = b.netTotal
           /\ c.exposure = b.exposure
           /\ \A i \in Ids : /\ c.pnl[i].cost = b.pnl[i].cost
                             /\ c.pnl[i].realized = b.pnl[i].realized
           /\ \A i \in Ids : i # k[2] => c.pnl[i].proceeds = b.pnl[i].proceeds
           /\ c.pnl[k[2]].proceeds = b.pnl[k[2]].proceeds + n
           /\ SameWindows(b, c) /\ c.days = b.days
<1> DEFINE c == RecordProceeds(b, k, n)
<1>1. PICK i \in Ids : i = k[2]
  BY MarketParts
<1>2. PICK p : p = b.pnl /\ p \in [Ids -> [cost : Int, proceeds : Int,
                                           realized : BOOLEAN]]
  BY DEF BookShape
<1>3. NonNeg(n) = n
  BY DEF NonNeg
<1>4. PICK q : q = [p EXCEPT ![i].proceeds = @ + n]
  OBVIOUS
<1>5. /\ q \in [Ids -> [cost : Int, proceeds : Int, realized : BOOLEAN]]
      /\ \A j \in Ids : q[j].cost = p[j].cost /\ q[j].realized = p[j].realized
      /\ \A j \in Ids : j # i => q[j].proceeds = p[j].proceeds
      /\ q[i].proceeds = p[i].proceeds + n
  BY <1>2, <1>4
<1>6. c = [b EXCEPT !.pnl = q]
  BY <1>1, <1>2, <1>3, <1>4, Zenon DEF RecordProceeds
<1>7. /\ DOMAIN c = DOMAIN b /\ c.net = b.net
      /\ c.netTotal = b.netTotal /\ c.exposure = b.exposure /\ c.pnl = q
      /\ c.window = b.window /\ c.agentWindow = b.agentWindow
      /\ c.days = b.days /\ c.realized = b.realized
  BY <1>6 DEF BookShape
<1> HIDE DEF c
<1>8. BookShape(c)
  BY <1>5, <1>7 DEF BookShape
<1>9. /\ BookShape(c) /\ c.net = b.net /\ c.netTotal = b.netTotal
      /\ c.exposure = b.exposure
      /\ \A j \in Ids : /\ c.pnl[j].cost = b.pnl[j].cost
                        /\ c.pnl[j].realized = b.pnl[j].realized
      /\ \A j \in Ids : j # k[2] => c.pnl[j].proceeds = b.pnl[j].proceeds
      /\ c.pnl[k[2]].proceeds = b.pnl[k[2]].proceeds + n
      /\ SameWindows(b, c) /\ c.days = b.days
  BY <1>1, <1>2, <1>5, <1>7, <1>8 DEF SameWindows
<1> QED
  BY <1>9 DEF c

LEMMA ReceivedMoves ==
    ASSUME NEW b, BookShape(b), NEW k \in Markets, NEW n \in Nat
    PROVE  LET c == Received(b, k, n) IN
           /\ BookMoved(b, c, k, 0, n, 0)
           /\ SameWindows(b, c) /\ SameResults(b, c)
<1> DEFINE d == RecordReturn(b, k, n)
           c == RecordProceeds(d, k, n)
<1>1. BookMoved(b, d, k, 0, 0, n) /\ SameWindows(b, d) /\ SameResults(b, d)
  BY ReturnMoves
<1> HIDE DEF d
<1>2. BookShape(d)
  BY <1>1 DEF BookMoved
<1>3. /\ BookShape(c) /\ c.net = d.net /\ c.netTotal = d.netTotal
      /\ c.exposure = d.exposure
      /\ \A i \in Ids : /\ c.pnl[i].cost = d.pnl[i].cost
                        /\ c.pnl[i].realized = d.pnl[i].realized
      /\ \A i \in Ids : i # k[2] => c.pnl[i].proceeds = d.pnl[i].proceeds
      /\ c.pnl[k[2]].proceeds = d.pnl[k[2]].proceeds + n
      /\ SameWindows(d, c) /\ c.days = d.days
  BY <1>2, ProceedsRecorded
<1> HIDE DEF c
<1>4. k[2] \in Ids
  BY MarketParts
<1>5. BookMoved(b, c, k, 0, n, 0)
  <2>1. /\ c.pnl[k[2]].proceeds = b.pnl[k[2]].proceeds + n
        /\ c.pnl[k[2]].cost = b.pnl[k[2]].cost + 0
    BY <1>1, <1>3, <1>4, ShapeParts DEF BookMoved
  <2>2. \A i \in Ids : i # k[2] => /\ c.pnl[i].cost = b.pnl[i].cost
                                   /\ c.pnl[i].proceeds = b.pnl[i].proceeds
    BY <1>1, <1>3 DEF BookMoved
  <2>3. /\ c.net[k].in = b.net[k].in + 0
        /\ c.net[k].out = b.net[k].out + (n + 0)
        /\ \A j \in Markets : j # k => c.net[j] = b.net[j]
        /\ c.netTotal = b.netTotal - CostBasis(b.net[k]) + CostBasis(c.net[k])
        /\ \A j \in Markets : j # k =>
              c.exposure[j].amount = b.exposure[j].amount
        /\ c.exposure[k].amount = b.exposure[k].amount + 0
    BY <1>1, <1>3 DEF BookMoved
  <2> QED
    BY <1>3, <2>1, <2>2, <2>3 DEF BookMoved
<1>6. SameWindows(b, c) /\ SameResults(b, c)
  BY <1>1, <1>3 DEF SameWindows, SameResults
<1> QED
  BY <1>5, <1>6 DEF Received, c, d

(* Everything but the index and the settlement flags is the same.          *)
SameMoney(b, c) ==
    /\ BookShape(c)
    /\ c.net = b.net /\ c.netTotal = b.netTotal /\ c.exposure = b.exposure
    /\ c.pnl = b.pnl /\ c.days = b.days /\ SameWindows(b, c)

LEMMA MoneySame ==
    ASSUME NEW b, NEW c, SameMoney(b, c)
    PROVE  SameAccounts(b, c) /\ SameWindows(b, c) /\ SameResults(b, c)
BY DEF SameMoney, SameAccounts, SameResults

LEMMA IndexKeepsMoney ==
    ASSUME NEW b, BookShape(b), NEW k
    PROVE  SameMoney(b, IndexAdd(b, k)) /\ SameMoney(b, IndexRemove(b, k))
<1>1. ASSUME NEW s, NEW t
      PROVE  SameMoney(b, [b EXCEPT !.at = s, !.slot = t])
  <2>1. PICK c : c = [b EXCEPT !.at = s, !.slot = t]
    OBVIOUS
  <2>2. /\ DOMAIN c = DOMAIN b /\ c.net = b.net /\ c.netTotal = b.netTotal
        /\ c.exposure = b.exposure /\ c.pnl = b.pnl /\ c.days = b.days
        /\ c.window = b.window /\ c.agentWindow = b.agentWindow
        /\ c.realized = b.realized
    BY <2>1 DEF BookShape
  <2>3. SameMoney(b, c)
    BY <2>2 DEF SameMoney, SameWindows, BookShape
  <2> QED
    BY <2>1, <2>3
<1>2. SameMoney(b, b)
  BY DEF SameMoney, SameWindows
<1>3. SameMoney(b, IndexAdd(b, k))
  <2> DEFINE s == Append(b.at, k)
             t == [b.slot EXCEPT ![k] = Len(b.at) + 1]
  <2>1. IndexAdd(b, k) = b
        \/ IndexAdd(b, k) = [b EXCEPT !.at = s, !.slot = t]
    BY Zenon DEF IndexAdd
  <2> HIDE DEF s, t
  <2>2. SameMoney(b, [b EXCEPT !.at = s, !.slot = t])
    BY <1>1, Zenon
  <2> QED
    BY <1>2, <2>1, <2>2, Zenon
<1>4. SameMoney(b, IndexRemove(b, k))
  <2> DEFINE moved == b.at[Len(b.at)]
             s == SubSeq([b.at EXCEPT ![b.slot[k]] = moved], 1, Len(b.at) - 1)
             t == [b.slot EXCEPT ![moved] = b.slot[k], ![k] = 0]
  <2>1. IndexRemove(b, k) = b
        \/ IndexRemove(b, k) = [b EXCEPT !.at = s, !.slot = t]
    BY Zenon DEF IndexRemove
  <2> HIDE DEF s, t
  <2>2. SameMoney(b, [b EXCEPT !.at = s, !.slot = t])
    BY <1>1, Zenon
  <2> QED
    BY <1>2, <2>1, <2>2, Zenon
<1> QED
  BY <1>3, <1>4

LEMMA CostRecorded ==
    ASSUME NEW b, BookShape(b), NEW k \in Markets, NEW n \in Nat
    PROVE  LET c == RecordCost(b, k, n) IN
           /\ BookShape(c) /\ c.net = b.net /\ c.netTotal = b.netTotal
           /\ c.exposure = b.exposure
           /\ \A i \in Ids : /\ c.pnl[i].proceeds = b.pnl[i].proceeds
                             /\ c.pnl[i].realized = b.pnl[i].realized
           /\ \A i \in Ids : i # k[2] => c.pnl[i].cost = b.pnl[i].cost
           /\ c.pnl[k[2]].cost = b.pnl[k[2]].cost + n
           /\ SameWindows(b, c) /\ c.days = b.days
<1> DEFINE c == RecordCost(b, k, n)
<1>1. PICK i \in Ids : i = k[2]
  BY MarketParts
<1>2. PICK p : p = b.pnl /\ p \in [Ids -> [cost : Int, proceeds : Int,
                                           realized : BOOLEAN]]
  BY DEF BookShape
<1>4. PICK q : q = [p EXCEPT ![i].cost = @ + n]
  OBVIOUS
<1>5. /\ q \in [Ids -> [cost : Int, proceeds : Int, realized : BOOLEAN]]
      /\ \A j \in Ids : /\ q[j].proceeds = p[j].proceeds
                        /\ q[j].realized = p[j].realized
      /\ \A j \in Ids : j # i => q[j].cost = p[j].cost
      /\ q[i].cost = p[i].cost + n
  BY <1>2, <1>4
<1>6. c = [b EXCEPT !.pnl = q]
  BY <1>1, <1>2, <1>4, Zenon DEF RecordCost
<1>7. /\ DOMAIN c = DOMAIN b /\ c.net = b.net
      /\ c.netTotal = b.netTotal /\ c.exposure = b.exposure /\ c.pnl = q
      /\ c.window = b.window /\ c.agentWindow = b.agentWindow
      /\ c.days = b.days /\ c.realized = b.realized
  BY <1>6 DEF BookShape
<1> HIDE DEF c
<1>8. BookShape(c)
  BY <1>5, <1>7 DEF BookShape
<1>9. /\ BookShape(c) /\ c.net = b.net /\ c.netTotal = b.netTotal
      /\ c.exposure = b.exposure
      /\ \A j \in Ids : /\ c.pnl[j].proceeds = b.pnl[j].proceeds
                        /\ c.pnl[j].realized = b.pnl[j].realized
      /\ \A j \in Ids : j # k[2] => c.pnl[j].cost = b.pnl[j].cost
      /\ c.pnl[k[2]].cost = b.pnl[k[2]].cost + n
      /\ SameWindows(b, c) /\ c.days = b.days
  BY <1>1, <1>2, <1>5, <1>7, <1>8 DEF SameWindows
<1> QED
  BY <1>9 DEF c

(* c is b after agent a put n into market k.                              *)
SpentPost(b, c, a, k, n) ==
    /\ BookMoved(b, c, k, n, 0, 0) /\ SameResults(b, c)
    /\ c.window = ConsumeWindow(b.window, now, n)
    /\ c.agentWindow = [b.agentWindow EXCEPT
                          ![a] = ConsumeWindow(b.agentWindow[a], now, n)]

(* reserve_capacity() and reserve_net(): the lifetime exposure, both       *)
(* windows and the cost basis move together.                               *)
LEMMA SpentMoves ==
    ASSUME NEW b, BookShape(b), NEW a, NEW k \in Markets, NEW n \in Nat
    PROVE  SpentPost(b, Spent(b, a, k, n), a, k, n)
<1> DEFINE e == IndexAdd(b, k)
           w == ConsumeWindow(b.window, now, n)
           aw == [b.agentWindow EXCEPT
                    ![a] = ConsumeWindow(b.agentWindow[a], now, n)]
           f == ReserveCapacity(b, a, k, n, now)
           x == [f.net[k] EXCEPT !.in = @ + n]
           g == SaveNet(f, k, x)
           c == RecordCost(g, k, n)
<1>1. SameMoney(b, e)
  BY IndexKeepsMoney
<1>2. PICK p : /\ p = b.exposure
               /\ p \in [Markets -> [amount : Int, open : BOOLEAN]]
  BY DEF BookShape
<1>3. PICK q : q = [p EXCEPT ![k] = [amount |-> @.amount + n, open |-> TRUE]]
  OBVIOUS
<1>4. /\ q \in [Markets -> [amount : Int, open : BOOLEAN]]
      /\ q[k].amount = p[k].amount + n
      /\ \A j \in Markets : j # k => q[j] = p[j]
  BY <1>2, <1>3
<1>5. f = [e EXCEPT !.window = w, !.agentWindow = aw, !.exposure = q]
  <2> HIDE DEF e
  <2>1. e.window = b.window /\ e.agentWindow = b.agentWindow /\ e.exposure = p
    BY <1>1, <1>2 DEF SameMoney, SameWindows
  <2>2. f = [e EXCEPT !.window = ConsumeWindow(e.window, now, n),
                      !.agentWindow = [e.agentWindow EXCEPT
                                         ![a] = ConsumeWindow(@, now, n)],
                      !.exposure = [e.exposure EXCEPT
                              ![k] = [amount |-> @.amount + n, open |-> TRUE]]]
    BY Zenon DEF ReserveCapacity, e
  <2> QED
    BY <1>3, <2>1, <2>2, Zenon
<1> HIDE DEF e, f, w, aw
<1>6. /\ DOMAIN f = DOMAIN e /\ f.window = w /\ f.agentWindow = aw
      /\ f.exposure = q /\ f.net = e.net /\ f.netTotal = e.netTotal
      /\ f.pnl = e.pnl /\ f.days = e.days /\ f.realized = e.realized
  <2>1. BookShape(e)
    BY <1>1 DEF SameMoney
  <2> QED
    BY <1>5, <2>1 DEF BookShape
<1>7. BookShape(f)
  <2>1. BookShape(e)
    BY <1>1 DEF SameMoney
  <2> QED
    BY <1>4, <1>6, <2>1 DEF BookShape
<1>8. f.net = b.net /\ f.netTotal = b.netTotal /\ f.pnl = b.pnl
      /\ f.days = b.days
  BY <1>1, <1>6 DEF SameMoney
<1>9. x \in [in : Int, out : Int] /\ x.in = b.net[k].in + n
      /\ x.out = b.net[k].out
  <2>1. f.net[k] \in [in : Int, out : Int]
    BY <1>7, ShapeParts
  <2> QED
    BY <1>8, <2>1
<1> HIDE DEF x
<1>10. /\ BookShape(g) /\ g.net = [f.net EXCEPT ![k] = x]
       /\ g.netTotal = f.netTotal - CostBasis(f.net[k]) + CostBasis(x)
       /\ g.exposure = f.exposure /\ g.pnl = f.pnl
       /\ SameWindows(f, g) /\ g.days = f.days
  BY <1>7, <1>9, SavedNet
<1> HIDE DEF g
<1>11. /\ BookShape(c) /\ c.net = g.net /\ c.netTotal = g.netTotal
       /\ c.exposure = g.exposure
       /\ \A i \in Ids : /\ c.pnl[i].proceeds = g.pnl[i].proceeds
                         /\ c.pnl[i].realized = g.pnl[i].realized
       /\ \A i \in Ids : i # k[2] => c.pnl[i].cost = g.pnl[i].cost
       /\ c.pnl[k[2]].cost = g.pnl[k[2]].cost + n
       /\ SameWindows(g, c) /\ c.days = g.days
  BY <1>10, CostRecorded
<1> HIDE DEF c
<1>12. c.net[k] = x /\ \A j \in Markets : j # k => c.net[j] = b.net[j]
  BY <1>8, <1>10, <1>11 DEF BookShape
<1>13. BookMoved(b, c, k, n, 0, 0)
  <2>1. k[2] \in Ids
    BY MarketParts
  <2>2. /\ c.net[k].in = b.net[k].in + n
        /\ c.net[k].out = b.net[k].out + (0 + 0)
        /\ c.netTotal = b.netTotal - CostBasis(b.net[k]) + CostBasis(c.net[k])
    BY <1>8, <1>9, <1>10, <1>11, <1>12, ShapeParts
  <2>3. /\ c.exposure[k].amount = b.exposure[k].amount + n
        /\ \A j \in Markets : j # k =>
              c.exposure[j].amount = b.exposure[j].amount
    BY <1>2, <1>4, <1>6, <1>10, <1>11
  <2>4. /\ c.pnl[k[2]].cost = b.pnl[k[2]].cost + n
        /\ c.pnl[k[2]].proceeds = b.pnl[k[2]].proceeds + 0
        /\ \A i \in Ids : i # k[2] => /\ c.pnl[i].cost = b.pnl[i].cost
                                      /\ c.pnl[i].proceeds = b.pnl[i].proceeds
    BY <1>8, <1>10, <1>11, <2>1, ShapeParts
  <2> QED
    BY <1>11, <1>12, <2>2, <2>3, <2>4 DEF BookMoved
<1>14. SameResults(b, c) /\ c.window = w /\ c.agentWindow = aw
  BY <1>6, <1>8, <1>10, <1>11 DEF SameResults, SameWindows
<1>15. Spent(b, a, k, n) = c
  BY Zenon DEF Spent, ReserveNet, c, g, x, f
<1> QED
  BY <1>13, <1>14, <1>15 DEF w, aw, SpentPost

(* Nothing the invariant speaks of has moved.                              *)
SameBooks(b, c) == SameAccounts(b, c) /\ SameWindows(b, c) /\ SameResults(b, c)

LEMMA SameBooksTrans ==
    ASSUME NEW b, NEW c, NEW d, SameBooks(b, c), SameBooks(c, d)
    PROVE  SameBooks(b, d)
BY DEF SameBooks, SameAccounts, SameWindows, SameResults

LEMMA ClosingIsSame ==
    ASSUME NEW b, BookShape(b), NEW k \in Markets
    PROVE  SameBooks(b, CloseMarketExposure(b, k))
<1>1. PICK p : /\ p = b.exposure
               /\ p \in [Markets -> [amount : Int, open : BOOLEAN]]
  BY DEF BookShape
<1>2. PICK q : q = [p EXCEPT ![k].open = FALSE]
  OBVIOUS
<1>3. /\ q \in [Markets -> [amount : Int, open : BOOLEAN]]
      /\ \A j \in Markets : q[j].amount = p[j].amount
  BY <1>1, <1>2
<1>4. PICK c : c = [b EXCEPT !.exposure = q]
  OBVIOUS
<1>5. CloseMarketExposure(b, k) = c
  BY <1>1, <1>2, <1>4, Zenon DEF CloseMarketExposure
<1>6. /\ DOMAIN c = DOMAIN b /\ c.net = b.net
      /\ c.netTotal = b.netTotal /\ c.exposure = q /\ c.pnl = b.pnl
      /\ c.window = b.window /\ c.agentWindow = b.agentWindow
      /\ c.days = b.days /\ c.realized = b.realized
  BY <1>4 DEF BookShape
<1>7. BookShape(c)
  BY <1>3, <1>6 DEF BookShape
<1>8. SameAccounts(b, c)
  BY <1>1, <1>3, <1>6, <1>7 DEF SameAccounts
<1>9. SameBooks(b, c)
  BY <1>6, <1>8 DEF SameBooks, SameWindows, SameResults
<1> QED
  BY <1>5, <1>9

(* k's id becomes realized when k, as m, is final and empty and its id was *)
(* not; its result joins the day's.                                        *)
Joins(b, c, k, t, n) ==
    /\ c.pnl[k[2]].realized
    /\ \A i \in Ids : i # k[2] => c.pnl[i].realized = b.pnl[i].realized
    /\ c.days = AddDailyPnl(b.days, t, n,
                            c.pnl[k[2]].proceeds - c.pnl[k[2]].cost)

Realizes(b, c, k, m, t, n) ==
    IF Final(m) /\ ~Holds(m) /\ ~b.pnl[k[2]].realized
    THEN Joins(b, c, k, t, n) ELSE SameResults(b, c)

LEMMA TryRealizes ==
    ASSUME NEW b, BookShape(b), NEW k \in Markets, NEW m, NEW t, NEW n
    PROVE  LET c == TryRealize(b, k, m, t, n) IN
           SameAccounts(b, c) /\ SameWindows(b, c) /\ Realizes(b, c, k, m, t, n)
<1>1. CASE ~(Final(m) /\ ~Holds(m) /\ ~b.pnl[k[2]].realized)
  <2>1. TryRealize(b, k, m, t, n) = b
    BY <1>1, Zenon DEF TryRealize
  <2>2. Realizes(b, b, k, m, t, n)
    BY <1>1, Zenon DEF Realizes, SameResults
  <2> QED
    BY <2>1, <2>2 DEF SameAccounts, SameWindows
<1>2. CASE Final(m) /\ ~Holds(m) /\ ~b.pnl[k[2]].realized
  <2>1. PICK i \in Ids : i = k[2]
    BY MarketParts
  <2>2. PICK p : p = b.pnl /\ p \in [Ids -> [cost : Int, proceeds : Int,
                                             realized : BOOLEAN]]
    BY DEF BookShape
  <2>3. PICK q : q = [p EXCEPT ![i].realized = TRUE]
    OBVIOUS
  <2>4. PICK d : d = AddDailyPnl(b.days, t, n, p[i].proceeds - p[i].cost)
    OBVIOUS
  <2>5. /\ q \in [Ids -> [cost : Int, proceeds : Int, realized : BOOLEAN]]
        /\ \A j \in Ids : q[j].cost = p[j].cost /\ q[j].proceeds = p[j].proceeds
        /\ \A j \in Ids : j # i => q[j].realized = p[j].realized
        /\ q[i].realized
    BY <2>2, <2>3
  <2>6. PICK c : c = [b EXCEPT !.days = d, !.pnl = q]
    OBVIOUS
  <2>7. TryRealize(b, k, m, t, n) = c
    <3>1. TryRealize(b, k, m, t, n)
            = [b EXCEPT !.days = AddDailyPnl(b.days, t, n,
                                   b.pnl[k[2]].proceeds - b.pnl[k[2]].cost),
                        !.pnl = [b.pnl EXCEPT ![k[2]].realized = TRUE]]
      BY <1>2, Zenon DEF TryRealize
    <3> QED
      BY <3>1, <2>1, <2>2, <2>3, <2>4, <2>6, Zenon
  <2>8. /\ DOMAIN c = DOMAIN b /\ c.net = b.net
        /\ c.netTotal = b.netTotal /\ c.exposure = b.exposure /\ c.pnl = q
        /\ c.window = b.window /\ c.agentWindow = b.agentWindow
        /\ c.days = d /\ c.realized = b.realized
    BY <2>6 DEF BookShape
  <2>9. BookShape(c)
    BY <2>5, <2>8 DEF BookShape
  <2>10. SameAccounts(b, c) /\ SameWindows(b, c)
    BY <2>2, <2>5, <2>8, <2>9 DEF SameAccounts, SameWindows
  <2>11. c.days = AddDailyPnl(b.days, t, n, c.pnl[i].proceeds - c.pnl[i].cost)
    BY <2>4, <2>5, <2>8, Zenon
  <2>12. Joins(b, c, k, t, n)
    BY <2>1, <2>2, <2>5, <2>8, <2>11 DEF Joins
  <2>13. Realizes(b, c, k, m, t, n)
    BY <1>2, <2>12, Zenon DEF Realizes
  <2> QED
    BY <2>7, <2>10, <2>13
<1> QED
  BY <1>1, <1>2

LEMMA RealizesLater ==
    ASSUME NEW b, NEW c, NEW d, NEW k \in Markets, NEW m, NEW t, NEW n,
           SameResults(b, c), Realizes(c, d, k, m, t, n)
    PROVE  Realizes(b, d, k, m, t, n)
<1>1. k[2] \in Ids
  BY MarketParts
<1>2. c.days = b.days /\ \A i \in Ids : c.pnl[i].realized = b.pnl[i].realized
  BY DEF SameResults
<1>3. CASE Final(m) /\ ~Holds(m) /\ ~c.pnl[k[2]].realized
  <2>1. Joins(c, d, k, t, n)
    BY <1>3, Zenon DEF Realizes
  <2>2. d.days = AddDailyPnl(b.days, t, n,
                             d.pnl[k[2]].proceeds - d.pnl[k[2]].cost)
    BY <1>2, <2>1, Zenon DEF Joins
  <2>3. /\ d.pnl[k[2]].realized /\ ~b.pnl[k[2]].realized
        /\ \A i \in Ids : i # k[2] => d.pnl[i].realized = b.pnl[i].realized
    BY <1>1, <1>2, <1>3, <2>1 DEF Joins
  <2>4. Joins(b, d, k, t, n)
    BY <2>2, <2>3, Zenon DEF Joins
  <2> QED
    BY <1>3, <2>3, <2>4, Zenon DEF Realizes
<1>4. CASE ~(Final(m) /\ ~Holds(m) /\ ~c.pnl[k[2]].realized)
  <2>1. SameResults(c, d)
    BY <1>4, Zenon DEF Realizes
  <2>2. SameResults(b, d)
    BY <2>1 DEF SameResults
  <2>3. ~(Final(m) /\ ~Holds(m) /\ ~b.pnl[k[2]].realized)
    BY <1>1, <1>2, <1>4
  <2> QED
    BY <2>2, <2>3, Zenon DEF Realizes
<1> QED
  BY <1>3, <1>4

LEMMA SameThenRealizes ==
    ASSUME NEW b, NEW c, NEW d, NEW k \in Markets, NEW m, NEW t, NEW n,
           SameBooks(b, c), SameAccounts(c, d), SameWindows(c, d),
           Realizes(c, d, k, m, t, n)
    PROVE  SameAccounts(b, d) /\ SameWindows(b, d) /\ Realizes(b, d, k, m, t, n)
<1>1. SameAccounts(b, d) /\ SameWindows(b, d)
  BY DEF SameBooks, SameAccounts, SameWindows
<1> QED
  BY <1>1, RealizesLater DEF SameBooks

(* A payout of n from market k, and what settling it does afterwards.      *)
LEMMA MovedThenRealizes ==
    ASSUME NEW b, BookShape(b), NEW c, NEW d, NEW k \in Markets, NEW n \in Nat,
           NEW m, NEW t, NEW q, BookMoved(b, c, k, 0, n, 0), SameWindows(b, c),
           SameResults(b, c), SameAccounts(c, d), SameWindows(c, d),
           Realizes(c, d, k, m, t, q)
    PROVE  /\ BookMoved(b, d, k, 0, n, 0) /\ SameWindows(b, d)
           /\ Realizes(b, d, k, m, t, q)
<1>1. BookMoved(c, d, k, 0, 0, 0)
  <2>1. BookShape(c)
    BY DEF BookMoved
  <2> QED
    BY <2>1, SameIsMoved
<1>2. BookMoved(b, d, k, 0, n, 0)
  <2>1. BookMoved(b, d, k, 0 + 0, n + 0, 0 + 0)
    BY <1>1, MovedTwice
  <2> QED
    BY <2>1
<1>3. SameWindows(b, d)
  BY DEF SameWindows
<1> QED
  BY <1>2, <1>3, RealizesLater

(* The end of do_redeem(), do_claim() and settle_market() moves no money.  *)
LEMMA SettledMoves ==
    ASSUME NEW b, BookShape(b), NEW k \in Markets, NEW m, NEW x, NEW y,
           NEW t, NEW n
    PROVE  LET c == Settled(b, k, m, x, y, t, n) IN
           SameAccounts(b, c) /\ SameWindows(b, c) /\ Realizes(b, c, k, m, t, n)
<1> DEFINE done == b.realized[k[2]].settled \/ ~Holds(m)
           r == [b.realized EXCEPT ![k[2]] =
                  [position |-> @.position + x, lp |-> @.lp + y,
                   settled |-> done]]
           b1 == [b EXCEPT !.realized = r]
           b2 == IF Holds(m) THEN b1 ELSE CloseMarketExposure(b1, k)
           b3 == PruneIfSettled(b2, k, m)
<1>1. SameBooks(b, b1)
  <2>1. DOMAIN r = Ids
    BY DEF BookShape
  <2>2. PICK c : c = b1
    OBVIOUS
  <2>3. /\ DOMAIN c = DOMAIN b /\ c.net = b.net
        /\ c.netTotal = b.netTotal /\ c.exposure = b.exposure /\ c.pnl = b.pnl
        /\ c.window = b.window /\ c.agentWindow = b.agentWindow
        /\ c.days = b.days /\ c.realized = r
    <3> HIDE DEF r
    <3> QED
      BY <2>2 DEF BookShape
  <2> HIDE DEF r, b1
  <2>4. BookShape(c)
    BY <2>1, <2>3 DEF BookShape
  <2>5. SameMoney(b, c)
    BY <2>3, <2>4 DEF SameMoney, SameWindows
  <2> QED
    BY <2>2, <2>5, MoneySame DEF SameBooks
<1> HIDE DEF b1
<1>2. BookShape(b1)
  BY <1>1 DEF SameBooks, SameAccounts
<1>3. SameBooks(b1, b2)
  <2>1. SameBooks(b1, b1)
    BY <1>2 DEF SameBooks, SameAccounts, SameWindows, SameResults
  <2> QED
    BY <1>2, <2>1, ClosingIsSame
<1> HIDE DEF b2
<1>4. BookShape(b2)
  BY <1>3 DEF SameBooks, SameAccounts
<1>5. SameBooks(b2, b3)
  <2>1. SameBooks(b2, b2)
    BY <1>4 DEF SameBooks, SameAccounts, SameWindows, SameResults
  <2>2. SameBooks(b2, IndexRemove(b2, k))
    BY <1>4, IndexKeepsMoney, MoneySame DEF SameBooks
  <2> QED
    BY <2>1, <2>2 DEF PruneIfSettled
<1> HIDE DEF b3
<1>6. SameBooks(b, b3) /\ BookShape(b3)
  <2>1. SameBooks(b, b3)
    BY <1>1, <1>3, <1>5, SameBooksTrans
  <2> QED
    BY <2>1 DEF SameBooks, SameAccounts
<1>7. Settled(b, k, m, x, y, t, n)
        = IF done THEN TryRealize(b3, k, m, t, n) ELSE b3
  BY Zenon DEF Settled, b3, b2, b1
<1> HIDE DEF done
<1>8. CASE done
  <2> DEFINE c == TryRealize(b3, k, m, t, n)
  <2>1. SameAccounts(b3, c) /\ SameWindows(b3, c) /\ Realizes(b3, c, k, m, t, n)
    BY <1>6, TryRealizes
  <2> HIDE DEF c
  <2>2. SameAccounts(b, c) /\ SameWindows(b, c) /\ Realizes(b, c, k, m, t, n)
    BY <1>6, <2>1, SameThenRealizes
  <2> QED
    BY <1>7, <1>8, <2>2 DEF c
<1>9. CASE ~done
  <2>1. Holds(m)
    BY <1>9 DEF done
  <2>2. Realizes(b, b3, k, m, t, n)
    BY <1>6, <2>1, Zenon DEF SameBooks, Realizes
  <2> QED
    BY <1>6, <1>7, <1>9, <2>2 DEF SameBooks
<1> QED
  BY <1>8, <1>9

-----------------------------------------------------------------------------
(* The accounts follow the money.                                          *)

BasisSum(b) == SumFunction([k \in Markets |-> CostBasis(b.net[k])])
FlowSum(f, i) == SumFunction([c \in Cores |-> f[<<c, i>>]])

Agree(b, h) ==
    /\ b.netTotal = BasisSum(b)
    /\ \A k \in Markets : b.exposure[k].amount = h.in[k]
    /\ \A k \in Markets \ (h.batched \cup h.migrated) :
          b.net[k] = [in |-> h.in[k], out |-> h.out[k] + h.fees[k]]
    /\ \A i \in Ids :
          /\ b.pnl[i].cost = FlowSum(h.in, i)
          /\ (\A c \in Cores : <<c, i>> \notin h.batched)
             => b.pnl[i].proceeds = FlowSum(h.out, i)

LEMMA AgreeIsAgree == AccountsAgree <=> Agree(book, hist)
BY Zenon DEF AccountsAgree, Agree, BasisSum, FlowSum, NetExposure

LEMMA BasisMoves ==
    ASSUME NEW b, BookShape(b), NEW c, BookShape(c), NEW k \in Markets,
           \A j \in Markets : j # k => c.net[j] = b.net[j]
    PROVE  BasisSum(c) = BasisSum(b) - CostBasis(b.net[k]) + CostBasis(c.net[k])
<1> DEFINE f == [j \in Markets |-> CostBasis(b.net[j])]
           g == [j \in Markets |-> CostBasis(c.net[j])]
<1>1. \A j \in Markets : f[j] \in Int /\ g[j] \in Int
  BY ShapeParts
<1>2. \A j \in Markets : j # k => f[j] = g[j]
  OBVIOUS
<1>3. f[k] = CostBasis(b.net[k]) /\ g[k] = CostBasis(c.net[k])
  OBVIOUS
<1>4. BasisSum(b) = SumFunctionOnSet(f, Markets)
      /\ BasisSum(c) = SumFunctionOnSet(g, Markets)
  BY SumDomain DEF BasisSum
<1>5. IsFiniteSet(Markets)
  BY FS_Product, TreasuryAssumption DEF Markets
<1> HIDE DEF f, g
<1>6. SumFunctionOnSet(g, Markets) = SumFunctionOnSet(f, Markets) - f[k] + g[k]
  BY <1>1, <1>2, <1>5, SumChange
<1> QED
  BY <1>3, <1>4, <1>6

FlowMoved(f, g, k, d) ==
    /\ f \in [Markets -> Int] /\ g \in [Markets -> Int] /\ g[k] = f[k] + d
    /\ \A j \in Markets : j # k => g[j] = f[j]

SumMoved(f, g, k, d, i) ==
    /\ i = k[2] => FlowSum(g, i) = FlowSum(f, i) + d
    /\ i # k[2] => FlowSum(g, i) = FlowSum(f, i)

LEMMA FlowMoves ==
    ASSUME NEW f, NEW g, NEW k \in Markets, NEW d \in Int,
           FlowMoved(f, g, k, d), NEW i \in Ids
    PROVE  SumMoved(f, g, k, d, i)
<1> DEFINE u == [c \in Cores |-> f[<<c, i>>]]
           v == [c \in Cores |-> g[<<c, i>>]]
<1>1. IsFiniteSet(Cores)
  BY TreasuryAssumption
<1>2. \A c \in Cores : <<c, i>> \in Markets
  BY DEF Markets
<1>3. \A c \in Cores : u[c] \in Int /\ v[c] \in Int
  BY <1>2 DEF FlowMoved
<1>4. FlowSum(f, i) = SumFunctionOnSet(u, Cores)
      /\ FlowSum(g, i) = SumFunctionOnSet(v, Cores)
  BY SumDomain DEF FlowSum
<1>5. PICK q \in Cores : q = k[1] /\ k = <<q, k[2]>>
  BY MarketParts
<1>6. CASE i = k[2]
  <2>1. \A c \in Cores : c # q => u[c] = v[c]
    BY <1>2, <1>5, <1>6 DEF FlowMoved
  <2>2. v[q] = u[q] + d
    BY <1>5, <1>6 DEF FlowMoved
  <2> HIDE DEF u, v
  <2>3. SumFunctionOnSet(v, Cores) = SumFunctionOnSet(u, Cores) - u[q] + v[q]
    BY <1>1, <1>3, <2>1, SumChange
  <2>4. SumFunctionOnSet(u, Cores) \in Int
    BY <1>1, <1>3, SumInt
  <2>5. u[q] \in Int /\ v[q] \in Int
    BY <1>3
  <2> QED
    BY <1>4, <1>6, <2>2, <2>3, <2>4, <2>5 DEF SumMoved
<1>7. CASE i # k[2]
  <2>1. \A c \in Cores : u[c] = v[c]
    BY <1>2, <1>5, <1>7 DEF FlowMoved
  <2> HIDE DEF u, v
  <2> QED
    BY <1>1, <1>3, <1>4, <1>7, <2>1, SumSame DEF SumMoved
<1> QED
  BY <1>6, <1>7

HistMoved(h, g, k, x, y, z) ==
    /\ FlowMoved(h.in, g.in, k, x) /\ FlowMoved(h.out, g.out, k, y)
    /\ FlowMoved(h.fees, g.fees, k, z)
    /\ g.batched = h.batched /\ g.migrated = h.migrated

LEMMA AgreeMoves ==
    ASSUME NEW b, BookShape(b), NEW c, NEW h, NEW g, NEW k \in Markets,
           NEW x \in Int, NEW y \in Int, NEW z \in Int,
           Agree(b, h), BookMoved(b, c, k, x, y, z), HistMoved(h, g, k, x, y, z)
    PROVE  Agree(c, g)
<1>1. BookShape(c) /\ \A j \in Markets : j # k => c.net[j] = b.net[j]
  BY DEF BookMoved
<1>2. k[2] \in Ids
  BY MarketParts
<1>3. c.netTotal = BasisSum(c)
  BY <1>1, BasisMoves DEF BookMoved, Agree
<1>4. ASSUME NEW j \in Markets PROVE c.exposure[j].amount = g.in[j]
  BY DEF BookMoved, HistMoved, FlowMoved, Agree
<1>5. ASSUME NEW j \in Markets \ (g.batched \cup g.migrated)
      PROVE  c.net[j] = [in |-> g.in[j], out |-> g.out[j] + g.fees[j]]
  <2>1. b.net[j] = [in |-> h.in[j], out |-> h.out[j] + h.fees[j]]
    BY <1>5 DEF Agree, HistMoved
  <2>2. c.net[j] \in [in : Int, out : Int]
    BY <1>1, ShapeParts
  <2>3. c.net[j] = [in |-> c.net[j].in, out |-> c.net[j].out]
    BY <2>2
  <2>4. h.out[j] \in Int /\ h.fees[j] \in Int
    BY DEF HistMoved, FlowMoved
  <2>5. CASE j = k
    <3>1. c.net[k].in = b.net[k].in + x /\ c.net[k].out = b.net[k].out + (y + z)
      BY DEF BookMoved
    <3>2. b.net[k].in = h.in[k] /\ b.net[k].out = h.out[k] + h.fees[k]
      BY <2>1, <2>5
    <3>3. /\ g.in[k] = h.in[k] + x /\ g.out[k] = h.out[k] + y
          /\ g.fees[k] = h.fees[k] + z
      BY DEF HistMoved, FlowMoved
    <3>4. c.net[k].in = g.in[k] /\ c.net[k].out = g.out[k] + g.fees[k]
      BY <2>4, <2>5, <3>1, <3>2, <3>3
    <3> QED
      BY <2>3, <2>5, <3>4
  <2>6. CASE j # k
    <3>1. g.in[j] = h.in[j] /\ g.out[j] = h.out[j] /\ g.fees[j] = h.fees[j]
      BY <2>6 DEF HistMoved, FlowMoved
    <3> QED
      BY <1>1, <2>1, <2>6, <3>1
  <2> QED
    BY <2>5, <2>6
<1>6. ASSUME NEW i \in Ids PROVE c.pnl[i].cost = FlowSum(g.in, i)
  <2>1. SumMoved(h.in, g.in, k, x, i)
    <3>1. FlowMoved(h.in, g.in, k, x)
      BY DEF HistMoved
    <3> QED
      BY <3>1, FlowMoves
  <2> QED
    BY <2>1 DEF Agree, BookMoved, SumMoved
<1>7. ASSUME NEW i \in Ids, \A q \in Cores : <<q, i>> \notin g.batched
      PROVE  c.pnl[i].proceeds = FlowSum(g.out, i)
  <2>1. SumMoved(h.out, g.out, k, y, i)
    <3>1. FlowMoved(h.out, g.out, k, y)
      BY DEF HistMoved
    <3> QED
      BY <3>1, FlowMoves
  <2>2. b.pnl[i].proceeds = FlowSum(h.out, i)
    BY <1>7 DEF Agree, HistMoved
  <2> QED
    BY <2>1, <2>2 DEF BookMoved, SumMoved
<1> QED
  BY <1>3, <1>4, <1>5, <1>6, <1>7 DEF Agree

(* A batch is paid into the vault and its markets are exempt from then on. *)
LEMMA AgreeBatched ==
    ASSUME NEW b, NEW h, NEW g, Agree(b, h),
           g.in = h.in, g.fees = h.fees, g.migrated = h.migrated,
           h.batched \subseteq g.batched, h.out \in [Markets -> Int],
           \A j \in Markets : j \notin g.batched => g.out[j] = h.out[j]
    PROVE  Agree(b, g)
<1>1. ASSUME NEW i \in Ids, \A q \in Cores : <<q, i>> \notin g.batched
      PROVE  b.pnl[i].proceeds = FlowSum(g.out, i)
  <2> DEFINE u == [c \in Cores |-> h.out[<<c, i>>]]
             v == [c \in Cores |-> g.out[<<c, i>>]]
  <2>1. \A c \in Cores : <<c, i>> \in Markets
    BY DEF Markets
  <2>2. u = v
    BY <1>1, <2>1
  <2>3. FlowSum(g.out, i) = FlowSum(h.out, i)
    BY <2>2, Zenon DEF FlowSum
  <2>4. \A q \in Cores : <<q, i>> \notin h.batched
    BY <1>1
  <2> QED
    BY <2>3, <2>4 DEF Agree
<1>2. ASSUME NEW k \in Markets \ (g.batched \cup g.migrated)
      PROVE  b.net[k] = [in |-> g.in[k], out |-> g.out[k] + g.fees[k]]
  BY DEF Agree
<1>3. \A i \in Ids : b.pnl[i].cost = FlowSum(g.in, i)
  BY DEF Agree
<1> QED
  BY <1>1, <1>2, <1>3 DEF Agree

(* migrate_market(): the cost basis is dropped with the market.            *)
LEMMA AgreeMigrated ==
    ASSUME NEW b, BookShape(b), NEW h, NEW g, NEW k \in Markets, Agree(b, h),
           g.in = h.in, g.out = h.out, g.fees = h.fees, g.batched = h.batched,
           g.migrated = h.migrated \cup {k}
    PROVE  LET c == IndexRemove(ClearNet(b, k), k) IN
           Agree(c, g) /\ BookShape(c) /\ SameWindows(b, c) /\ SameResults(b, c)
<1> DEFINE x == [in |-> 0, out |-> 0]
           e == ClearNet(b, k)
           c == IndexRemove(e, k)
<1>1. x \in [in : Int, out : Int]
  OBVIOUS
<1>2. /\ BookShape(e) /\ e.net = [b.net EXCEPT ![k] = x]
      /\ e.netTotal = b.netTotal - CostBasis(b.net[k]) + CostBasis(x)
      /\ e.exposure = b.exposure /\ e.pnl = b.pnl
      /\ SameWindows(b, e) /\ e.days = b.days
  <2>1. e = SaveNet(b, k, x)
    BY Zenon DEF ClearNet
  <2> HIDE DEF e, x
  <2> QED
    BY <1>1, <2>1, SavedNet
<1> HIDE DEF e, x
<1>3. SameMoney(e, c)
  BY <1>2, IndexKeepsMoney
<1> HIDE DEF c
<1>4. /\ BookShape(c) /\ c.net = e.net /\ c.netTotal = e.netTotal
      /\ c.exposure = b.exposure /\ c.pnl = b.pnl /\ c.days = b.days
      /\ SameWindows(b, c)
  BY <1>2, <1>3 DEF SameMoney, SameWindows
<1>5. c.net[k] = x /\ \A j \in Markets : j # k => c.net[j] = b.net[j]
  BY <1>2, <1>4 DEF BookShape
<1>6. c.netTotal = BasisSum(c)
  <2>1. BasisSum(c) = BasisSum(b) - CostBasis(b.net[k]) + CostBasis(c.net[k])
    BY <1>4, <1>5, BasisMoves
  <2> QED
    BY <1>2, <1>4, <1>5, <2>1 DEF Agree
<1>7. Agree(c, g)
  BY <1>4, <1>5, <1>6 DEF Agree
<1>8. SameResults(b, c)
  BY <1>4 DEF SameResults
<1> QED
  BY <1>4, <1>7, <1>8 DEF c, e

-----------------------------------------------------------------------------
(* The invariant part by part.                                             *)

HistShape(h) ==
    /\ {"spent", "in", "out", "fees", "results", "ended", "blurred", "batched",
        "migrated", "gifts"} \subseteq DOMAIN h
    /\ h.ended \subseteq Markets
    /\ {h.in, h.out, h.fees} \subseteq [Markets -> Int]
    /\ h.results \in [0 .. Day(MaxTime) -> Int]

StopShape(s) ==
    /\ {"paused", "admin", "tripped", "acked", "max", "days"} \subseteq DOMAIN s
    /\ s.days \in 1 .. 30
    /\ s.tripped => s.paused

YieldShape(y) ==
    /\ {"set", "enabled", "cap", "principal", "supplied", "aside"}
          \subseteq DOMAIN y
    /\ y.principal \in Int /\ y.supplied \in Nat /\ y.aside \in Nat

(* No market has ended, and no result is in doubt or not, that was not.    *)
SameEnds(h, g) ==
    g.results = h.results /\ g.ended = h.ended /\ g.blurred = h.blurred

LEMMA HeldParts ==
    ASSUME Held
    PROVE  /\ BookShape(book) /\ HistShape(hist) /\ StopShape(stop)
           /\ YieldShape(yield) /\ now \in Nat /\ now <= MaxTime
           /\ Agree(book, hist) /\ GovInv /\ global.core \in Cores
           /\ mkt \in [Markets -> MarketType] /\ vault \in VaultType
<1>1. BookShape(book)
  BY DEF Held, TreasuryInv, StateTypes, MoneyInv, MoneyTypes, BookShape
<1>2. HistShape(hist)
  BY DEF Held, TreasuryInv, StateTypes, MoneyInv, MoneyTypes, HistShape
<1>3. StopShape(stop)
  BY DEF Held, MoneyInv, MoneyTypes, StopShape
<1>4. YieldShape(yield) /\ now <= MaxTime
  BY DEF Held, MoneyInv, MoneyTypes, YieldShape
<1>5. now \in Nat /\ GovInv /\ mkt \in [Markets -> MarketType]
      /\ vault \in VaultType
  BY DEF Held, TreasuryInv, StateTypes, GovInv, GovTypes
<1>6. Agree(book, hist)
  BY AgreeIsAgree DEF Held, MoneyInv
<1>7. global.core \in Cores
  BY <1>5, TreasuryAssumption DEF GovInv, GovTypes
<1> QED
  BY <1>1, <1>2, <1>3, <1>4, <1>5, <1>6, <1>7

LEMMA MoneyStep ==
    ASSUME BookShape(book'), HistShape(hist'), StopShape(stop'),
           YieldShape(yield'), now' <= MaxTime, SpendingNumbered',
           WindowsAgree',
           ResultsAgree', Agree(book', hist')
    PROVE  MoneyInv'
<1>1. MoneyTypes'
  BY DEF MoneyTypes, BookShape, HistShape, StopShape, YieldShape
<1>2. AccountsAgree'
  BY Zenon DEF AccountsAgree, Agree, BasisSum, FlowSum, NetExposure
<1> QED
  BY <1>1, <1>2 DEF MoneyInv, StopShape

(* Time may pass, and nothing is spent.                                    *)
LEMMA WindowsStay ==
    ASSUME Held, SameWindows(book, book'), hist'.spent = hist.spent,
           now' \in Nat, now <= now'
    PROVE  SpendingNumbered' /\ WindowsAgree'
<1>1. now \in Nat /\ Hour(now) <= Hour(now') /\ Hour(now) \in Nat
      /\ Hour(now') \in Nat
  BY HeldRecords, Clocks
<1>2. SpendingNumbered'
  <2>1. SpendingNumbered
    BY DEF Held, MoneyInv
  <2>2. \A r \in hist.spent : r.at \in Nat
    BY <2>1 DEF SpendingNumbered
  <2>3. \A r \in hist'.spent : r.at <= now'
    BY <1>1, <2>1, <2>2 DEF SpendingNumbered
  <2> QED
    BY <2>1, <2>3 DEF SpendingNumbered
<1>3. ASSUME NEW w, NEW R, Holding(w, R) PROVE Holding(w, R)'
  <2>1. w.head \in Nat /\ w.head <= Hour(now)
    BY <1>3 DEF Holding, Counts
  <2>2. w.head <= Hour(now')
    BY <1>1, <2>1
  <2> QED
    BY <1>3, <2>2 DEF Holding
<1>4. book'.window = book.window /\ book'.agentWindow = book.agentWindow
  BY DEF SameWindows
<1>5. WindowsAgree'
  <2>1. WindowsAgree
    BY DEF Held, MoneyInv
  <2>2. Holding(book.window, hist.spent)'
    BY <1>3, <1>4, <2>1 DEF WindowsAgree
  <2>3. ASSUME NEW a \in Agents
        PROVE  Holding(book.agentWindow[a], SpentBy(a))'
    BY <1>3, <1>4, <2>1 DEF WindowsAgree, SpentBy
  <2> QED
    BY <1>4, <2>1, <2>2, <2>3 DEF WindowsAgree
<1> QED
  BY <1>2, <1>5

LEMMA ResultsStay ==
    ASSUME Held, SameResults(book, book'), SameEnds(hist, hist'),
           stop'.days = stop.days, now' \in Nat, now <= now'
    PROVE  ResultsAgree'
<1>1. Day(now) <= Day(now') /\ Day(now) \in Nat /\ Day(now') \in Nat
  BY HeldRecords, Clocks
<1>2. ResultsAgree
  BY DEF Held, MoneyInv
<1>3. ResultOf' = ResultOf
  BY Zenon DEF ResultOf, SameEnds
<1>4. book.days.head <= Day(now') /\ 0 .. Day(now) \subseteq 0 .. Day(now')
  BY <1>1, <1>2 DEF ResultsAgree, CountsExcept
<1> QED
  BY <1>2, <1>3, <1>4 DEF ResultsAgree, SameEnds, SameResults

LEMMA SameAgree ==
    ASSUME NEW b, BookShape(b), NEW c, SameAccounts(b, c), NEW h, Agree(b, h)
    PROVE  Agree(c, h)
<1>1. BasisSum(c) = BasisSum(b)
  BY Zenon DEF BasisSum, SameAccounts
<1>2. c.netTotal = BasisSum(c) /\ c.net = b.net
  BY <1>1 DEF SameAccounts, Agree
<1>3. \A k \in Markets : c.exposure[k].amount = h.in[k]
  BY DEF SameAccounts, Agree
<1>4. \A i \in Ids :
        /\ c.pnl[i].cost = FlowSum(h.in, i)
        /\ (\A q \in Cores : <<q, i>> \notin h.batched)
           => c.pnl[i].proceeds = FlowSum(h.out, i)
  BY DEF SameAccounts, Agree
<1>5. \A k \in Markets \ (h.batched \cup h.migrated) :
        c.net[k] = [in |-> h.in[k], out |-> h.out[k] + h.fees[k]]
  BY <1>2 DEF Agree
<1> QED
  BY <1>2, <1>3, <1>4, <1>5 DEF Agree

(* Neither the accounts nor their history move.                            *)
LEMMA QuietMoney ==
    ASSUME Held, SameBooks(book, book'), HistShape(hist'),
           hist'.spent = hist.spent, hist'.in = hist.in, hist'.out = hist.out,
           hist'.fees = hist.fees, SameEnds(hist, hist'),
           hist'.batched = hist.batched, hist'.migrated = hist.migrated,
           StopShape(stop'), stop'.days = stop.days, YieldShape(yield'),
           now' \in Nat, now <= now', now' <= MaxTime
    PROVE  MoneyInv'
<1>1. SpendingNumbered' /\ WindowsAgree'
  BY WindowsStay DEF SameBooks
<1>2. ResultsAgree'
  BY ResultsStay DEF SameBooks
<1>3. BookShape(book')
  BY DEF SameBooks, SameAccounts
<1>4. Agree(book', hist')
  <2>1. PICK c : c = book'
    OBVIOUS
  <2>2. Agree(c, hist)
    BY <2>1, HeldParts, SameAgree DEF SameBooks
  <2> QED
    BY <2>1, <2>2, Zenon DEF Agree
<1> QED
  BY <1>1, <1>2, <1>3, <1>4, MoneyStep

-----------------------------------------------------------------------------
(* Spending.                                                               *)

LEMMA SpendWindows ==
    ASSUME Held, NEW z, z \notin hist.spent, z.at = now, z.agent \in Agents,
           z.amount \in Nat, hist'.spent = hist.spent \cup {z}, now' = now,
           book'.window = ConsumeWindow(book.window, now, z.amount),
           book'.agentWindow =
               [book.agentWindow EXCEPT
                  ![z.agent] = ConsumeWindow(book.agentWindow[z.agent], now,
                                             z.amount)]
    PROVE  WindowsAgree'
<1>1. now \in Nat /\ Records(hist.spent) /\ WindowsAgree
  BY HeldRecords DEF Held, MoneyInv
<1>2. ASSUME NEW w, NEW R \in SUBSET hist.spent, Holding(w, R)
      PROVE  Holding(ConsumeWindow(w, now, z.amount), R \cup {z})
  <2>1. /\ Records(R) /\ Counts(w, Buckets, SpentByHour(R))
        /\ w.head <= Hour(now) /\ z \notin R
        /\ \A r \in R : r.at <= now /\ Hour(r.at) <= w.head
    BY <1>1, <1>2, HeldRecords, FewerRecords DEF Holding
  <2> DEFINE v == ConsumeWindow(w, now, z.amount)
             S == R \cup {z}
  <2>2. /\ Counts(v, Buckets, SpentByHour(S)) /\ v.head = Hour(now)
        /\ \A r \in S : Hour(r.at) <= v.head
    BY <1>1, <2>1, WindowConsumes
  <2>3. Hour(now) <= Hour(now)
    BY HeldRecords
  <2> HIDE DEF v, S
  <2>4. Holding(v, S)
    BY <2>2, <2>3 DEF Holding
  <2> QED
    BY <2>4 DEF v, S
<1>3. ASSUME NEW w, NEW R, Holding(w, R) PROVE Holding(w, R)'
  BY <1>3 DEF Holding
<1>4. Holding(book.window, hist.spent)'
  <2>1. Holding(ConsumeWindow(book.window, now, z.amount), hist.spent \cup {z})
    BY <1>1, <1>2 DEF WindowsAgree
  <2> QED
    BY <1>3, <2>1
<1>5. ASSUME NEW a \in Agents
      PROVE  Holding(book.agentWindow[a], SpentBy(a))'
  <2>1. DOMAIN book.agentWindow = Agents
        /\ Holding(book.agentWindow[a], SpentBy(a))
    BY <1>1 DEF WindowsAgree
  <2>2. CASE a = z.agent
    <3>1. SpentBy(a)' = SpentBy(a) \cup {z} /\ SpentBy(a) \subseteq hist.spent
      BY <2>2 DEF SpentBy
    <3>2. book'.agentWindow[a]
            = ConsumeWindow(book.agentWindow[a], now, z.amount)
      BY <2>1, <2>2
    <3>3. Holding(ConsumeWindow(book.agentWindow[a], now, z.amount),
                  SpentBy(a) \cup {z})
      BY <1>2, <2>1, <3>1
    <3> QED
      BY <1>3, <3>1, <3>2, <3>3
  <2>3. CASE a # z.agent
    <3>1. SpentBy(a)' = SpentBy(a)
      BY <2>3 DEF SpentBy
    <3>2. book'.agentWindow[a] = book.agentWindow[a]
      BY <2>1, <2>3
    <3> QED
      BY <1>3, <2>1, <3>1, <3>2
  <2> QED
    BY <2>2, <2>3
<1>6. DOMAIN book'.agentWindow = Agents
  BY <1>1 DEF WindowsAgree
<1> QED
  BY <1>4, <1>5, <1>6 DEF WindowsAgree

LEMMA SpendNumbered ==
    ASSUME Held, NEW z \in [at : Nat, agent : Agents, amount : Nat, n : Nat],
           z.n = Cardinality(hist.spent), z.at = now,
           hist'.spent = hist.spent \cup {z}, now' = now
    PROVE  SpendingNumbered' /\ z \notin hist.spent
<1>1. SpendingNumbered /\ now \in Nat
  BY HeldRecords DEF Held, MoneyInv
<1>2. PICK c \in Nat : c = Cardinality(hist.spent)
  BY <1>1, FS_CardinalityType DEF SpendingNumbered
<1>3. z \notin hist.spent
  BY <1>1, <1>2 DEF SpendingNumbered
<1>4. IsFiniteSet(hist'.spent) /\ Cardinality(hist'.spent) = c + 1
  BY <1>1, <1>2, <1>3, FS_AddElement DEF SpendingNumbered
<1>5. ASSUME NEW r \in hist'.spent
      PROVE  r.at <= now' /\ r.n < Cardinality(hist'.spent)
  <2>1. r.n \in Nat /\ (r.n < c \/ r.n = c) /\ r.at <= now
    BY <1>1, <1>2 DEF SpendingNumbered
  <2> QED
    BY <1>4, <2>1
<1> QED
  BY <1>1, <1>3, <1>4, <1>5 DEF SpendingNumbered

Spending(a, n) ==
    [at |-> now, agent |-> a, amount |-> n, n |-> Cardinality(hist.spent)]

LEMMA HistSpends ==
    ASSUME HistShape(hist), NEW a, NEW k \in Markets, NEW n \in Int,
           hist' = [hist EXCEPT !.spent = @ \cup {Spending(a, n)},
                                !.in[k] = @ + n]
    PROVE  /\ HistShape(hist') /\ hist'.spent = hist.spent \cup {Spending(a, n)}
           /\ HistMoved(hist, hist', k, n, 0, 0)
           /\ SameEnds(hist, hist')
<1>1. PICK s, f : s = hist.spent \cup {Spending(a, n)}
                  /\ f = [hist.in EXCEPT ![k] = @ + n]
  OBVIOUS
<1>2. hist' = [hist EXCEPT !.spent = s, !.in = f]
  BY <1>1, Zenon
<1>3. /\ DOMAIN hist' = DOMAIN hist /\ hist'.spent = s /\ hist'.in = f
      /\ hist'.out = hist.out /\ hist'.fees = hist.fees
      /\ SameEnds(hist, hist') /\ hist'.batched = hist.batched
      /\ hist'.migrated = hist.migrated
  BY <1>2 DEF HistShape, SameEnds
<1>4. /\ hist.in \in [Markets -> Int] /\ hist.out \in [Markets -> Int]
      /\ hist.fees \in [Markets -> Int]
  BY DEF HistShape
<1>5. FlowMoved(hist.in, f, k, n)
  BY <1>1, <1>4 DEF FlowMoved
<1>6. FlowMoved(hist.out, hist'.out, k, 0)
      /\ FlowMoved(hist.fees, hist'.fees, k, 0)
  BY <1>3, <1>4 DEF FlowMoved
<1>7. HistShape(hist')
  BY <1>3, <1>4, <1>5 DEF HistShape, FlowMoved, SameEnds
<1> QED
  BY <1>1, <1>3, <1>5, <1>6, <1>7 DEF HistMoved

LEMMA YieldMoves ==
    ASSUME YieldShape(yield), NEW r \in Int, r <= yield.supplied
    PROVE  YieldShape(YieldAfter(r))
<1>1. PICK u \in Int, v \in Nat :
          u = NonNeg(yield.principal - r) /\ v = yield.supplied - r
  BY DEF YieldShape, NonNeg
<1>2. YieldAfter(r) = [yield EXCEPT !.principal = u, !.supplied = v]
  BY <1>1, Zenon DEF YieldAfter
<1> QED
  BY <1>1, <1>2 DEF YieldShape

LEMMA SpendMoney ==
    ASSUME Held, NEW a \in Agents, NEW k \in Markets, NEW m, NEW n \in Nat,
           NEW short \in Int, NEW b, SameMoney(book, b), LiquidOk(n, short),
           Spend(a, k, m, b, n, short)
    PROVE  MoneyInv'
<1>1. /\ book' = Spent(b, a, k, n) /\ yield' = YieldAfter(Recalled(n))
      /\ hist' = [hist EXCEPT !.spent = @ \cup {Spending(a, n)},
                              !.in[k] = @ + n]
      /\ stop' = stop /\ now' = now
  BY DEF Spend, Spending, govVars
<1>2. /\ BookShape(book) /\ HistShape(hist) /\ StopShape(stop)
      /\ YieldShape(yield) /\ now \in Nat /\ now <= MaxTime
      /\ Agree(book, hist) /\ vault \in VaultType
  BY HeldParts
<1>3. /\ HistShape(hist') /\ hist'.spent = hist.spent \cup {Spending(a, n)}
      /\ HistMoved(hist, hist', k, n, 0, 0) /\ SameEnds(hist, hist')
  <2>1. n \in Int /\ HistShape(hist)
    BY <1>2
  <2>2. hist' = [hist EXCEPT !.spent = @ \cup {Spending(a, n)}, !.in[k] = @ + n]
    BY <1>1
  <2> QED
    BY <2>1, <2>2, HistSpends, Zenon
<1>4. YieldShape(yield')
  <2>1. vault.idle \in Int
    BY <1>2 DEF VaultType
  <2>2. Recalled(n) \in Int
    BY <2>1 DEF Recalled
  <2>3. Recalled(n) <= yield.supplied
    BY <1>2, <2>2 DEF LiquidOk, YieldShape
  <2> QED
    BY <1>1, <1>2, <2>2, <2>3, YieldMoves
<1>5. /\ BookMoved(b, book', k, n, 0, 0) /\ SameResults(b, book')
      /\ book'.window = ConsumeWindow(b.window, now, n)
      /\ book'.agentWindow = [b.agentWindow EXCEPT
                        ![a] = ConsumeWindow(b.agentWindow[a], now, n)]
  <2>1. BookShape(b)
    BY DEF SameMoney
  <2>2. SpentPost(b, Spent(b, a, k, n), a, k, n)
    BY <2>1, SpentMoves
  <2> QED
    BY <1>1, <2>2, Zenon DEF SpentPost
<1>6. b.window = book.window /\ b.agentWindow = book.agentWindow
      /\ SameResults(book, b) /\ BookShape(b)
  BY DEF SameMoney, SameWindows, SameResults
<1>7. /\ Spending(a, n) \in [at : Nat, agent : Agents, amount : Nat, n : Nat]
      /\ Spending(a, n).n = Cardinality(hist.spent)
      /\ Spending(a, n).at = now /\ Spending(a, n).agent = a
      /\ Spending(a, n).amount = n
  <2>1. Cardinality(hist.spent) \in Nat
    BY FS_CardinalityType DEF Held, MoneyInv, SpendingNumbered
  <2> QED
    BY <1>2, <2>1 DEF Spending
<1>8. SpendingNumbered' /\ Spending(a, n) \notin hist.spent
  BY <1>1, <1>3, <1>7, SpendNumbered
<1>9. WindowsAgree'
  BY <1>1, <1>3, <1>5, <1>6, <1>7, <1>8, SpendWindows
<1>10. ResultsAgree'
  <2>1. SameResults(book, book')
    BY <1>5, <1>6 DEF SameResults
  <2> QED
    BY <1>1, <1>2, <1>3, <2>1, ResultsStay
<1>11. Agree(b, hist)
  BY <1>2, Zenon DEF Agree, SameMoney, BasisSum
<1>12. Agree(book', hist')
  <2>1. n \in Int /\ 0 \in Int
    OBVIOUS
  <2> QED
    BY <1>3, <1>5, <1>6, <1>11, <2>1, AgreeMoves, Zenon
<1>13. BookShape(book')
  BY <1>5 DEF BookMoved
<1> QED
  BY <1>1, <1>2, <1>3, <1>4, <1>8, <1>9, <1>10, <1>12, <1>13, MoneyStep

-----------------------------------------------------------------------------
(* Payouts and results.                                                    *)

(* The day's result grows by r in the window and by x in the history, and  *)
(* the day is blurred unless they agree.                                   *)
DayJoins(r, x) ==
    /\ book'.days = AddDailyPnl(book.days, now, stop.days, r)
    /\ hist'.results = [hist.results EXCEPT ![Day(now)] = @ + x]
    /\ hist.blurred \subseteq hist'.blurred
    /\ Day(now) \notin hist'.blurred => x = r

LEMMA RaisedAt ==
    ASSUME NEW M \in Nat, NEW f \in [0 .. M -> Int], NEW d \in 0 .. M,
           NEW x \in Int, NEW g, g = [f EXCEPT ![d] = @ + x]
    PROVE  /\ g \in [0 .. M -> Int] /\ g[d] = f[d] + x
           /\ \A e \in 0 .. M : e # d => g[e] = f[e]
OBVIOUS

LEMMA ResultJoins ==
    ASSUME Held, NEW r \in Int, NEW x \in Int, DayJoins(r, x)
    PROVE  /\ CountsExcept(book'.days, stop.days, ResultOf', hist'.blurred)
           /\ book'.days.head = Day(now)
           /\ \A d \in DOMAIN hist'.results \ hist'.blurred :
                 d > Day(now) => hist'.results[d] = 0
<1> DEFINE D == Day(now)
           n == stop.days
           v == Advance(book.days, D, n)
           f == ResultOf
           f1 == ResultOf'
           B == hist'.blurred
<1>1. /\ n \in Nat \ {0} /\ D \in Nat
      /\ hist.results \in [0 .. Day(MaxTime) -> Int]
      /\ Day(MaxTime) \in Nat /\ D <= Day(MaxTime)
      /\ \A d \in Int \ hist.blurred : d > D => f[d] = 0
  BY HeldDays
<1>2. PICK g \in [Int -> Int] : DaysHold(g)
  BY HeldRing
<1>3. /\ Counts(v, n, g) /\ v.head = D
      /\ \A d \in Int \ hist.blurred : g[d] = f[d]
  BY <1>2 DEF DaysHold
<1>4. /\ hist'.results \in [0 .. Day(MaxTime) -> Int]
      /\ hist'.results[D] = hist.results[D] + x
      /\ \A d \in 0 .. Day(MaxTime) : d # D
             => hist'.results[d] = hist.results[d]
  <2>1. D \in 0 .. Day(MaxTime)
    BY <1>1
  <2>2. hist'.results = [hist.results EXCEPT ![D] = @ + x]
    BY DEF DayJoins
  <2>3. PICK M \in Nat : M = Day(MaxTime)
    BY <1>1
  <2>4. PICK p \in [0 .. M -> Int] : p = hist.results
    BY <1>1, <2>3
  <2>5. PICK q : q = hist'.results
    OBVIOUS
  <2> HIDE DEF D
  <2>6. q = [p EXCEPT ![D] = @ + x] /\ D \in 0 .. M
    BY <2>1, <2>2, <2>3, <2>4, <2>5
  <2>7. /\ q \in [0 .. M -> Int] /\ q[D] = p[D] + x
        /\ \A d \in 0 .. M : d # D => q[d] = p[d]
    BY <2>6, RaisedAt
  <2> QED
    BY <2>3, <2>4, <2>5, <2>7
<1>5. ASSUME NEW d \in Int
      PROVE  /\ f[d] = IF d \in 0 .. Day(MaxTime) THEN hist.results[d] ELSE 0
             /\ f1[d] = IF d \in 0 .. Day(MaxTime) THEN hist'.results[d] ELSE 0
  <2>1. DOMAIN hist.results = 0 .. Day(MaxTime)
        /\ DOMAIN hist'.results = 0 .. Day(MaxTime)
    BY <1>1, <1>4
  <2> QED
    BY <2>1, Zenon DEF ResultOf
<1>6. hist.blurred \subseteq B /\ (D \notin B => x = r)
  BY DEF DayJoins
<1>7. book'.days = AddToHead(v, r)
  BY Zenon DEF DayJoins, AddDailyPnl
<1> HIDE DEF v, f, f1, D, n, B
<1>8. f1[D] = f[D] + x /\ \A d \in Int : d # D => f1[d] = f[d]
  <2>1. f[D] = hist.results[D] /\ f1[D] = hist'.results[D]
    BY <1>1, <1>5
  <2>2. ASSUME NEW d \in Int, d # D PROVE f1[d] = f[d]
    BY <1>4, <1>5, <2>2
  <2> QED
    BY <1>4, <2>1, <2>2
<1>9. PICK g1 : g1 = [d \in Int |-> IF d = D THEN g[d] + r ELSE g[d]]
  OBVIOUS
<1>10. Counts(AddToHead(v, r), n, g1) /\ AddToHead(v, r).head = D
  <2>1. Raised(g, g1, v.head, r)
    BY <1>1, <1>3, <1>9 DEF Raised
  <2>2. Counts(AddToHead(v, r), n, g1) /\ AddToHead(v, r).head = v.head
    BY <1>1, <1>3, <2>1, AddCounts
  <2> QED
    BY <1>3, <2>2
<1>11. \A d \in Int \ B : g1[d] = f1[d]
  <2>1. ASSUME NEW d \in Int \ B PROVE g1[d] = f1[d]
    <3>1. d \in Int \ hist.blurred
      BY <1>6
    <3>2. g[d] = f[d]
      BY <1>3, <3>1
    <3>3. CASE d = D
      BY <1>6, <1>8, <1>9, <3>2, <3>3
    <3>4. CASE d # D
      BY <1>8, <1>9, <3>2, <3>4
    <3> QED
      BY <3>3, <3>4
  <2> QED
    BY <2>1
<1>12. CountsExcept(AddToHead(v, r), n, f1, B)
  BY <1>1, <1>10, <1>11, CountsOutside
<1>13. ASSUME NEW d \in DOMAIN hist'.results \ B, d > D
       PROVE  hist'.results[d] = 0
  <2>1. d \in Int /\ d \in 0 .. Day(MaxTime) /\ d # D
    <3>1. d \in 0 .. Day(MaxTime) /\ d > D
      BY <1>4, <1>13
    <3> QED
      BY <1>1, <3>1
  <2>2. d \in Int \ hist.blurred
    BY <1>6, <1>13, <2>1
  <2>3. f[d] = 0 /\ f1[d] = f[d]
    BY <1>1, <1>8, <1>13, <2>1, <2>2
  <2>4. f1[d] = hist'.results[d]
    BY <1>5, <2>1
  <2> QED
    BY <2>3, <2>4, Zenon
<1> QED
  BY <1>7, <1>10, <1>12, <1>13 DEF n, D, f1, B

(* What a settling call does to the history.                               *)
HistTo(f, q, e, z) ==
    hist' = [hist EXCEPT !.out = f, !.results = q, !.ended = e, !.blurred = z]

LEMMA HistSettles ==
    ASSUME HistShape(hist), NEW k \in Markets, NEW n \in Int,
           NEW q \in [0 .. Day(MaxTime) -> Int], NEW e \in SUBSET Markets,
           NEW z, NEW f, f = [hist.out EXCEPT ![k] = @ + n],
           HistTo(f, q, e, z)
    PROVE  /\ HistShape(hist') /\ hist'.spent = hist.spent
           /\ HistMoved(hist, hist', k, 0, n, 0)
           /\ hist'.results = q /\ hist'.ended = e /\ hist'.blurred = z
<1>1. /\ DOMAIN hist' = DOMAIN hist /\ hist'.spent = hist.spent
      /\ hist'.in = hist.in /\ hist'.out = f /\ hist'.fees = hist.fees
      /\ hist'.results = q /\ hist'.ended = e /\ hist'.blurred = z
      /\ hist'.batched = hist.batched /\ hist'.migrated = hist.migrated
  BY DEF HistShape, HistTo
<1>2. /\ hist.in \in [Markets -> Int] /\ hist.out \in [Markets -> Int]
      /\ hist.fees \in [Markets -> Int]
  BY DEF HistShape
<1>3. FlowMoved(hist.out, f, k, n)
  BY <1>2 DEF FlowMoved
<1>4. FlowMoved(hist.in, hist'.in, k, 0)
      /\ FlowMoved(hist.fees, hist'.fees, k, 0)
  BY <1>1, <1>2 DEF FlowMoved
<1>5. HistShape(hist')
  BY <1>1, <1>2, <1>3 DEF FlowMoved, HistShape
<1> QED
  BY <1>1, <1>3, <1>4, <1>5 DEF HistMoved

LEMMA HistReturns ==
    ASSUME HistShape(hist), NEW k \in Markets, NEW n \in Int,
           hist' = [hist EXCEPT !.out[k] = @ + n]
    PROVE  /\ HistShape(hist') /\ hist'.spent = hist.spent
           /\ HistMoved(hist, hist', k, 0, n, 0) /\ SameEnds(hist, hist')
<1>1. PICK q, e, z :
        q = hist.results /\ e = hist.ended /\ z = hist.blurred
  OBVIOUS
<1>2. PICK f : f = [hist.out EXCEPT ![k] = @ + n]
  OBVIOUS
<1>3. HistTo(f, q, e, z)
  <2>1. hist' = [hist EXCEPT !.out = f]
    BY <1>2, Zenon
  <2> QED
    BY <1>1, <2>1 DEF HistShape, HistTo
<1>4. q \in [0 .. Day(MaxTime) -> Int] /\ e \in SUBSET Markets
  BY <1>1 DEF HistShape
<1>5. /\ HistShape(hist') /\ hist'.spent = hist.spent
      /\ HistMoved(hist, hist', k, 0, n, 0)
      /\ hist'.results = q /\ hist'.ended = e /\ hist'.blurred = z
  BY <1>2, <1>3, <1>4, HistSettles
<1> QED
  BY <1>1, <1>5 DEF SameEnds

(* The market's part of its day, by the money.                             *)
TrueResult(k, n) == hist.out[k] + n - hist.in[k]

LEMMA SettleHist ==
    ASSUME Held, NEW k \in Markets, NEW m, NEW n \in Int, NEW b,
           Settle(k, m, b, n)
    PROVE  /\ HistShape(hist') /\ hist'.spent = hist.spent
           /\ HistMoved(hist, hist', k, 0, n, 0)
           /\ ~Ends(k, m) => SameEnds(hist, hist')
           /\ Ends(k, m) =>
                 /\ hist'.results = [hist.results EXCEPT
                                       ![Day(now)] = @ + TrueResult(k, n)]
                 /\ hist'.ended = hist.ended \cup {k}
                 /\ hist'.blurred = IF Unclear(k)
                                    THEN hist.blurred \cup {Day(now)}
                                    ELSE hist.blurred
<1>1. HistShape(hist)
  BY HeldParts
<1>2. hist' = IF Ends(k, m) THEN Ended(k, n)
              ELSE [hist EXCEPT !.out[k] = @ + n]
  BY DEF Settle
<1>3. CASE ~Ends(k, m)
  BY <1>1, <1>2, <1>3, HistReturns
<1>4. CASE Ends(k, m)
  <2>1. PICK f, q, e, z :
          /\ f = [hist.out EXCEPT ![k] = @ + n]
          /\ q = [hist.results EXCEPT
                     ![Day(now)] = @ + hist.out[k] + n - hist.in[k]]
          /\ e = hist.ended \cup {k}
          /\ z = IF Unclear(k) THEN hist.blurred \cup {Day(now)}
                 ELSE hist.blurred
    OBVIOUS
  <2>2. HistTo(f, q, e, z)
    BY <1>2, <1>4, <2>1, Zenon DEF Ended, HistTo
  <2>3. /\ hist.results \in [0 .. Day(MaxTime) -> Int]
        /\ Day(now) \in 0 .. Day(MaxTime)
        /\ hist.out[k] \in Int /\ hist.in[k] \in Int
    BY <1>1, HeldDays DEF HistShape
  <2>4. q = [hist.results EXCEPT ![Day(now)] = @ + TrueResult(k, n)]
    <3>1. PICK y \in Int : y = hist.results[Day(now)]
      BY <2>3
    <3>2. PICK x \in Int : x = y + hist.out[k] + n - hist.in[k]
      BY <2>3
    <3>3. x = y + TrueResult(k, n)
      BY <2>3, <3>2 DEF TrueResult
    <3>4. q = [hist.results EXCEPT ![Day(now)] = x]
      BY <2>1, <3>1, <3>2
    <3> QED
      BY <3>1, <3>3, <3>4, Zenon
  <2>5. q \in [0 .. Day(MaxTime) -> Int] /\ e \in SUBSET Markets
    <3>1. TrueResult(k, n) \in Int
      BY <2>3 DEF TrueResult
    <3>2. PICK M \in Nat, u \in Int : M = Day(MaxTime) /\ u = TrueResult(k, n)
      BY <3>1, HeldDays
    <3>3. PICK h \in [0 .. M -> Int], d \in 0 .. M :
            h = hist.results /\ d = Day(now)
      BY <2>3, <3>2
    <3>4. q = [h EXCEPT ![d] = @ + u]
      BY <2>4, <3>2, <3>3, Zenon
    <3>5. q \in [0 .. M -> Int]
      BY <3>4, RaisedAt
    <3> QED
      BY <1>1, <2>1, <3>2, <3>5 DEF HistShape
  <2>6. /\ HistShape(hist') /\ hist'.spent = hist.spent
        /\ HistMoved(hist, hist', k, 0, n, 0)
        /\ hist'.results = q /\ hist'.ended = e /\ hist'.blurred = z
    <3>1. f = [hist.out EXCEPT ![k] = @ + n]
      BY <2>1
    <3> QED
      BY <1>1, <2>2, <2>5, <3>1, HistSettles
  <2> QED
    BY <1>4, <2>1, <2>4, <2>6
<1> QED
  BY <1>3, <1>4

(* With no other market of the id in use, the id's flow is the market's.   *)
LEMMA OneFlow ==
    ASSUME NEW f \in [Markets -> Int], NEW k \in Markets,
           \A j \in Markets \ {k} : j[2] = k[2] => f[j] = 0
    PROVE  FlowSum(f, k[2]) = f[k]
<1>1. PICK q \in Cores, i \in Ids : q = k[1] /\ i = k[2] /\ k = <<q, i>>
  BY MarketParts
<1>2. PICK u : u = [c \in Cores |-> f[<<c, i>>]]
  OBVIOUS
<1>3. \A c \in Cores : <<c, i>> \in Markets
  BY DEF Markets
<1>4. \A c \in Cores : u[c] \in Int
  BY <1>2, <1>3
<1>5. u[q] = f[k] /\ u[q] \in Int
  BY <1>1, <1>2, <1>4
<1>6. ASSUME NEW c \in Cores \ {q} PROVE u[c] = 0
  <2>1. <<c, i>> \in Markets \ {k} /\ <<c, i>>[2] = k[2]
    BY <1>1, <1>3
  <2> QED
    BY <1>2, <2>1
<1>7. SumFunction(u) = SumFunctionOnSet(u, Cores)
  BY <1>2, SumDomain
<1>8. SumFunctionOnSet(u, Cores) = SumFunctionOnSet(u, {q})
  BY <1>4, <1>6, SumSupport, TreasuryAssumption
<1>9. SumFunctionOnSet(u, {q}) = u[q]
  BY <1>5, SumSingle
<1> QED
  BY <1>1, <1>2, <1>5, <1>7, <1>8, <1>9 DEF FlowSum

(* A clear end: what the accounts say of the id is the market's result.    *)
LEMMA ClearResult ==
    ASSUME Held, NEW k \in Markets, NEW n \in Int, NEW b, ~Unclear(k),
           HistMoved(hist, hist', k, 0, n, 0), Agree(b, hist')
    PROVE  b.pnl[k[2]].proceeds - b.pnl[k[2]].cost = TrueResult(k, n)
<1>1. k[2] \in Ids
  BY MarketParts
<1>2. /\ hist'.in \in [Markets -> Int] /\ hist'.out \in [Markets -> Int]
      /\ hist'.in[k] = hist.in[k] + 0 /\ hist'.out[k] = hist.out[k] + n
      /\ \A j \in Markets : j # k => /\ hist'.in[j] = hist.in[j]
                                     /\ hist'.out[j] = hist.out[j]
      /\ hist'.batched = hist.batched
  BY DEF HistMoved, FlowMoved
<1>3. /\ k \notin hist.batched
      /\ \A j \in Markets \ {k} : j[2] = k[2] =>
            j \notin hist.batched /\ hist.in[j] = 0 /\ hist.out[j] = 0
  BY DEF Unclear
<1>4. \A j \in Markets \ {k} :
        j[2] = k[2] => hist'.in[j] = 0 /\ hist'.out[j] = 0
  BY <1>2, <1>3
<1>5. FlowSum(hist'.in, k[2]) = hist'.in[k]
      /\ FlowSum(hist'.out, k[2]) = hist'.out[k]
  BY <1>2, <1>4, OneFlow
<1>6. \A c \in Cores : <<c, k[2]>> \notin hist'.batched
  <2>1. ASSUME NEW c \in Cores PROVE <<c, k[2]>> \notin hist.batched
    <3>1. <<c, k[2]>> \in Markets /\ <<c, k[2]>>[2] = k[2]
      BY <1>1 DEF Markets
    <3> QED
      BY <1>3, <3>1
  <2> QED
    BY <1>2, <2>1
<1>7. b.pnl[k[2]].cost = hist'.in[k] /\ b.pnl[k[2]].proceeds = hist'.out[k]
  BY <1>1, <1>5, <1>6 DEF Agree
<1>8. hist.in[k] \in Int /\ hist.out[k] \in Int
  BY HeldParts DEF HistShape
<1> QED
  BY <1>2, <1>7, <1>8 DEF TrueResult

(* What is realized has ended, in some core.                               *)
LEMMA EndedIsRealized ==
    ASSUME Held, NEW k \in Markets
    PROVE  /\ k \in hist.ended => book.pnl[k[2]].realized
           /\ book.pnl[k[2]].realized /\ k \notin hist.ended => Unclear(k)
<1>1. PICK q \in Cores, i \in Ids : q = k[1] /\ i = k[2] /\ k = <<q, i>>
  BY MarketParts
<1>2. book.pnl[i].realized <=> \E c \in Cores : <<c, i>> \in hist.ended
  BY DEF Held, MoneyInv, ResultsAgree
<1>3. k \in hist.ended => book.pnl[k[2]].realized
  BY <1>1, <1>2
<1>4. ASSUME book.pnl[k[2]].realized, k \notin hist.ended PROVE Unclear(k)
  <2>1. PICK c \in Cores : <<c, i>> \in hist.ended
    BY <1>1, <1>2, <1>4
  <2>2. <<c, i>> \in Markets \ {k} /\ <<c, i>>[2] = k[2]
    BY <1>1, <1>4, <2>1 DEF Markets
  <2> QED
    BY <2>1, <2>2 DEF Unclear
<1> QED
  BY <1>3, <1>4

(* A payout of n from market k and all that settling it does.              *)
SettlesTo(k, m, n, b) ==
    /\ BookMoved(book, b, k, 0, n, 0) /\ SameWindows(book, b)
    /\ Realizes(book, b, k, m, now, stop.days)
    /\ Settle(k, m, b, n)

Settling == \E k \in Markets, n \in Nat : \E m, b : SettlesTo(k, m, n, b)

(* try_realize(): what joins the day's result is what the market made.     *)
LEMMA SettleResults ==
    ASSUME Held, NEW k \in Markets, NEW m, NEW n \in Nat, NEW b,
           SettlesTo(k, m, n, b), Agree(b, hist'), stop'.days = stop.days
    PROVE  ResultsAgree'
<1>1. PICK q \in Cores, i \in Ids : q = k[1] /\ i = k[2] /\ k = <<q, i>>
  BY MarketParts
<1>2. book' = b /\ now' = now /\ BookShape(b)
  BY DEF SettlesTo, Settle, Return, govVars, BookMoved
<1>3. n \in Int /\ Settle(k, m, b, n)
  BY DEF SettlesTo
<1>4. /\ HistShape(hist') /\ HistMoved(hist, hist', k, 0, n, 0)
      /\ ~Ends(k, m) => SameEnds(hist, hist')
      /\ Ends(k, m) =>
            /\ hist'.results = [hist.results EXCEPT
                                  ![Day(now)] = @ + TrueResult(k, n)]
            /\ hist'.ended = hist.ended \cup {k}
            /\ hist'.blurred = IF Unclear(k) THEN hist.blurred \cup {Day(now)}
                               ELSE hist.blurred
  BY <1>3, SettleHist
<1>5. /\ k \in hist.ended => book.pnl[i].realized
      /\ book.pnl[i].realized /\ k \notin hist.ended => Unclear(k)
  BY <1>1, EndedIsRealized
<1>6. /\ now \in Nat /\ Day(now) \in Nat /\ hist.blurred \subseteq 0 .. Day(now)
      /\ \A d \in Int : ResultOf[d] \in Int
      /\ hist.results \in [0 .. Day(MaxTime) -> Int]
      /\ Day(now) \in 0 .. Day(MaxTime)
  BY HeldDays
<1>7. ResultsAgree
  BY DEF Held, MoneyInv
<1>8. CASE ~Ends(k, m)
  <2>1. ~(Final(m) /\ ~Holds(m) /\ ~book.pnl[k[2]].realized)
    BY <1>1, <1>5, <1>8 DEF Ends
  <2>2. SameResults(book, b)
    BY <2>1, Zenon DEF SettlesTo, Realizes
  <2>3. SameResults(book, book') /\ now' \in Nat /\ now <= now'
    BY <1>2, <1>6, <2>2
  <2> QED
    BY <1>4, <1>8, <2>3, ResultsStay
<1>9. CASE Ends(k, m)
  <2>1. Final(m) /\ ~Holds(m) /\ k \notin hist.ended
    BY <1>9, Zenon DEF Ends
  <2>2. PICK x \in Int : x = TrueResult(k, n)
    BY HeldParts DEF HistShape, TrueResult
  <2>3. hist'.results = [hist.results EXCEPT ![Day(now)] = @ + x]
    BY <1>4, <1>9, <2>2
  <2>4. /\ hist.blurred \subseteq hist'.blurred
        /\ hist'.blurred \subseteq 0 .. Day(now)
        /\ Unclear(k) => Day(now) \in hist'.blurred
    BY <1>4, <1>6, <1>9
  <2>5. ASSUME b.pnl[i].realized,
               \A j \in Ids : j # i => b.pnl[j].realized = book.pnl[j].realized,
               NEW j \in Ids
        PROVE  book'.pnl[j].realized
                 <=> \E c \in Cores : <<c, j>> \in hist'.ended
    <3>1. hist'.ended = hist.ended \cup {<<q, i>>}
      BY <1>1, <1>4, <1>9
    <3>2. CASE j = i
      BY <1>2, <2>5, <3>1, <3>2
    <3>3. CASE j # i
      <4>1. \A c \in Cores : <<c, j>> # <<q, i>>
        BY <3>3
      <4>2. book.pnl[j].realized <=> \E c \in Cores : <<c, j>> \in hist.ended
        BY <1>7 DEF ResultsAgree
      <4> QED
        BY <1>2, <2>5, <3>1, <3>3, <4>1, <4>2
    <3> QED
      BY <3>2, <3>3
  <2>6. CASE book.pnl[i].realized
    <3>1. SameResults(book, b)
      BY <1>1, <2>6, Zenon DEF SettlesTo, Realizes
    <3>2. book'.days = book.days /\ Day(now) \in hist'.blurred
      BY <1>2, <1>5, <2>1, <2>4, <2>6, <3>1 DEF SameResults
    <3>3. \A j \in Ids : book'.pnl[j].realized
                           <=> \E c \in Cores : <<c, j>> \in hist'.ended
      BY <2>5, <2>6, <3>1 DEF SameResults
    <3>4. ASSUME NEW d \in Int, d \notin hist'.blurred
          PROVE  ResultOf'[d] = ResultOf[d]
      <4>1. d # Day(now)
        BY <3>2, <3>4
      <4>2. DOMAIN hist'.results = DOMAIN hist.results
            /\ (d \in DOMAIN hist.results => hist'.results[d] = hist.results[d])
        BY <1>6, <2>3, <4>1
      <4> QED
        BY <4>2 DEF ResultOf
    <3>5. CountsExcept(book.days, stop.days, ResultOf', hist'.blurred)
      <4>1. PICK g \in [Int -> Int] :
               /\ Counts(book.days, stop.days, g)
               /\ \A d \in Int \ hist.blurred : g[d] = ResultOf[d]
        BY HeldCounts
      <4>2. \A d \in Int \ hist'.blurred : g[d] = ResultOf'[d]
        BY <2>4, <3>4, <4>1
      <4>3. stop.days \in Nat \ {0}
        BY HeldDays
      <4> QED
        BY <4>1, <4>2, <4>3, CountsOutside
    <3>6. ASSUME NEW d \in DOMAIN hist'.results \ hist'.blurred,
                 d > book.days.head
          PROVE  hist'.results[d] = 0
      <4>1. d \in DOMAIN hist.results \ hist.blurred /\ d # Day(now)
        BY <1>6, <2>3, <2>4, <3>2
      <4>2. hist.results[d] = 0
        BY <1>7, <3>6, <4>1 DEF ResultsAgree
      <4> QED
        BY <1>6, <2>3, <4>1, <4>2
    <3> QED
      BY <1>2, <1>7, <2>4, <3>2, <3>3, <3>5, <3>6 DEF ResultsAgree
  <2>7. CASE ~book.pnl[i].realized
    <3>1. Joins(book, b, k, now, stop.days)
      BY <1>1, <2>1, <2>7, Zenon DEF SettlesTo, Realizes
    <3>2. PICK r \in Int : r = b.pnl[i].proceeds - b.pnl[i].cost
      BY <1>2, ShapeParts
    <3>3. Day(now) \notin hist'.blurred => x = r
      BY <1>1, <1>3, <1>4, <2>2, <2>4, <3>2, ClearResult
    <3>4. book'.days = AddDailyPnl(book.days, now, stop.days, r)
      BY <1>1, <1>2, <3>1, <3>2, Zenon DEF Joins
    <3>5. DayJoins(r, x)
      BY <2>3, <2>4, <3>3, <3>4 DEF DayJoins
    <3>6. /\ CountsExcept(book'.days, stop.days, ResultOf', hist'.blurred)
          /\ book'.days.head = Day(now)
          /\ \A d \in DOMAIN hist'.results \ hist'.blurred :
                d > Day(now) => hist'.results[d] = 0
      BY <3>5, ResultJoins
    <3>7. \A j \in Ids : book'.pnl[j].realized
                           <=> \E c \in Cores : <<c, j>> \in hist'.ended
      BY <1>1, <2>5, <3>1 DEF Joins
    <3> QED
      BY <1>2, <1>6, <2>4, <3>6, <3>7 DEF ResultsAgree
  <2> QED
    BY <2>6, <2>7
<1> QED
  BY <1>8, <1>9

LEMMA StopAfter ==
    ASSUME StopShape(stop), NEW b
    PROVE  StopShape(CheckDrawdown(b)) /\ CheckDrawdown(b).days = stop.days
<1>1. PICK s : s = [stop EXCEPT !.paused = TRUE, !.tripped = TRUE,
           !.acked = FALSE]
  OBVIOUS
<1>2. CheckDrawdown(b) = stop \/ CheckDrawdown(b) = s
  BY <1>1, Zenon DEF CheckDrawdown
<1>3. StopShape(s) /\ s.days = stop.days
  BY <1>1 DEF StopShape
<1> QED
  BY <1>2, <1>3

LEMMA SettleMoney ==
    ASSUME Held, Settling
    PROVE  MoneyInv'
<1>1. PICK k \in Markets, n \in Nat : \E m, b : SettlesTo(k, m, n, b)
  BY DEF Settling
<1>2. PICK m, b : SettlesTo(k, m, n, b)
  BY <1>1
<1>3. /\ book' = b /\ yield' = yield /\ now' = now
      /\ stop' = CheckDrawdown(b) /\ Settle(k, m, b, n)
      /\ BookMoved(book, b, k, 0, n, 0) /\ SameWindows(book, b)
  BY <1>2 DEF SettlesTo, Settle, Return, govVars
<1>4. /\ BookShape(book) /\ StopShape(stop) /\ YieldShape(yield)
      /\ now \in Nat /\ now <= MaxTime /\ Agree(book, hist)
  BY HeldParts
<1>5. n \in Int /\ 0 \in Int
  OBVIOUS
<1>6. /\ HistShape(hist') /\ hist'.spent = hist.spent
      /\ HistMoved(hist, hist', k, 0, n, 0)
  BY <1>3, <1>5, SettleHist
<1>7. StopShape(stop') /\ stop'.days = stop.days
  BY <1>3, <1>4, StopAfter
<1>8. BookShape(b)
  BY <1>3 DEF BookMoved
<1>9. SpendingNumbered' /\ WindowsAgree'
  <2>1. SameWindows(book, book') /\ now' \in Nat /\ now <= now'
    BY <1>3, <1>4
  <2> QED
    BY <1>6, <2>1, WindowsStay
<1>10. Agree(b, hist')
  BY <1>3, <1>4, <1>5, <1>6, AgreeMoves, Zenon
<1>11. ResultsAgree'
  BY <1>2, <1>7, <1>10, SettleResults
<1>12. Agree(book', hist')
  BY <1>3, <1>10
<1> QED
  BY <1>3, <1>4, <1>6, <1>7, <1>8, <1>9, <1>11, <1>12, MoneyStep

LEMMA SettlesSpendNothing ==
    ASSUME Held, Settling PROVE hist'.spent = hist.spent
<1>1. PICK k \in Markets, n \in Nat : \E m, b : SettlesTo(k, m, n, b)
  BY DEF Settling
<1>2. PICK m, b : SettlesTo(k, m, n, b)
  BY <1>1
<1>3. n \in Int /\ Settle(k, m, b, n)
  BY <1>2 DEF SettlesTo
<1> QED
  BY <1>3, SettleHist

LEMMA ReceiveAndSettle ==
    ASSUME Held, NEW k \in Markets, NEW n \in Nat, NEW c, NEW m, NEW x, NEW y,
           BookMoved(book, c, k, 0, n, 0), SameWindows(book, c),
           SameResults(book, c),
           Settle(k, m, Settled(c, k, m, x, y, now, stop.days), n)
    PROVE  Settling
<1>1. PICK d : d = Settled(c, k, m, x, y, now, stop.days)
  OBVIOUS
<1>2. BookShape(book) /\ BookShape(c)
  BY HeldParts DEF BookMoved
<1>3. SameAccounts(c, d) /\ SameWindows(c, d)
      /\ Realizes(c, d, k, m, now, stop.days)
  BY <1>1, <1>2, SettledMoves
<1>4. /\ BookMoved(book, d, k, 0, n, 0) /\ SameWindows(book, d)
      /\ Realizes(book, d, k, m, now, stop.days)
  BY <1>2, <1>3, MovedThenRealizes
<1>5. Settle(k, m, d, n)
  BY <1>1
<1>6. SettlesTo(k, m, n, d)
  BY <1>4, <1>5, Zenon DEF SettlesTo
<1> QED
  BY <1>6 DEF Settling

LEMMA ReceivedOnce ==
    ASSUME Held, NEW k \in Markets, NEW n \in Nat, NEW b,
           b = Received(book, k, n)
    PROVE  /\ BookMoved(book, b, k, 0, n, 0) /\ SameWindows(book, b)
           /\ SameResults(book, b)
BY HeldParts, ReceivedMoves

LEMMA PayoutSettles ==
    ASSUME Held, NEW k \in Markets, DoRedeem(k) \/ DoClaim(k)
    PROVE  Settling
<1>1. PICK m \in MarketType : m = mkt[k]
  BY HeldParts
<1>2. CASE DoRedeem(k)
  <2>1. PICK n : n = RedeemPayout(m)
    OBVIOUS
  <2>2. PICK b : b = Received(book, k, n)
    OBVIOUS
  <2>3. PICK u : u = Redeemed(m)
    OBVIOUS
  <2>4. Final(m) /\ Settle(k, u, Settled(b, k, u, n, 0, now, stop.days), n)
    BY <1>1, <1>2, <2>1, <2>2, <2>3 DEF DoRedeem
  <2>5. n \in Nat
    BY <2>1, <2>4, SettledTypes
  <2> QED
    BY <2>2, <2>4, <2>5, ReceivedOnce, ReceiveAndSettle
<1>3. CASE DoClaim(k)
  <2>1. PICK n : n = ClaimPayout(m)
    OBVIOUS
  <2>2. PICK b : b = Received(book, k, n)
    OBVIOUS
  <2>3. PICK u : u = Claimed(m)
    OBVIOUS
  <2>4. Final(m) /\ Settle(k, u, Settled(b, k, u, 0, n, now, stop.days), n)
    BY <1>1, <1>3, <2>1, <2>2, <2>3 DEF DoClaim
  <2>5. n \in Nat
    BY <2>1, <2>4, SettledTypes
  <2> QED
    BY <2>2, <2>4, <2>5, ReceivedOnce, ReceiveAndSettle
<1> QED
  BY <1>2, <1>3

LEMMA SettleMarketSettles ==
    ASSUME Held, NEW id \in Ids, SettleMarket(id) PROVE Settling
<1>1. PICK k \in Markets : k = Core(id)
  BY HeldParts, CoreMarket
<1>2. PICK m \in MarketType : m = mkt[k]
  BY HeldParts
<1>3. PICK lp : lp = (m.lp /\ ~m.claimed)
  OBVIOUS
<1>4. PICK u : u = IF lp THEN Claimed(Redeemed(m)) ELSE Redeemed(m)
  OBVIOUS
<1>5. PICK x : x = RedeemPayout(m)
  OBVIOUS
<1>6. PICK y : y = IF lp THEN ClaimPayout(m) ELSE 0
  OBVIOUS
<1>7. PICK b : b = Received(book, k, x)
  OBVIOUS
<1>8. PICK c : c = Received(b, k, y)
  OBVIOUS
<1>9. Final(m) /\ Settle(k, u, Settled(c, k, u, x, y, now, stop.days), x + y)
  BY <1>1, <1>2, <1>3, <1>4, <1>5, <1>6, <1>7, <1>8 DEF SettleMarket
<1>10. x \in Nat /\ y \in Nat /\ x + y \in Nat
  <2>1. RedeemPayout(m) \in Nat /\ ClaimPayout(m) \in Nat
    BY <1>9, SettledTypes
  <2> QED
    BY <1>5, <1>6, <2>1
<1>11. BookMoved(book, b, k, 0, x, 0) /\ SameWindows(book, b)
       /\ SameResults(book, b)
  BY <1>7, <1>10, ReceivedOnce
<1>12. BookMoved(b, c, k, 0, y, 0) /\ SameWindows(b, c) /\ SameResults(b, c)
  <2>1. BookShape(b)
    BY <1>11 DEF BookMoved
  <2> QED
    BY <1>8, <1>10, <2>1, ReceivedMoves
<1>13. BookMoved(book, c, k, 0, x + y, 0)
  <2>1. BookShape(book) /\ x \in Int /\ y \in Int /\ 0 \in Int
    BY <1>10, HeldParts
  <2>2. BookMoved(book, c, k, 0 + 0, x + y, 0 + 0)
    BY <1>11, <1>12, <2>1, MovedTwice
  <2> QED
    BY <2>2
<1>14. SameWindows(book, c) /\ SameResults(book, c)
  BY <1>11, <1>12 DEF SameWindows, SameResults
<1> QED
  BY <1>9, <1>10, <1>13, <1>14, ReceiveAndSettle

LEMMA RealizeSettles ==
    ASSUME Held, NEW id \in Ids, Realize(id) PROVE Settling
<1>1. PICK k \in Markets : k = Core(id)
  BY HeldParts, CoreMarket
<1>2. PICK b : b = TryRealize(book, k, mkt[k], now, stop.days)
  OBVIOUS
<1>3. Settle(k, mkt[k], b, 0)
  BY <1>1, <1>2 DEF Realize
<1>4. BookShape(book)
  BY HeldParts
<1>5. SameAccounts(book, b) /\ SameWindows(book, b)
      /\ Realizes(book, b, k, mkt[k], now, stop.days)
  BY <1>2, <1>4, TryRealizes
<1>6. BookMoved(book, b, k, 0, 0, 0)
  BY <1>4, <1>5, SameIsMoved
<1>7. PICK n \in Nat : n = 0
  OBVIOUS
<1>8. SettlesTo(k, mkt[k], n, b)
  BY <1>3, <1>5, <1>6, <1>7, Zenon DEF SettlesTo
<1> QED
  BY <1>8 DEF Settling

(* No spend, no end of a market, and the stop goes neither down nor, but   *)
(* for an acknowledged one, up.                                            *)
Stays ==
    /\ hist'.spent = hist.spent /\ hist'.ended = hist.ended
    /\ stop'.tripped => stop.tripped
    /\ stop.tripped => stop'.tripped \/ stop.acked

(* A return of n that realizes nothing.                                    *)
LEMMA ReturnMoney ==
    ASSUME Held, NEW k \in Markets, NEW y \in Int, NEW z \in Int,
           BookMoved(book, book', k, 0, y, z), SameWindows(book, book'),
           SameResults(book, book'), HistMoved(hist, hist', k, 0, y, z),
           HistShape(hist'), hist'.spent = hist.spent, SameEnds(hist, hist'),
           stop' = stop, yield' = yield, now' = now
    PROVE  MoneyInv' /\ Stays
<1>1. /\ BookShape(book) /\ StopShape(stop) /\ YieldShape(yield)
      /\ now \in Nat /\ now <= MaxTime /\ Agree(book, hist)
  BY HeldParts
<1>2. now' \in Nat /\ now <= now'
  BY <1>1
<1>3. SpendingNumbered' /\ WindowsAgree'
  BY <1>2, WindowsStay
<1>4. ResultsAgree'
  <2>1. stop'.days = stop.days
    OBVIOUS
  <2> QED
    BY <1>2, <2>1, ResultsStay
<1>5. Agree(book', hist')
  <2>1. PICK c, g : c = book' /\ g = hist'
    OBVIOUS
  <2>2. Agree(c, g)
    BY <1>1, <2>1, AgreeMoves
  <2> QED
    BY <2>1, <2>2
<1>6. BookShape(book')
  BY DEF BookMoved
<1>7. Stays
  BY DEF Stays, SameEnds
<1> QED
  BY <1>1, <1>3, <1>4, <1>5, <1>6, <1>7, MoneyStep

LEMMA SellMoney ==
    ASSUME Held, NEW a, NEW id \in Ids, NEW o, NEW n \in Nat, NEW x, NEW l,
           DoAgentSell(a, id, o, n, x, l)
    PROVE  MoneyInv' /\ Stays
<1>1. PICK k \in Markets : k = Core(id)
  BY HeldParts, CoreMarket
<1>2. /\ book' = Received(book, k, n) /\ yield' = yield /\ now' = now
      /\ stop' = stop /\ hist' = [hist EXCEPT !.out[k] = @ + n]
  BY <1>1 DEF DoAgentSell, Return, govVars
<1>3. BookMoved(book, book', k, 0, n, 0) /\ SameWindows(book, book')
      /\ SameResults(book, book')
  BY <1>2, ReceivedOnce
<1>4. HistShape(hist)
  BY HeldParts
<1>5. n \in Int /\ 0 \in Int
  OBVIOUS
<1>6. /\ HistShape(hist') /\ HistMoved(hist, hist', k, 0, n, 0)
      /\ hist'.spent = hist.spent /\ SameEnds(hist, hist')
  BY <1>2, <1>4, <1>5, HistReturns
<1> QED
  BY <1>2, <1>3, <1>5, <1>6, ReturnMoney

(* agent_claim_lp_fees(): a return that is no proceeds.                    *)
LEMMA FeesMoney ==
    ASSUME Held, NEW a, NEW id \in Ids, AgentClaimLpFees(a, id)
    PROVE  MoneyInv' /\ Stays
<1>1. PICK k \in Markets : k = Core(id)
  BY HeldParts, CoreMarket
<1>2. PICK n \in Nat : n = mkt[k].lpFees
  <2>1. mkt[k] \in MarketType
    BY HeldParts
  <2> QED
    BY <2>1 DEF MarketType
<1>3. /\ book' = RecordReturn(book, k, n) /\ yield' = yield /\ now' = now
      /\ stop' = stop /\ hist' = [hist EXCEPT !.fees[k] = @ + n]
  BY <1>1, <1>2 DEF AgentClaimLpFees, Return, govVars
<1>4. HistShape(hist) /\ BookShape(book)
  BY HeldParts
<1>5. BookMoved(book, book', k, 0, 0, n) /\ SameWindows(book, book')
      /\ SameResults(book, book')
  BY <1>3, <1>4, ReturnMoves
<1>6. PICK f : f = [hist.fees EXCEPT ![k] = @ + n]
  OBVIOUS
<1>7. hist' = [hist EXCEPT !.fees = f]
  BY <1>3, <1>6, Zenon
<1>8. /\ DOMAIN hist' = DOMAIN hist /\ hist'.spent = hist.spent
      /\ hist'.in = hist.in /\ hist'.out = hist.out /\ hist'.fees = f
      /\ SameEnds(hist, hist') /\ hist'.batched = hist.batched
      /\ hist'.migrated = hist.migrated
  BY <1>4, <1>7 DEF HistShape, SameEnds
<1>9. /\ hist.in \in [Markets -> Int] /\ hist.out \in [Markets -> Int]
      /\ hist.fees \in [Markets -> Int]
  BY <1>4 DEF HistShape
<1>10. FlowMoved(hist.fees, f, k, n)
  BY <1>6, <1>9 DEF FlowMoved
<1>11. FlowMoved(hist.in, hist'.in, k, 0)
       /\ FlowMoved(hist.out, hist'.out, k, 0)
  BY <1>8, <1>9 DEF FlowMoved
<1>12. HistShape(hist')
  BY <1>4, <1>8, <1>9, <1>10 DEF HistShape, FlowMoved, SameEnds
<1>13. HistMoved(hist, hist', k, 0, 0, n)
  BY <1>8, <1>10, <1>11 DEF HistMoved
<1>14. n \in Int /\ 0 \in Int
  OBVIOUS
<1> QED
  BY <1>3, <1>5, <1>8, <1>12, <1>13, <1>14, ReturnMoney

-----------------------------------------------------------------------------
(* The other steps.                                                        *)

LEMMA SameBook ==
    ASSUME NEW b, BookShape(b) PROVE SameBooks(b, b)
BY DEF SameBooks, SameAccounts, SameWindows, SameResults

LEMMA IdleMoney ==
    ASSUME Held, book' = book, hist' = hist, StopShape(stop'),
           stop'.days = stop.days, YieldShape(yield'), now' \in Nat,
           now <= now', now' <= MaxTime
    PROVE  MoneyInv'
<1>1. HistShape(hist) /\ BookShape(book)
  BY HeldParts
<1>2. SameBooks(book, book')
  BY <1>1, SameBook
<1>3. SameEnds(hist, hist')
  BY DEF SameEnds
<1> QED
  BY <1>1, <1>2, <1>3, QuietMoney

LEMMA ConfigMoney ==
    ASSUME Held, ConfigStep PROVE MoneyInv' /\ Stays
<1>1. book' = book /\ hist' = hist /\ stop' = stop /\ yield' = yield
  BY DEF ConfigStep, vaultVars
<1>2. now \in Nat /\ now <= MaxTime /\ StopShape(stop) /\ YieldShape(yield)
      /\ MaxTime \in Nat
  BY HeldParts, TreasuryGovAssumption
<1>3. now' \in Nat /\ now <= now' /\ now' <= MaxTime
  <2>1. CASE Tick
    BY <1>2, <2>1 DEF Tick
  <2>2. CASE GovStep(Empty)
    <3>1. now' = now
      BY <2>2 DEF GovStep, SetAgent, ExecuteAgent, CancelAgent, RemoveAgent,
                  ProposeConfig, ExecuteConfig, CancelConfig, SetConfigDelay,
                  SetPricePolicy, ExecutePricePolicy, CancelPricePolicy,
                  SetCreationPolicy
    <3> QED
      BY <1>2, <3>1
  <2> QED
    BY <2>1, <2>2 DEF ConfigStep
<1>4. Stays
  BY <1>1 DEF Stays
<1> QED
  BY <1>1, <1>2, <1>3, <1>4, IdleMoney

LEMMA StillMoney ==
    ASSUME Held, book' = book, hist' = hist, stop' = stop, yield' = yield,
           now' = now
    PROVE  MoneyInv' /\ Stays
<1>1. now \in Nat /\ now <= MaxTime /\ StopShape(stop) /\ YieldShape(yield)
  BY HeldParts
<1>2. now' \in Nat /\ now <= now' /\ Stays
  BY <1>1 DEF Stays
<1> QED
  BY <1>1, <1>2, IdleMoney

LEMMA ShareMoney ==
    ASSUME Held, ShareStep PROVE MoneyInv' /\ Stays
<1> DEFINE Rest == /\ book' = book /\ hist' = hist /\ stop' = stop
                   /\ yield' = yield /\ now' = now
<1>1. ASSUME NEW o, NEW n, Deposit(o, n) \/ Donate(o, n) PROVE Rest
  BY <1>1 DEF Deposit, Donate, govVars
<1>2. ASSUME NEW o, NEW n, RequestWithdraw(o, n) \/ EmergencyWithdraw(o, n)
      PROVE  Rest
  BY <1>2 DEF RequestWithdraw, EmergencyWithdraw, govVars
<1>3. ASSUME NEW i, ClaimWithdraw(i) PROVE Rest
  BY <1>3 DEF ClaimWithdraw, govVars
<1> HIDE DEF Rest
<1>4. Rest
  BY <1>1, <1>2, <1>3 DEF ShareStep
<1> QED
  BY <1>4, StillMoney DEF Rest

LEMMA YieldMoney ==
    ASSUME Held, YieldStep PROVE MoneyInv' /\ Stays
<1>1. book' = book /\ hist' = hist /\ stop' = stop /\ now' = now
  BY DEF YieldStep, SetYieldVenue, DisableYield, YieldAccrues,
         AllocateToYield, RecallFromYield, Withdraw, govVars
<1>2. /\ now \in Nat /\ now <= MaxTime /\ StopShape(stop) /\ YieldShape(yield)
      /\ vault \in VaultType
  BY HeldParts
<1>3. YieldAmounts \subseteq Nat /\ PayChoices \subseteq Nat
  BY TreasuryAssumption
<1>4. YieldShape(yield')
  <2>1. ASSUME NEW c, NEW other, SetYieldVenue(c, other)
        PROVE  YieldShape(yield')
    <3>1. PICK u \in Nat, v \in Nat :
            /\ u = IF other THEN yield.aside ELSE yield.supplied
            /\ v = IF other THEN yield.supplied ELSE yield.aside
      BY <1>2 DEF YieldShape
    <3>2. yield' = [yield EXCEPT !.set = TRUE, !.enabled = TRUE, !.cap = c,
                                 !.supplied = u, !.aside = v]
      BY <2>1, <3>1, Zenon DEF SetYieldVenue
    <3> QED
      BY <1>2, <3>1, <3>2 DEF YieldShape
  <2>2. CASE DisableYield \/ YieldAccrues
    BY <1>2, <2>2 DEF DisableYield, YieldAccrues, YieldShape
  <2>3. ASSUME NEW n \in YieldAmounts, AllocateToYield(n)
        PROVE  YieldShape(yield')
    <3>1. n \in Nat
      BY <1>3
    <3>2. yield' = [yield EXCEPT !.principal = @ + n, !.supplied = @ + n]
      BY <2>3 DEF AllocateToYield
    <3> QED
      BY <1>2, <3>1, <3>2 DEF YieldShape
  <2>4. ASSUME NEW n \in YieldAmounts, RecallFromYield(n)
        PROVE  YieldShape(yield')
    <3>1. n \in Int /\ yield' = YieldAfter(n) /\ n <= yield.supplied
      BY <1>2, <1>3, <2>4 DEF RecallFromYield, YieldShape
    <3> QED
      BY <1>2, <3>1, YieldMoves
  <2>5. ASSUME NEW o \in Owners, NEW n \in PayChoices, NEW short \in 0 .. 1,
               Withdraw(o, n, short)
        PROVE  YieldShape(yield')
    <3>1. n \in Int /\ vault.idle \in Int
      BY <1>2, <1>3 DEF VaultType
    <3>2. Recalled(n) \in Int
      BY <3>1 DEF Recalled
    <3>3. yield' = YieldAfter(Recalled(n)) /\ LiquidOk(n, short)
      BY <2>5 DEF Withdraw
    <3>4. Recalled(n) <= yield.supplied
      BY <1>2, <3>2, <3>3 DEF LiquidOk, YieldShape
    <3> QED
      BY <1>2, <3>2, <3>3, <3>4, YieldMoves
  <2> QED
    BY <2>1, <2>2, <2>3, <2>4, <2>5 DEF YieldStep
<1>5. now' \in Nat /\ now <= now' /\ Stays
  BY <1>1, <1>2 DEF Stays
<1> QED
  BY <1>1, <1>2, <1>4, <1>5, IdleMoney

(* reset_pnl_window() and set_drawdown_config() start from nothing.        *)
LEMMA ClearedRing ==
    ASSUME NEW h \in Nat, NEW n \in Nat \ {0}, NEW f, \A d \in Int : f[d] = 0
    PROVE  Counts(EmptyRing(h, n), n, f) /\ EmptyRing(h, n).head = h
<1>1. PICK w : w = EmptyRing(h, n)
  OBVIOUS
<1>2. w = [head |-> h, idx |-> 0, amounts |-> [i \in 0 .. n - 1 |-> 0]]
  BY <1>1, Zenon DEF EmptyRing
<1>3. w \in [head : Nat, idx : 0 .. n - 1, amounts : [0 .. n - 1 -> Int]]
  BY <1>2
<1>4. ASSUME NEW i \in 0 .. n - 1 PROVE w.amounts[i] = f[RingPeriod(w, n, i)]
  <2>1. w.head = h /\ w.idx = 0 /\ w.amounts[i] = 0
    BY <1>2
  <2>2. RingPeriod(w, n, i) \in Int
    BY <2>1 DEF RingPeriod
  <2> QED
    BY <2>1, <2>2
<1>5. Counts(w, n, f) /\ w.head = h
  BY <1>2, <1>3, <1>4 DEF Counts
<1> QED
  BY <1>1, <1>5

LEMMA ClearMoney ==
    ASSUME Held, NEW n \in 1 .. 30, ClearResults(n), StopShape(stop'),
           stop'.days = n
    PROVE  /\ MoneyInv' /\ hist'.spent = hist.spent
           /\ hist'.ended = hist.ended
<1>1. /\ book' = [book EXCEPT !.days = EmptyRing(Day(now), n)]
      /\ hist' = [hist EXCEPT !.results = [d \in DOMAIN hist.results |-> 0],
                              !.blurred = {}]
      /\ yield' = yield /\ now' = now
  BY Zenon DEF ClearResults, govVars
<1>2. /\ BookShape(book) /\ HistShape(hist) /\ YieldShape(yield) /\ now \in Nat
      /\ now <= MaxTime /\ Agree(book, hist)
  BY HeldParts
<1>3. PICK e, q : e = EmptyRing(Day(now), n)
                  /\ q = [d \in DOMAIN hist.results |-> 0]
  OBVIOUS
<1>4. /\ DOMAIN book' = DOMAIN book /\ book'.net = book.net
      /\ book'.netTotal = book.netTotal /\ book'.exposure = book.exposure
      /\ book'.pnl = book.pnl /\ book'.window = book.window
      /\ book'.agentWindow = book.agentWindow /\ book'.days = e
      /\ book'.realized = book.realized
  BY <1>1, <1>2, <1>3 DEF BookShape
<1>5. /\ DOMAIN hist' = DOMAIN hist /\ hist'.spent = hist.spent
      /\ hist'.in = hist.in /\ hist'.out = hist.out /\ hist'.fees = hist.fees
      /\ hist'.results = q /\ hist'.ended = hist.ended /\ hist'.blurred = {}
      /\ hist'.batched = hist.batched /\ hist'.migrated = hist.migrated
  BY <1>1, <1>2, <1>3 DEF HistShape
<1>6. q \in [0 .. Day(MaxTime) -> Int] /\ \A d \in DOMAIN q : q[d] = 0
  BY <1>2, <1>3 DEF HistShape
<1>7. BookShape(book')
  BY <1>2, <1>4 DEF BookShape
<1>8. HistShape(hist')
  BY <1>2, <1>5, <1>6 DEF HistShape
<1>9. now' \in Nat /\ now <= now' /\ SameWindows(book, book')
  BY <1>1, <1>2, <1>4 DEF SameWindows
<1>10. SpendingNumbered' /\ WindowsAgree'
  BY <1>5, <1>9, WindowsStay
<1>11. Agree(book', hist')
  <2>1. PICK c, g : c = book' /\ g = hist'
    OBVIOUS
  <2>2. BasisSum(c) = BasisSum(book)
    BY <1>4, <2>1, Zenon DEF BasisSum
  <2>3. Agree(c, hist)
    BY <1>2, <1>4, <2>1, <2>2, Zenon DEF Agree
  <2>4. Agree(c, g)
    BY <1>5, <2>1, <2>3, Zenon DEF Agree
  <2> QED
    BY <2>1, <2>4
<1>12. ResultsAgree'
  <2>1. \A d \in Int : ResultOf'[d] = 0
    BY <1>5, <1>6 DEF ResultOf
  <2>2. Day(now) \in Nat /\ Day(now) <= Day(now)
    BY HeldDays
  <2>3. Counts(e, n, ResultOf') /\ e.head = Day(now)
    <3>1. PICK f : f = ResultOf'
      OBVIOUS
    <3> QED
      BY <1>3, <2>1, <2>2, <3>1, ClearedRing
  <2>4. CountsExcept(e, n, ResultOf', {})
    BY <2>3, CountsOutside
  <2>5. /\ book'.days = e /\ hist'.results = q /\ Day(now') = Day(now)
        /\ stop'.days = n /\ hist'.blurred = {}
    BY <1>1, <1>4, <1>5
  <2>6. \A i \in Ids : book'.pnl[i].realized
                         <=> \E c \in Cores : <<c, i>> \in hist'.ended
    <3>1. ResultsAgree
      BY DEF Held, MoneyInv
    <3> QED
      BY <1>4, <1>5, <3>1 DEF ResultsAgree
  <2> QED
    BY <1>6, <2>2, <2>3, <2>4, <2>5, <2>6 DEF ResultsAgree
<1> QED
  BY <1>1, <1>2, <1>5, <1>7, <1>8, <1>10, <1>11, <1>12, MoneyStep

LEMMA StopMoney ==
    ASSUME Held, StopStep PROVE MoneyInv' /\ Stays
<1>1. /\ now \in Nat /\ now <= MaxTime /\ StopShape(stop) /\ YieldShape(yield)
  BY HeldParts
<1>2. ASSUME NEW s, SetStop(s), StopShape(s), s.days = stop.days,
             s.tripped => stop.tripped,
             stop.tripped => s.tripped \/ stop.acked
      PROVE  MoneyInv' /\ Stays
  <2>1. book' = book /\ hist' = hist /\ stop' = s /\ yield' = yield
        /\ now' = now
    BY <1>2 DEF SetStop, govVars
  <2>2. now' \in Nat /\ now <= now'
    BY <1>1, <2>1
  <2>3. Stays
    BY <1>2, <2>1 DEF Stays
  <2> QED
    BY <1>1, <1>2, <2>1, <2>2, <2>3, IdleMoney
<1>3. CASE SetPaused
  <2>1. PICK s : s = [stop EXCEPT !.paused = TRUE, !.admin = TRUE]
    OBVIOUS
  <2>2. SetStop(s) /\ StopShape(s) /\ s.days = stop.days
        /\ s.tripped = stop.tripped
    BY <1>1, <1>3, <2>1 DEF SetPaused, StopShape
  <2> QED
    BY <1>2, <2>2
<1>4. CASE Unpause
  <2>1. PICK x : x = IF stop.tripped THEN FALSE ELSE stop.acked
    OBVIOUS
  <2>2. PICK s : s = [stop EXCEPT !.paused = FALSE, !.admin = FALSE,
                                  !.tripped = FALSE, !.acked = x]
    OBVIOUS
  <2>3. SetStop(s) /\ (stop.tripped => stop.acked)
    BY <1>4, <2>1, <2>2, Zenon DEF Unpause
  <2>4. StopShape(s) /\ s.days = stop.days /\ ~s.tripped
    BY <1>1, <2>2 DEF StopShape
  <2> QED
    BY <1>2, <2>3, <2>4
<1>5. CASE AcknowledgeDrawdown
  <2>1. PICK x : x = IF stop.tripped THEN TRUE ELSE stop.acked
    OBVIOUS
  <2>2. PICK s : s = [stop EXCEPT !.acked = x]
    OBVIOUS
  <2>3. SetStop(s)
    BY <1>5, <2>1, <2>2, Zenon DEF AcknowledgeDrawdown
  <2>4. StopShape(s) /\ s.days = stop.days /\ s.tripped = stop.tripped
    BY <1>1, <2>2 DEF StopShape
  <2> QED
    BY <1>2, <2>3, <2>4
<1>6. CASE ResetPnlWindow
  <2>1. ClearResults(stop.days) /\ stop' = stop /\ stop.days \in 1 .. 30
    BY <1>1, <1>6 DEF ResetPnlWindow, StopShape
  <2> QED
    BY <1>1, <2>1, ClearMoney DEF Stays
<1>7. ASSUME NEW d \in DrawdownChoices, SetDrawdownConfig(d)
      PROVE  MoneyInv' /\ Stays
  <2>1. /\ ClearResults(d.days) /\ d.days \in 1 .. 30
        /\ stop' = [stop EXCEPT !.max = d.max, !.days = d.days]
    BY <1>7 DEF SetDrawdownConfig, ValidDrawdown
  <2>2. StopShape(stop') /\ stop'.days = d.days /\ stop'.tripped = stop.tripped
    BY <1>1, <2>1 DEF StopShape
  <2> QED
    BY <2>1, <2>2, ClearMoney DEF Stays
<1> QED
  BY <1>3, <1>4, <1>5, <1>6, <1>7 DEF StopStep

(* close_trade() only marks the exposure.                                  *)
LEMMA CloseTradeMoney ==
    ASSUME Held, NEW a, NEW id \in Ids, CloseTrade(a, id)
    PROVE  MoneyInv' /\ Stays
<1>1. PICK k \in Markets : k = Core(id)
  BY HeldParts, CoreMarket
<1>2. /\ book' = CloseMarketExposure(book, k) /\ hist' = hist /\ stop' = stop
      /\ yield' = yield /\ now' = now
  BY <1>1 DEF CloseTrade, govVars
<1>3. /\ BookShape(book) /\ HistShape(hist) /\ StopShape(stop)
      /\ YieldShape(yield) /\ now \in Nat /\ now <= MaxTime
  BY HeldParts
<1>4. SameBooks(book, book')
  BY <1>2, <1>3, ClosingIsSame
<1>5. now' \in Nat /\ now <= now'
  BY <1>2, <1>3
<1>6. SameEnds(hist, hist') /\ Stays
  BY <1>2 DEF SameEnds, Stays
<1> QED
  BY <1>2, <1>3, <1>4, <1>5, <1>6, QuietMoney

LEMMA SettleStepMoney ==
    ASSUME Held, SettleStep PROVE MoneyInv' /\ (Stays \/ Settling)
<1>1. ASSUME NEW id \in Ids, SettleMarket(id) \/ Realize(id) PROVE Settling
  BY <1>1, SettleMarketSettles, RealizeSettles
<1>2. ASSUME NEW id \in Ids, CollectMarketFees(id) PROVE MoneyInv' /\ Stays
  <2>1. /\ book' = book /\ hist' = hist /\ stop' = stop /\ yield' = yield
        /\ now' = now
    BY <1>2 DEF CollectMarketFees, Return, govVars
  <2> QED
    BY <2>1, StillMoney
<1>3. ASSUME NEW a \in Agents, NEW id \in Ids,
             Redeem(a, id) \/ ClaimPoolRemainder(a, id)
      PROVE  Settling
  <2>1. Core(id) \in Markets
    BY HeldParts, CoreMarket
  <2> QED
    BY <1>3, <2>1, PayoutSettles DEF Redeem, ClaimPoolRemainder
<1>4. ASSUME NEW a \in Agents, NEW id \in Ids,
             AgentClaimLpFees(a, id) \/ CloseTrade(a, id)
      PROVE  MoneyInv' /\ Stays
  BY <1>4, FeesMoney, CloseTradeMoney
<1>5. ASSUME NEW a \in Agents, NEW k \in Markets,
             LegacyRedeem(a, k) \/ LegacyClaimPoolRemainder(a, k)
      PROVE  Settling
  BY <1>5, PayoutSettles DEF LegacyRedeem, LegacyClaimPoolRemainder
<1>6. Settling \/ (MoneyInv' /\ Stays)
  BY <1>1, <1>2, <1>3, <1>4, <1>5 DEF SettleStep
<1> QED
  BY <1>6, SettleMoney

(* The step is a spend by an agent that passed every check.                *)
Spends(a, k, n) ==
    \E short \in 0 .. 1 : \E m, b :
        /\ ~stop.paused /\ agents[a].active /\ agents[a] # NoPending
        /\ SameMoney(book, b) /\ SpendOk(a, k, n) /\ LiquidOk(n, short)
        /\ Unreserved(vault.idle, n)
           \/ Unreserved(vault.idle + Recalled(n) - short, n)
        /\ Spend(a, k, m, b, n, short)

LEMMA SpendsMoney ==
    ASSUME Held, NEW a \in Agents, NEW k \in Markets, NEW n \in Nat,
           Spends(a, k, n)
    PROVE  MoneyInv'
<1>1. PICK short \in 0 .. 1 :
         \E m, b : /\ SameMoney(book, b) /\ LiquidOk(n, short)
                   /\ Spend(a, k, m, b, n, short)
  BY DEF Spends
<1>2. PICK m, b : /\ SameMoney(book, b) /\ LiquidOk(n, short)
                  /\ Spend(a, k, m, b, n, short)
  BY <1>1
<1> QED
  BY <1>2, SpendMoney

LEMMA CreateSpends ==
    ASSUME Held, CreateStep
    PROVE  \E a \in Agents, k \in Markets, n \in Nat : Spends(a, k, n)
<1>1. PICK a \in Agents, seed \in SeedChoices, prob \in ProbChoices,
           close \in CloseChoices, c \in Categories, short \in 0 .. 1 :
         AgentCreateMarket(a, close, seed, prob, c, short)
  BY DEF CreateStep
<1>2. seed \in Nat
  BY TreasuryAssumption
<1>3. PICK k : k = Core(NextId(global.core))
  OBVIOUS
<1>4. k \in Markets
  <2>1. CanCreate(global.core)
    BY <1>1 DEF AgentCreateMarket
  <2>2. PICK id \in Ids : id = NextId(global.core)
    BY <2>1, NextIdIn
  <2> QED
    BY <1>3, <2>2, CoreMarket, HeldParts
<1>5. PICK b : b = [book EXCEPT !.creations = RecordCreation(@,
                                                creation.window, now)]
  OBVIOUS
<1>6. SameMoney(book, b)
  <2>1. BookShape(book)
    BY HeldParts
  <2>2. /\ DOMAIN b = DOMAIN book /\ b.net = book.net
        /\ b.netTotal = book.netTotal /\ b.exposure = book.exposure
        /\ b.pnl = book.pnl /\ b.days = book.days
        /\ b.window = book.window /\ b.agentWindow = book.agentWindow
        /\ b.realized = book.realized
    BY <1>5, <2>1 DEF BookShape
  <2> QED
    BY <2>1, <2>2 DEF SameMoney, SameWindows, BookShape
<1>7. PICK m : m = Created(TRUE, close, seed, prob)
  OBVIOUS
<1>8. /\ SpendOk(a, k, seed) /\ LiquidOk(seed, short)
      /\ Unreserved(vault.idle + Recalled(seed) - short, seed)
      /\ Spend(a, k, m, b, seed, short)
  BY <1>1, <1>3, <1>5, <1>7 DEF AgentCreateMarket
<1>9. ~stop.paused /\ agents[a].active /\ agents[a] # NoPending
  BY <1>1 DEF AgentCreateMarket, MayAct
<1>10. Spends(a, k, seed)
  BY <1>6, <1>8, <1>9 DEF Spends
<1> QED
  BY <1>2, <1>4, <1>10

LEMMA BuySpends ==
    ASSUME Held, NEW a \in Agents, NEW id \in Ids, NEW o, NEW n \in Nat,
           NEW x, NEW l, NEW short \in 0 .. 1,
           DoAgentBuy(a, id, o, n, x, l, short)
    PROVE  \E k \in Markets : Spends(a, k, n)
<1>1. PICK k \in Markets : k = Core(id)
  BY HeldParts, CoreMarket
<1>2. PICK m : /\ SpendOk(a, k, n) /\ LiquidOk(n, short)
               /\ Unreserved(vault.idle, n)
               /\ Spend(a, k, m, book, n, short)
  BY <1>1, Zenon DEF DoAgentBuy
<1>3. SameMoney(book, book)
  BY HeldParts DEF SameMoney, SameWindows
<1>4. ~stop.paused /\ agents[a].active /\ agents[a] # NoPending
  BY DEF DoAgentBuy, MayAct
<1>5. Spends(a, k, n)
  BY <1>2, <1>3, <1>4 DEF Spends
<1> QED
  BY <1>5

LEMMA TradeMoney ==
    ASSUME Held, TradeStep
    PROVE  \/ \E a \in Agents, k \in Markets, n \in Nat : Spends(a, k, n)
           \/ MoneyInv' /\ Stays
<1>1. PICK a \in Agents, id \in Ids, o \in Outcomes, limit \in LimitChoices :
        \/ \E n \in BuyChoices, short \in 0 .. 1 :
              \/ AgentBuy(a, id, o, n, 0, short)
              \/ AgentBuyV2(a, id, o, n, 1, limit, now, short)
        \/ \E n \in SellChoices :
              \/ AgentSell(a, id, o, n, 2 * n)
              \/ AgentSellV2(a, id, o, n, 2 * n, limit, now)
  BY DEF TradeStep
<1>2. BuyChoices \subseteq Nat /\ SellChoices \subseteq Nat
  BY TreasuryAssumption
<1>3. ASSUME NEW n \in BuyChoices, NEW short \in 0 .. 1,
             AgentBuy(a, id, o, n, 0, short)
                \/ AgentBuyV2(a, id, o, n, 1, limit, now, short)
      PROVE  \E k \in Markets, q \in Nat : Spends(a, k, q)
  <2>1. n \in Nat
    BY <1>2
  <2>2. PICK x, l : DoAgentBuy(a, id, o, n, x, l, short)
    BY <1>3 DEF AgentBuy, AgentBuyV2
  <2> QED
    BY <2>1, <2>2, BuySpends
<1>4. ASSUME NEW n \in SellChoices,
             AgentSell(a, id, o, n, 2 * n)
                \/ AgentSellV2(a, id, o, n, 2 * n, limit, now)
      PROVE  MoneyInv' /\ Stays
  <2>1. n \in Nat
    BY <1>2
  <2>2. PICK x, l : DoAgentSell(a, id, o, n, x, l)
    BY <1>4 DEF AgentSell, AgentSellV2
  <2> QED
    BY <2>1, <2>2, SellMoney
<1> QED
  BY <1>1, <1>3, <1>4

(* redeem_many() and claim_pool_remainders() leave the accounts alone.     *)
LEMMA BatchPaidMoney ==
    ASSUME Held, NEW P \in SUBSET Markets, NEW after, NEW pay,
           \A k \in P : pay[k] \in Nat, BatchPaid(P, after, pay)
    PROVE  MoneyInv' /\ Stays
<1>1. /\ BookShape(book) /\ HistShape(hist) /\ StopShape(stop)
      /\ YieldShape(yield) /\ now \in Nat /\ now <= MaxTime
      /\ Agree(book, hist)
  BY HeldParts
<1>2. PICK f : f = [k \in Markets |-> IF k \in P THEN hist.out[k] + pay[k]
                                      ELSE hist.out[k]]
  OBVIOUS
<1>3. PICK q : q = hist.batched \cup {k \in P : pay[k] > 0}
  OBVIOUS
<1>4. hist' = [hist EXCEPT !.out = f, !.batched = q]
  BY <1>2, <1>3, Zenon DEF BatchPaid
<1>5. book' = book /\ stop' = stop /\ yield' = yield /\ now' = now
  BY DEF BatchPaid, govVars
<1>6. /\ DOMAIN hist' = DOMAIN hist /\ hist'.spent = hist.spent
      /\ hist'.in = hist.in /\ hist'.out = f /\ hist'.fees = hist.fees
      /\ SameEnds(hist, hist') /\ hist'.batched = q
      /\ hist'.migrated = hist.migrated
  BY <1>1, <1>4 DEF HistShape, SameEnds
<1>7. hist.out \in [Markets -> Int]
  BY <1>1 DEF HistShape
<1>8. f \in [Markets -> Int]
  BY <1>2, <1>7
<1>9. HistShape(hist') /\ Stays
  BY <1>1, <1>5, <1>6, <1>8 DEF HistShape, SameEnds, Stays
<1>10. \A j \in Markets : j \notin q => f[j] = hist.out[j]
  <2>1. ASSUME NEW j \in Markets, j \notin q PROVE f[j] = hist.out[j]
    <3>1. CASE j \in P
      <4>1. pay[j] = 0
        BY <1>3, <2>1, <3>1
      <4> QED
        BY <1>2, <1>7, <3>1, <4>1
    <3>2. CASE j \notin P
      BY <1>2, <3>2
    <3> QED
      BY <3>1, <3>2
  <2> QED
    BY <2>1
<1>11. Agree(book', hist')
  <2>1. PICK b, g : b = book' /\ g = hist'
    OBVIOUS
  <2>2. Agree(b, hist)
    BY <1>1, <1>5, <2>1
  <2>3. /\ g.in = hist.in /\ g.fees = hist.fees /\ g.migrated = hist.migrated
        /\ hist.batched \subseteq g.batched
        /\ \A j \in Markets : j \notin g.batched => g.out[j] = hist.out[j]
    BY <1>3, <1>6, <1>10, <2>1
  <2>4. Agree(b, g)
    BY <1>7, <2>2, <2>3, AgreeBatched
  <2> QED
    BY <2>1, <2>4
<1>12. now' \in Nat /\ now <= now' /\ SameWindows(book, book')
  BY <1>1, <1>5 DEF SameWindows
<1>13. SpendingNumbered' /\ WindowsAgree'
  BY <1>6, <1>12, WindowsStay
<1>14. ResultsAgree'
  <2>1. SameResults(book, book') /\ stop'.days = stop.days
    BY <1>5 DEF SameResults
  <2> QED
    BY <1>6, <1>12, <2>1, ResultsStay
<1> QED
  BY <1>1, <1>5, <1>9, <1>11, <1>13, <1>14, MoneyStep

LEMMA BatchMoney ==
    ASSUME Held, BatchStep PROVE MoneyInv' /\ Stays
<1>1. PICK a \in Agents, ids \in SUBSET Ids :
         RedeemMany(a, ids) \/ ClaimPoolRemainders(a, ids)
  BY DEF BatchStep
<1> DEFINE ks == {Core(id) : id \in ids}
<1>2. ks \subseteq Markets
  BY CoreMarket, HeldParts
<1>3. ASSUME NEW k \in ks, Final(mkt[k])
      PROVE  RedeemPayout(mkt[k]) \in Nat /\ ClaimPayout(mkt[k]) \in Nat
  <2>1. mkt[k] \in MarketType
    BY <1>2, HeldParts
  <2> QED
    BY <1>3, <2>1, SettledTypes
<1>4. CASE RedeemMany(a, ids)
  <2> DEFINE P == {k \in ks : Final(mkt[k]) /\ ~mkt[k].closed
                              /\ mkt[k].pos # Zero}
             after == [k \in P |-> Redeemed(mkt[k])]
             pay == [k \in P |-> RedeemPayout(mkt[k])]
  <2>1. P \in SUBSET Markets
    BY <1>2
  <2>2. BatchPaid(P, after, pay)
    BY <1>4 DEF RedeemMany
  <2>3. \A k \in P : pay[k] \in Nat
    BY <1>3
  <2> HIDE DEF P, after, pay
  <2> QED
    BY <2>1, <2>2, <2>3, BatchPaidMoney
<1>5. CASE ClaimPoolRemainders(a, ids)
  <2> DEFINE P == {k \in ks : Final(mkt[k]) /\ ~mkt[k].closed
                              /\ mkt[k].lp /\ ~mkt[k].claimed}
             after == [k \in P |-> Claimed(mkt[k])]
             pay == [k \in P |-> ClaimPayout(mkt[k])]
  <2>1. P \in SUBSET Markets
    BY <1>2
  <2>2. BatchPaid(P, after, pay)
    BY <1>5 DEF ClaimPoolRemainders
  <2>3. \A k \in P : pay[k] \in Nat
    BY <1>3
  <2> HIDE DEF P, after, pay
  <2> QED
    BY <2>1, <2>2, <2>3, BatchPaidMoney
<1> QED
  BY <1>1, <1>4, <1>5

(* migrate_market() closes the exposure, drops the basis and the entry.    *)
LEMMA MigrateMarketMoney ==
    ASSUME Held, NEW id \in Ids, MigrateMarket(id)
    PROVE  MoneyInv' /\ Stays
<1>1. PICK k \in Markets : k = Core(id)
  BY HeldParts, CoreMarket
<1>2. PICK b : b = CloseMarketExposure(book, k)
  OBVIOUS
<1>3. /\ book' = IndexRemove(ClearNet(b, k), k) /\ stop' = stop
      /\ yield' = yield /\ now' = now
      /\ hist' = [hist EXCEPT !.migrated = @ \cup {k}]
  BY <1>1, <1>2 DEF MigrateMarket, govVars
<1>4. /\ BookShape(book) /\ HistShape(hist) /\ StopShape(stop)
      /\ YieldShape(yield) /\ now \in Nat /\ now <= MaxTime
      /\ Agree(book, hist)
  BY HeldParts
<1>5. PICK q : q = hist.migrated \cup {k}
  OBVIOUS
<1>6. hist' = [hist EXCEPT !.migrated = q]
  BY <1>3, <1>5, Zenon
<1>7. /\ DOMAIN hist' = DOMAIN hist /\ hist'.spent = hist.spent
      /\ hist'.in = hist.in /\ hist'.out = hist.out /\ hist'.fees = hist.fees
      /\ SameEnds(hist, hist') /\ hist'.batched = hist.batched
      /\ hist'.migrated = q
  BY <1>4, <1>6 DEF HistShape, SameEnds
<1>8. HistShape(hist') /\ Stays
  BY <1>3, <1>4, <1>7 DEF HistShape, SameEnds, Stays
<1>9. SameBooks(book, b)
  BY <1>2, <1>4, ClosingIsSame
<1>10. BookShape(b) /\ Agree(b, hist)
  BY <1>4, <1>9, SameAgree DEF SameBooks, SameAccounts
<1>11. PICK c, g : c = IndexRemove(ClearNet(b, k), k) /\ g = hist'
  OBVIOUS
<1>12. Agree(c, g) /\ BookShape(c) /\ SameWindows(b, c) /\ SameResults(b, c)
  <2>1. /\ g.in = hist.in /\ g.out = hist.out /\ g.fees = hist.fees
        /\ g.batched = hist.batched /\ g.migrated = hist.migrated \cup {k}
    BY <1>5, <1>7, <1>11
  <2> QED
    BY <1>10, <1>11, <2>1, AgreeMigrated
<1>13. book' = c /\ hist' = g
  BY <1>3, <1>11
<1>14. /\ now' \in Nat /\ now <= now' /\ SameWindows(book, book')
       /\ SameResults(book, book') /\ stop'.days = stop.days
  BY <1>3, <1>4, <1>9, <1>12, <1>13 DEF SameWindows, SameBooks, SameResults
<1>15. SpendingNumbered' /\ WindowsAgree'
  BY <1>7, <1>14, WindowsStay
<1>16. ResultsAgree'
  BY <1>7, <1>14, ResultsStay
<1>17. BookShape(book') /\ Agree(book', hist')
  BY <1>12, <1>13
<1> QED
  BY <1>3, <1>4, <1>8, <1>15, <1>16, <1>17, MoneyStep

LEMMA MigrateMoney ==
    ASSUME Held, MigrateStep PROVE MoneyInv' /\ Stays
<1>1. CASE SetSuccessor
  <2>1. /\ book' = book /\ hist' = hist /\ stop' = stop /\ yield' = yield
        /\ now' = now
    BY <1>1 DEF SetSuccessor, govVars
  <2> QED
    BY <2>1, StillMoney
<1> QED
  BY <1>1, MigrateMarketMoney DEF MigrateStep

LEMMA OthersMoney ==
    ASSUME Held, OthersStep PROVE MoneyInv' /\ Stays
<1>1. ASSUME NEW k, NEW m, SetMarket(k, m)
      PROVE  MoneyInv' /\ Stays
  <2>1. /\ book' = book /\ hist' = hist /\ stop' = stop /\ yield' = yield
        /\ now' = now
    BY <1>1 DEF SetMarket, govVars
  <2> QED
    BY <2>1, StillMoney
<1>2. ASSUME NEW k \in Markets, NEW o, Gift(k, o)
      PROVE  MoneyInv' /\ Stays
  <2>1. /\ BookShape(book) /\ HistShape(hist) /\ StopShape(stop)
        /\ YieldShape(yield) /\ now \in Nat /\ now <= MaxTime
    BY HeldParts
  <2>2. PICK q : q = hist.gifts \cup {k}
    OBVIOUS
  <2>3. /\ hist' = [hist EXCEPT !.gifts = q] /\ book' = book /\ stop' = stop
        /\ yield' = yield /\ now' = now
    BY <1>2, <2>2 DEF Gift, govVars
  <2>4. /\ DOMAIN hist' = DOMAIN hist /\ hist'.spent = hist.spent
        /\ hist'.in = hist.in /\ hist'.out = hist.out
        /\ hist'.fees = hist.fees /\ SameEnds(hist, hist')
        /\ hist'.batched = hist.batched /\ hist'.migrated = hist.migrated
    BY <2>1, <2>3 DEF HistShape, SameEnds
  <2>5. HistShape(hist') /\ Stays
    BY <2>1, <2>3, <2>4 DEF HistShape, SameEnds, Stays
  <2>6. SameBooks(book, book')
    BY <2>1, <2>3, SameBook
  <2>7. now' \in Nat /\ now <= now'
    BY <2>1, <2>3
  <2> QED
    BY <2>1, <2>3, <2>4, <2>5, <2>6, <2>7, QuietMoney
<1>3. ASSUME NEW core, NEW close, NEW seed, NEW prob,
             OthersCreate(core, close, seed, prob)
      PROVE  MoneyInv' /\ Stays
  BY <1>1, <1>3 DEF OthersCreate
<1>4. ASSUME NEW k, NEW o, NEW n, OthersBuy(k, o, n)
      PROVE  MoneyInv' /\ Stays
  <2>1. PICK m : SetMarket(k, m)
    BY <1>4, Zenon DEF OthersBuy
  <2> QED
    BY <1>1, <2>1
<1>5. ASSUME NEW k, NEW kind, Resolved(k, kind)
      PROVE  MoneyInv' /\ Stays
  <2>1. PICK m : SetMarket(k, m)
    BY <1>5, Zenon DEF Resolved
  <2> QED
    BY <1>1, <2>1
<1>6. ASSUME NEW k, ClosedOut(k) PROVE MoneyInv' /\ Stays
  <2>1. PICK m : SetMarket(k, m)
    BY <1>6, Zenon DEF ClosedOut
  <2> QED
    BY <1>1, <2>1
<1> QED
  BY <1>2, <1>3, <1>4, <1>5, <1>6 DEF OthersStep

-----------------------------------------------------------------------------
(* The invariant.                                                          *)

LEMMA NothingSpent ==
    \A p \in Int : SpentByHour({})[p] = 0
<1>1. ASSUME NEW p \in Int PROVE SpentByHour({})[p] = 0
  <2>1. InHour({}, p) = {}
    BY DEF InHour
  <2>2. Total({}) = 0
    BY SumEmpty DEF Total
  <2> QED
    BY <2>1, <2>2, RecordsSum
<1> QED
  BY <1>1

LEMMA InitBook ==
    ASSUME Init
    PROVE  /\ BookShape(book)
           /\ book.net = [k \in Markets |-> [in |-> 0, out |-> 0]]
           /\ book.netTotal = 0
           /\ \A k \in Markets : book.exposure[k].amount = 0
           /\ \A i \in Ids : /\ book.pnl[i].cost = 0 /\ book.pnl[i].proceeds = 0
                             /\ ~book.pnl[i].realized
           /\ book.window = EmptyRing(Hour(0), Buckets)
           /\ book.agentWindow = [a \in Agents |-> EmptyRing(Hour(0), Buckets)]
           /\ book.days = EmptyRing(Day(0), Drawdown.days)
<1>1. book = EmptyBook(Agents, 0, Drawdown.days)
  BY DEF Init
<1>2. PICK w, d : /\ w = EmptyRing(Hour(0), Buckets)
                  /\ d = EmptyRing(Day(0), Drawdown.days)
  OBVIOUS
<1>3. book = [window |-> w, agentWindow |-> [a \in Agents |-> w],
              exposure |-> [k \in Markets |-> [amount |-> 0, open |-> FALSE]],
              net |-> [k \in Markets |-> [in |-> 0, out |-> 0]],
              netTotal |-> 0, at |-> <<>>, slot |-> [k \in Markets |-> 0],
              pnl |-> [i \in Ids |-> [cost |-> 0, proceeds |-> 0,
                                      realized |-> FALSE]],
              realized |-> [i \in Ids |-> [position |-> 0, lp |-> 0,
                                           settled |-> FALSE]],
              days |-> d, creations |-> <<>>]
  BY <1>1, <1>2, Zenon DEF EmptyBook
<1>4. BookShape(book)
  BY <1>3 DEF BookShape
<1> QED
  BY <1>2, <1>3, <1>4

LEMMA InitHist ==
    ASSUME Init
    PROVE  /\ HistShape(hist) /\ hist.spent = {}
           /\ \A k \in Markets : hist.in[k] = 0 /\ hist.out[k] = 0
              /\ hist.fees[k] = 0
           /\ \A d \in DOMAIN hist.results : hist.results[d] = 0
           /\ hist.ended = {} /\ hist.blurred = {}
BY DEF Init, HistShape

LEMMA InitMoney ==
    ASSUME Init PROVE MoneyInv
<1>1. now = 0 /\ MaxTime \in Nat
  BY TreasuryGovAssumption DEF Init, GovInit
<1>2. /\ StopShape(stop) /\ YieldShape(yield) /\ stop.days = Drawdown.days
      /\ Drawdown.days \in 1 .. 30 /\ ~stop.tripped
  BY TreasuryAssumption DEF Init, StopShape, YieldShape
<1>3. BookShape(book) /\ HistShape(hist)
  BY InitBook, InitHist
<1>4. MoneyTypes
  BY <1>1, <1>2, <1>3 DEF MoneyTypes, BookShape, HistShape, StopShape,
     YieldShape
<1>5. Hour(0) \in Nat /\ Day(0) \in Nat /\ Buckets \in Nat \ {0}
  <2>1. 0 \in Nat /\ 0 <= 0
    OBVIOUS
  <2>2. Hour(0) \in Nat /\ Day(0) \in Nat
    BY <2>1, Clocks
  <2> QED
    BY <2>2, TreasuryMathAssumption
<1>6. SpendingNumbered
  BY InitHist, FS_EmptySet DEF SpendingNumbered
<1>7. Holding(EmptyRing(Hour(0), Buckets), {})
  <2>1. PICK h \in Nat, n \in Nat \ {0} : h = Hour(0) /\ n = Buckets
    BY <1>5
  <2>2. PICK f : f = SpentByHour({}) /\ \A p \in Int : f[p] = 0
    BY NothingSpent
  <2>3. Counts(EmptyRing(h, n), n, f) /\ EmptyRing(h, n).head = h
    BY <2>2, ClearedRing
  <2>4. Hour(now) = h /\ h <= h
    BY <1>1, <2>1
  <2> QED
    BY <2>1, <2>2, <2>3, <2>4 DEF Holding
<1>8. WindowsAgree
  <2>1. hist.spent = {} /\ \A a \in Agents : SpentBy(a) = {}
    BY InitHist DEF SpentBy
  <2>2. /\ book.window = EmptyRing(Hour(0), Buckets)
        /\ book.agentWindow = [a \in Agents |-> EmptyRing(Hour(0), Buckets)]
    BY InitBook
  <2> QED
    BY <1>7, <2>1, <2>2 DEF WindowsAgree
<1>9. ResultsAgree
  <2>1. PICK h \in Nat, n \in Nat \ {0} : h = Day(0) /\ n = Drawdown.days
    BY <1>2, <1>5
  <2>2. PICK f : f = ResultOf /\ \A d \in Int : f[d] = 0
    <3>1. \A d \in Int : ResultOf[d] = 0
      BY InitHist DEF ResultOf
    <3> QED
      BY <3>1
  <2>3. Counts(EmptyRing(h, n), n, f) /\ EmptyRing(h, n).head = h
    BY <2>2, ClearedRing
  <2>4. book.days = EmptyRing(h, n) /\ stop.days = n /\ Day(now) = h /\ h <= h
    BY <1>1, <1>2, <2>1, InitBook
  <2>5. CountsExcept(EmptyRing(h, n), n, f, {})
    BY <2>3, CountsOutside
  <2>6. /\ CountsExcept(book.days, stop.days, ResultOf, hist.blurred)
        /\ book.days.head <= Day(now)
    BY <2>2, <2>3, <2>4, <2>5, InitHist
  <2>7. /\ \A d \in DOMAIN hist.results : hist.results[d] = 0
        /\ hist.ended = {} /\ hist.blurred = {}
    BY InitHist
  <2>8. \A i \in Ids : ~book.pnl[i].realized
    BY InitBook
  <2> QED
    BY <2>6, <2>7, <2>8 DEF ResultsAgree
<1>10. Agree(book, hist)
  <2>1. IsFiniteSet(Markets) /\ IsFiniteSet(Cores)
    BY FS_Product, TreasuryAssumption DEF Markets
  <2>2. BasisSum(book) = 0
    <3>1. PICK f : f = [k \in Markets |-> CostBasis(book.net[k])]
      OBVIOUS
    <3>2. \A k \in Markets : f[k] = 0
      BY <3>1, InitBook DEF CostBasis, NonNeg
    <3>3. SumFunction(f) = SumFunctionOnSet(f, Markets)
      BY <3>1, SumDomain
    <3>4. SumFunctionOnSet(f, Markets) = 0
      BY <2>1, <3>2, SumZero
    <3> QED
      BY <3>1, <3>3, <3>4, Zenon DEF BasisSum
  <2>3. ASSUME NEW i \in Ids, NEW g, \A k \in Markets : g[k] = 0
        PROVE  FlowSum(g, i) = 0
    <3>1. PICK f : f = [c \in Cores |-> g[<<c, i>>]]
      OBVIOUS
    <3>2. \A c \in Cores : f[c] = 0
      BY <2>3, <3>1 DEF Markets
    <3>3. SumFunction(f) = SumFunctionOnSet(f, Cores)
      BY <3>1, SumDomain
    <3>4. SumFunctionOnSet(f, Cores) = 0
      BY <2>1, <3>2, SumZero
    <3> QED
      BY <3>1, <3>3, <3>4, Zenon DEF FlowSum
  <2>4. \A i \in Ids : FlowSum(hist.in, i) = 0 /\ FlowSum(hist.out, i) = 0
    BY <2>3, InitHist
  <2> QED
    BY <2>2, <2>4, InitBook, InitHist DEF Agree
<1> QED
  BY <1>2, <1>4, <1>6, <1>8, <1>9, <1>10, AgreeIsAgree DEF MoneyInv

SomeSpend == \E a \in Agents, k \in Markets, n \in Nat : Spends(a, k, n)

(* Every step keeps the invariant; only an agent's spend spends, and only  *)
(* a call that settles ends a market or trips the stop.                    *)
LEMMA NextMoney ==
    ASSUME Held, [Next]_vars
    PROVE  MoneyInv' /\ (Stays \/ SomeSpend \/ Settling)
<1>1. CASE UNCHANGED vars
  <2>1. /\ book' = book /\ hist' = hist /\ stop' = stop /\ yield' = yield
        /\ now' = now
    BY <1>1 DEF vars, vaultVars, govVars
  <2> QED
    BY <2>1, StillMoney
<1>2. CASE ConfigStep \/ ShareStep \/ YieldStep
  BY <1>2, ConfigMoney, ShareMoney, YieldMoney
<1>3. CASE CreateStep \/ TradeStep
  <2>1. SomeSpend => MoneyInv'
    BY SpendsMoney DEF SomeSpend
  <2> QED
    BY <1>3, <2>1, CreateSpends, TradeMoney DEF SomeSpend
<1>4. CASE SettleStep \/ BatchStep \/ StopStep \/ MigrateStep
  BY <1>4, SettleStepMoney, BatchMoney, StopMoney, MigrateMoney
<1>5. CASE OthersStep
  BY <1>5, OthersMoney
<1> QED
  BY <1>1, <1>2, <1>3, <1>4, <1>5 DEF Next

(* The invariant the run checks beside the treasury's own: every bucket of *)
(* a usage window holds what was spent in its hour and every bucket of the *)
(* PnL window its day's results, across advances, partial and whole wraps  *)
(* and resets; every account holds what its market paid and received,      *)
(* through buys, sells, payouts, fees, closings and migrations.            *)
THEOREM MoneyInvariance == Spec => []MoneyInv
<1>1. Init => MoneyInv
  BY InitMoney
<1>2. TreasuryInv /\ MoneyInv /\ [Next]_vars => MoneyInv'
  BY NextMoney DEF Held
<1> QED
  BY <1>1, <1>2, TreasuryInvariance, PTL DEF Spec

(* The accounts agree with the money that moved, in every core and for     *)
(* every id, and daily_usage and agent_daily_usage report what was really  *)
(* spent in the hours they span, the agents' parts adding up to the whole. *)
THEOREM BooksAgreeWithMoney == Spec => []BooksMatchMoney
<1>1. TreasuryInv /\ MoneyInv => BooksMatchMoney
  BY HeldBooks DEF Held
<1> QED
  BY <1>1, TreasuryInvariance, MoneyInvariance, PTL

-----------------------------------------------------------------------------
(* What a step does to the stop.                                           *)

(* A spend is made by a treasury that is not paused.                       *)
LEMMA SpendsUntripped ==
    ASSUME Held, SomeSpend PROVE DrawdownDecides
<1>1. PICK a \in Agents, k \in Markets, n \in Nat : Spends(a, k, n)
  BY DEF SomeSpend
<1>2. PICK short \in 0 .. 1 :
        \E m, b : ~stop.paused /\ Spend(a, k, m, b, n, short)
  BY <1>1 DEF Spends
<1>3. PICK m, b : ~stop.paused /\ Spend(a, k, m, b, n, short)
  BY <1>2
<1>4. stop' = stop /\ ~stop.tripped
  BY <1>3, HeldParts DEF Spend, StopShape
<1>5. hist'.ended = hist.ended
  <2>1. HistShape(hist) /\ n \in Int
    BY HeldParts
  <2>2. hist' = [hist EXCEPT !.spent = @ \cup {Spending(a, n)}, !.in[k] = @ + n]
    BY <1>3 DEF Spend, Spending
  <2> QED
    BY <2>1, <2>2, HistSpends, Zenon DEF SameEnds
<1> QED
  BY <1>4, <1>5 DEF DrawdownDecides, DrawdownStatus

LEMMA StaysDecides ==
    ASSUME Stays PROVE DrawdownDecides
BY DEF Stays, DrawdownDecides, DrawdownStatus

(* try_realize() and check_drawdown(): the market that ends is in the      *)
(* window when it is read.                                                 *)
LEMMA SettlingDecides ==
    ASSUME Held, Settling, DrawdownIsTrue' PROVE DrawdownDecides
<1>1. PICK k \in Markets, n \in Nat : \E m, b : SettlesTo(k, m, n, b)
  BY DEF Settling
<1>2. PICK m, b : SettlesTo(k, m, n, b)
  BY <1>1
<1>3. /\ book' = b /\ now' = now /\ stop' = CheckDrawdown(b)
      /\ Settle(k, m, b, n) /\ Realizes(book, b, k, m, now, stop.days)
  BY <1>2 DEF SettlesTo, Settle, Return, govVars
<1>4. n \in Int /\ k[2] \in Ids
  BY MarketParts
<1>5. /\ hist'.spent = hist.spent
      /\ ~Ends(k, m) => hist'.ended = hist.ended
      /\ Ends(k, m) =>
            hist'.blurred = IF Unclear(k) THEN hist.blurred \cup {Day(now)}
                            ELSE hist.blurred
  BY <1>3, <1>4, SettleHist DEF SameEnds
<1>6. /\ k \in hist.ended => book.pnl[k[2]].realized
      /\ book.pnl[k[2]].realized /\ k \notin hist.ended => Unclear(k)
  BY EndedIsRealized
<1>7. StopShape(stop) /\ stop'.days = stop.days
  BY <1>3, StopAfter, HeldParts
<1>8. PICK pnl : pnl = CalcWindowPnl(b.days, now, stop.days)
  OBVIOUS
<1>9. Unblurred' => pnl = WindowResult'
  BY <1>3, <1>7, <1>8, Zenon DEF DrawdownIsTrue, DrawdownStatus
<1>10. \/ stop' = stop /\ ~(NewlyRealized(b) # {} /\ ~stop.tripped
                              /\ pnl < -stop.max)
       \/ /\ NewlyRealized(b) # {} /\ ~stop.tripped /\ pnl < -stop.max
          /\ stop'.tripped /\ ~stop'.acked
  <2>1. PICK s : s = [stop EXCEPT !.paused = TRUE, !.tripped = TRUE,
                                  !.acked = FALSE]
    OBVIOUS
  <2>2. s.tripped /\ ~s.acked
    BY <1>7, <2>1 DEF StopShape
  <2>3. stop' = IF NewlyRealized(b) # {} /\ ~stop.tripped /\ pnl < -stop.max
                THEN s ELSE stop
    BY <1>3, <1>8, <2>1, Zenon DEF CheckDrawdown
  <2> QED
    BY <2>2, <2>3
<1>11. ~Ends(k, m) => NewlyRealized(b) = {}
  <2>1. SUFFICES ASSUME ~Ends(k, m) PROVE NewlyRealized(b) = {}
    OBVIOUS
  <2>2. ~(Final(m) /\ ~Holds(m) /\ ~book.pnl[k[2]].realized)
    BY <1>6, <2>1 DEF Ends
  <2>3. SameResults(book, b)
    BY <1>3, <2>2, Zenon DEF Realizes
  <2> QED
    BY <2>3 DEF SameResults, NewlyRealized
<1>12. Ends(k, m) /\ Unblurred' => NewlyRealized(b) # {}
  <2>1. SUFFICES ASSUME Ends(k, m), Unblurred' PROVE NewlyRealized(b) # {}
    OBVIOUS
  <2>2. Final(m) /\ ~Holds(m) /\ k \notin hist.ended
    BY <2>1, Zenon DEF Ends
  <2>3. Day(now) \notin hist'.blurred
    <3>1. stop.days \in Nat \ {0} /\ Day(now) \in Nat
      BY HeldDays
    <3>2. \A d \in hist'.blurred : d <= Day(now) - stop.days
      BY <1>3, <1>7, <2>1 DEF Unblurred
    <3> QED
      BY <3>1, <3>2
  <2>4. ~Unclear(k)
    BY <1>5, <2>1, <2>3
  <2>5. ~book.pnl[k[2]].realized
    BY <1>6, <2>2, <2>4
  <2>6. b.pnl[k[2]].realized
    BY <1>3, <2>2, <2>5, Zenon DEF Realizes, Joins
  <2> QED
    BY <1>4, <2>5, <2>6 DEF NewlyRealized
<1>13. DrawdownStatus.tripped = stop.tripped
       /\ DrawdownStatus'.tripped = stop'.tripped
  BY DEF DrawdownStatus
<1>14. /\ hist'.ended # hist.ended /\ Unblurred' /\ WindowResult' < -stop.max
          => stop'.tripped
       /\ ~stop.tripped /\ stop'.tripped
          => /\ Ends(k, m) /\ ~stop'.acked
             /\ Unblurred' => WindowResult' < -stop.max
       /\ stop.tripped => stop'.tripped
  BY <1>5, <1>9, <1>10, <1>11, <1>12
<1>15. Ends(k, m) => hist'.ended # hist.ended
  <2>1. Ends(k, m) => hist'.ended = hist.ended \cup {k}
    BY <1>3, <1>4, SettleHist
  <2> QED
    BY <2>1 DEF Ends
<1> QED
  BY <1>5, <1>13, <1>14, <1>15 DEF DrawdownDecides

(* The drawdown stop decides on the money.  What drawdown_status reports   *)
(* is what the markets that ended in the last window_days days really paid *)
(* less what they really cost, each counted once and on its day; a market  *)
(* whose end takes that below the maximum loss trips the stop in the same  *)
(* call, nothing else does, and while it is down the treasury is paused    *)
(* and spends nothing.  Excepted are windows with a day on which a batch   *)
(* call's market ended, or one whose id a second core had used.            *)
THEOREM DrawdownIsExact == Spec => DrawdownGuards
<1>1. TreasuryInv /\ MoneyInv => DrawdownIsTrue
  BY HeldStop DEF Held
<1>2. TreasuryInv /\ MoneyInv /\ DrawdownIsTrue' /\ [Next]_vars
      => DrawdownDecides
  <2> SUFFICES ASSUME Held, DrawdownIsTrue', [Next]_vars
               PROVE  DrawdownDecides
    BY DEF Held
  <2> QED
    BY NextMoney, StaysDecides, SpendsUntripped, SettlingDecides
<1> QED
  BY <1>1, <1>2, TreasuryInvariance, MoneyInvariance, PTL
     DEF Spec, DrawdownGuards

-----------------------------------------------------------------------------
(* What a spend leaves behind.                                             *)

(* The last day lies within the hours a window spans.                      *)
LEMMA DayInWindow ==
    ASSUME NEW t \in Nat, NEW u \in Nat, u <= t, u > t - DaySeconds
    PROVE  Hour(u) > Hour(t) - Buckets
<1>1. PICK s \in Nat \ {0}, b \in Nat \ {0} :
        s = BucketSeconds /\ b = Buckets - 1
  BY TreasuryMathAssumption
<1>2. DaySeconds = b * s
  BY <1>1 DEF DaySeconds
<1>3. PICK p \in Nat, q \in Nat : p = Hour(u) /\ q = Hour(t)
  BY Clocks
<1>4. q * s <= t /\ ~((p + 1) * s <= u)
  <2>1. q * s <= t
    BY <1>1, <1>3, Periods DEF Hour
  <2>2. \A x \in Int : x <= p <=> x * s <= u
    BY <1>1, <1>3, Periods DEF Hour
  <2>3. p + 1 \in Int /\ ~(p + 1 <= p)
    OBVIOUS
  <2> QED
    BY <2>1, <2>2, <2>3
<1>5. SUFFICES ASSUME p <= q - (b + 1) PROVE FALSE
  <2>1. Buckets = b + 1
    BY <1>1, TreasuryMathAssumption
  <2> QED
    BY <1>3, <2>1
<1>6. PICK d \in Nat : q = p + 1 + b + d
  BY <1>5
<1>7. q * s = (p + 1) * s + b * s + d * s /\ d * s \in Nat
      /\ (p + 1) * s \in Nat /\ b * s \in Nat
  BY <1>6
<1> QED
  BY <1>2, <1>4, <1>7

(* What was spent within the last day is within what the window counts.    *)
LEMMA DaysSpending ==
    ASSUME NEW R, Records(R), NEW t \in Nat, \A r \in R : r.at <= t,
           NEW z, z \notin R, z.at = t, z.amount \in Nat
    PROVE  /\ SpentIn(R \cup {z}, t - DaySeconds) \in Nat
           /\ Total(InWindow(R, t)) \in Nat
           /\ SpentIn(R \cup {z}, t - DaySeconds)
                  <= Total(InWindow(R, t)) + z.amount
<1> DEFINE W == InWindow(R, t)
           L == Since(R \cup {z}, t - DaySeconds)
<1>1. Records(W) /\ Total(W) \in Nat
  <2>1. W \in SUBSET R
    BY DEF InWindow
  <2> QED
    BY <2>1, FewerRecords
<1>2. z \notin W
  BY DEF InWindow
<1> HIDE DEF W
<1>3. Records(W \cup {z}) /\ Total(W \cup {z}) = Total(W) + z.amount
  BY <1>1, <1>2, OneMoreRecord
<1>4. L \in SUBSET (W \cup {z})
  BY DayInWindow DEF Records, Since, W, InWindow
<1> HIDE DEF L
<1>5. Total(L) <= Total(W \cup {z}) /\ Total(L) \in Nat
  BY <1>3, <1>4, LessInTotal, FewerRecords
<1>6. SpentIn(R \cup {z}, t - DaySeconds) = Total(L)
  <2>1. 0 \in Int
    OBVIOUS
  <2> QED
    BY <2>1, RecordsSum DEF L
<1> QED
  BY <1>1, <1>3, <1>5, <1>6 DEF W

(* One step of SpendWithinLimits.                                          *)
SpendKept ==
    hist'.spent # hist.spent =>
          LET new == CHOOSE r \in hist'.spent : r \notin hist.spent IN
          /\ new.amount <= MinOf(DailyHeadroom, AvailableCapital)
          /\ SpentIn(hist'.spent, now - DaySeconds) <= global.daily
          /\ SpentIn({r \in hist'.spent : r.agent = new.agent},
                     now - DaySeconds) <= agents[new.agent].daily
          /\ \A k \in Markets : \/ hist'.in[k] = hist.in[k]
                               \/ hist'.in[k] <= global.market
          /\ NetExposure' <= global.net
          /\ vault'.idle >= vault.reserved

LEMMA ReservedNat == ASSUME Held PROVE vault.reserved \in Nat
<1> DEFINE f == [i \in QueueBounds |-> WithdrawTicket(i).remaining]
<1>1. vault \in VaultType /\ VaultBooks
  BY DEF Held, TreasuryInv, StateTypes, VaultInv
<1>2. IsFiniteSet(QueueBounds)
  BY <1>1, FS_Interval DEF QueueBounds, VaultType
<1>3. \A i \in QueueBounds : f[i] \in Nat
  <2>1. ASSUME NEW i \in QueueBounds PROVE WithdrawTicket(i).remaining \in Nat
    <3>1. vault.head \in Nat /\ vault.tail \in Nat /\ vault.head >= 1
          /\ vault.tail <= MaxTickets + 1 /\ MaxTickets \in Nat
      BY <1>1, TreasuryAssumption
         DEF Held, TreasuryInv, VaultInv, VaultType
    <3>2. i \in 1 .. MaxTickets
      BY <3>1 DEF QueueBounds
    <3>3. WithdrawTicket(i) # None /\ WithdrawTicket(i) \in Tickets \cup {None}
      BY <1>1, <3>2 DEF VaultBooks, VaultType, WithdrawTicket
    <3> QED
      BY <3>3 DEF Tickets
  <2> QED
    BY <2>1
<1>4. SumFunction(f) = SumFunctionOnSet(f, QueueBounds)
  BY SumDomain
<1>5. QueueReserved = SumFunction(f)
  BY <1>1 DEF VaultBooks
<1> HIDE DEF f
<1>6. SumFunctionOnSet(f, QueueBounds) \in Nat
  BY <1>2, <1>3, SumNat
<1> QED
  BY <1>4, <1>5, <1>6 DEF QueueReserved

(* The cash a spend needs is there, recalled or not, and the queue's part  *)
(* stays.                                                                  *)
LEMMA SpendCash ==
    ASSUME Held, NEW n \in Nat, NEW short \in 0 .. 1, LiquidOk(n, short),
           Unreserved(vault.idle, n)
              \/ Unreserved(vault.idle + Recalled(n) - short, n)
    PROVE  /\ n <= AvailableCapital /\ AvailableCapital \in Int
           /\ vault.idle + Recalled(n) - short - n >= vault.reserved
<1>1. vault.idle \in Int /\ vault.reserved \in Nat
  BY ReservedNat, HeldParts DEF VaultType
<1>2. yield.supplied \in Nat
  BY HeldParts DEF YieldShape
<1>3. AvailableCapital = vault.idle + yield.supplied
  BY DEF AvailableCapital, CapitalBreakdown
<1>4. n <= AvailableCapital /\ AvailableCapital \in Int
  BY <1>1, <1>2, <1>3 DEF LiquidOk, Recalled
<1>5. vault.idle + Recalled(n) - short - n >= vault.reserved
  BY <1>1, <1>2 DEF LiquidOk, Recalled, Unreserved
<1> QED
  BY <1>4, <1>5

(* The caps hold for what is really spent, not only for what the windows   *)
(* report.                                                                 *)
LEMMA SpendCaps ==
    ASSUME Held, NEW a \in Agents, agents[a] # NoPending, NEW k \in Markets,
           NEW n \in Nat, SpendOk(a, k, n), NEW z, z \notin hist.spent,
           z.at = now, z.agent = a, z.amount = n
    PROVE  /\ n <= DailyHeadroom /\ DailyHeadroom \in Int
           /\ SpentIn(hist.spent \cup {z}, now - DaySeconds) <= global.daily
           /\ SpentIn(SpentBy(a) \cup {z}, now - DaySeconds) <= agents[a].daily
           /\ hist.in[k] + n <= global.market
<1>1. global.daily \in Int /\ global.market \in Int /\ agents[a].daily \in Int
  <2>1. global \in Configs \cup {Genesis} /\ agents[a] \in PolicyType
    BY HeldParts DEF GovInv, GovTypes
  <2> QED
    BY <2>1, TreasuryGovAssumption DEF PolicyType
<1>2. now \in Nat /\ Records(hist.spent) /\ \A r \in hist.spent : r.at <= now
  BY HeldRecords
<1>3. PICK u \in Nat : u = Total(InWindow(hist.spent, now))
  BY <1>2, DaysSpending
<1>4. /\ Records(SpentBy(a)) /\ \A r \in SpentBy(a) : r.at <= now
      /\ z \notin SpentBy(a)
  BY HeldRecords DEF SpentBy
<1>5. PICK v \in Nat : v = Total(InWindow(SpentBy(a), now))
  BY <1>2, <1>4, DaysSpending
<1>6. Used(book.window, now) = u /\ Used(book.agentWindow[a], now) = v
      /\ DailyUsage.amount = u
  BY <1>3, <1>5, UsageTotals DEF DailyUsage, AgentDailyUsage, Summarize
<1>7. /\ u + n <= global.daily /\ v + n <= agents[a].daily
      /\ book.exposure[k].amount + n <= global.market
  BY <1>6 DEF SpendOk, ReserveCapacityOk, WithinDaily
<1>8. n <= DailyHeadroom /\ DailyHeadroom \in Int
  BY <1>1, <1>6, <1>7 DEF DailyHeadroom, NonNeg
<1>9. SpentIn(hist.spent \cup {z}, now - DaySeconds) <= global.daily
  <2>1. /\ SpentIn(hist.spent \cup {z}, now - DaySeconds) \in Nat
        /\ SpentIn(hist.spent \cup {z}, now - DaySeconds) <= u + n
    BY <1>2, <1>3, DaysSpending
  <2> QED
    BY <1>1, <1>7, <2>1
<1>10. SpentIn(SpentBy(a) \cup {z}, now - DaySeconds) <= agents[a].daily
  <2>1. /\ SpentIn(SpentBy(a) \cup {z}, now - DaySeconds) \in Nat
        /\ SpentIn(SpentBy(a) \cup {z}, now - DaySeconds) <= v + n
    BY <1>2, <1>4, <1>5, DaysSpending
  <2> QED
    BY <1>1, <1>7, <2>1
<1>11. hist.in[k] + n <= global.market
  BY <1>7, HeldParts DEF Agree
<1> QED
  BY <1>8, <1>9, <1>10, <1>11

LEMMA SavedTotal ==
    ASSUME NEW b, BookShape(b), NEW k \in Markets,
           NEW x \in [in : Int, out : Int], NEW c, c = SaveNet(b, k, x)
    PROVE  c.netTotal = b.netTotal - CostBasis(b.net[k]) + CostBasis(x)
<1>1. CostBasis(x) \in Nat
  BY DEF CostBasis, NonNeg
<1>2. PICK u \in Int : u = b.netTotal - CostBasis(b.net[k]) + CostBasis(x)
  BY <1>1, ShapeParts
<1>3. c = [b EXCEPT !.net = [b.net EXCEPT ![k] = x], !.netTotal = u]
  BY <1>2, Zenon DEF SaveNet
<1>4. c.netTotal = u
  BY <1>3 DEF BookShape
<1> QED
  BY <1>2, <1>4

(* What the check measured is what the books hold afterwards.              *)
LEMMA SpendNet ==
    ASSUME Held, NEW b, SameMoney(book, b), NEW a, NEW k \in Markets,
           NEW n \in Nat, SpendOk(a, k, n)
    PROVE  Spent(b, a, k, n).netTotal <= global.net
<1>1. BookShape(book) /\ BookShape(b)
  BY HeldParts DEF SameMoney
<1>2. PICK x : x = [book.net[k] EXCEPT !.in = @ + n]
  OBVIOUS
<1>3. book.net[k] \in [in : Int, out : Int] /\ b.net[k] = book.net[k]
      /\ b.netTotal = book.netTotal
  BY <1>1, ShapeParts DEF SameMoney
<1>4. /\ x \in [in : Int, out : Int] /\ x.in = book.net[k].in + n
      /\ x.out = book.net[k].out
  BY <1>2, <1>3
<1>5. ReserveNet(book, k, n) = SaveNet(book, k, x)
  BY <1>2, Zenon DEF ReserveNet
<1>6. PICK d : d = SaveNet(book, k, x)
  OBVIOUS
<1>7. d.netTotal = book.netTotal - CostBasis(book.net[k]) + CostBasis(x)
  BY <1>1, <1>4, <1>6, SavedTotal
<1>8. PICK c : c = Spent(b, a, k, n)
  OBVIOUS
<1>9. BookMoved(b, c, k, n, 0, 0)
  BY <1>1, <1>8, SpentMoves DEF SpentPost
<1>10. c.net[k].in = x.in /\ c.net[k].out = x.out
      /\ c.netTotal = book.netTotal - CostBasis(book.net[k])
                        + CostBasis(c.net[k])
  <2>1. book.net[k].out \in Int
    BY <1>3
  <2> QED
    BY <1>3, <1>4, <1>9, <2>1 DEF BookMoved
<1>11. CostBasis(c.net[k]) = CostBasis(x)
  BY <1>10, Zenon DEF CostBasis
<1>12. c.netTotal = d.netTotal
  BY <1>7, <1>10, <1>11
<1>13. d.netTotal <= global.net
  BY <1>5, <1>6 DEF SpendOk
<1> QED
  BY <1>8, <1>12, <1>13

LEMMA SpendsKept ==
    ASSUME Held, NEW a \in Agents, NEW k \in Markets, NEW n \in Nat,
           Spends(a, k, n)
    PROVE  SpendKept
<1>1. PICK short \in 0 .. 1 :
         \E m, b : /\ agents[a] # NoPending /\ SameMoney(book, b)
                   /\ SpendOk(a, k, n) /\ LiquidOk(n, short)
                   /\ Unreserved(vault.idle, n)
                      \/ Unreserved(vault.idle + Recalled(n) - short, n)
                   /\ Spend(a, k, m, b, n, short)
  BY DEF Spends
<1>2. PICK m, b : /\ agents[a] # NoPending /\ SameMoney(book, b)
                  /\ SpendOk(a, k, n) /\ LiquidOk(n, short)
                  /\ Unreserved(vault.idle, n)
                     \/ Unreserved(vault.idle + Recalled(n) - short, n)
                  /\ Spend(a, k, m, b, n, short)
  BY <1>1
<1>3. PICK z : z = Spending(a, n)
  OBVIOUS
<1>4. /\ z.at = now /\ z.agent = a /\ z.amount = n
      /\ z.n = Cardinality(hist.spent)
  BY <1>3 DEF Spending
<1>5. z \notin hist.spent
  <2>1. /\ Cardinality(hist.spent) \in Nat
        /\ \A r \in hist.spent : r.n < Cardinality(hist.spent)
    BY FS_CardinalityType DEF Held, MoneyInv, SpendingNumbered
  <2> QED
    BY <1>4, <2>1
<1>6. HistShape(hist) /\ vault \in VaultType
  BY HeldParts
<1>7. hist'.spent = hist.spent \cup {z} /\ HistMoved(hist, hist', k, n, 0, 0)
  <2>1. n \in Int
    OBVIOUS
  <2>2. hist' = [hist EXCEPT !.spent = @ \cup {Spending(a, n)}, !.in[k] = @ + n]
    BY <1>2 DEF Spend, Spending
  <2> QED
    BY <1>3, <1>6, <2>1, <2>2, HistSpends, Zenon
<1>8. (CHOOSE r \in hist'.spent : r \notin hist.spent) = z
  BY <1>5, <1>7
<1>9. /\ n <= DailyHeadroom /\ DailyHeadroom \in Int
      /\ SpentIn(hist.spent \cup {z}, now - DaySeconds) <= global.daily
      /\ SpentIn(SpentBy(a) \cup {z}, now - DaySeconds) <= agents[a].daily
      /\ hist.in[k] + n <= global.market
  BY <1>2, <1>4, <1>5, SpendCaps
<1>10. /\ n <= AvailableCapital /\ AvailableCapital \in Int
       /\ vault.idle + Recalled(n) - short - n >= vault.reserved
  BY <1>2, SpendCash
<1>11. n <= MinOf(DailyHeadroom, AvailableCapital)
  BY <1>9, <1>10 DEF MinOf
<1>12. {r \in hist'.spent : r.agent = a} = SpentBy(a) \cup {z}
  BY <1>4, <1>7 DEF SpentBy
<1>13. \A j \in Markets : \/ hist'.in[j] = hist.in[j]
                           \/ hist'.in[j] <= global.market
  BY <1>7, <1>9 DEF HistMoved, FlowMoved
<1>14. NetExposure' <= global.net
  <2>1. book' = Spent(b, a, k, n)
    BY <1>2 DEF Spend
  <2> QED
    BY <1>2, <2>1, SpendNet DEF NetExposure
<1>15. vault'.idle >= vault.reserved
  <2>1. PICK q : q = vault.idle + Recalled(n) - short - n
    OBVIOUS
  <2>2. vault' = [vault EXCEPT !.idle = q]
    BY <1>2, <2>1, Zenon DEF Spend
  <2>3. vault'.idle = q
    BY <1>6, <2>2 DEF VaultType
  <2> QED
    BY <1>10, <2>1, <2>3
<1>16. SpentIn(hist'.spent, now - DaySeconds) <= global.daily
  BY <1>7, <1>9, Zenon
<1>17. SpentIn({r \in hist'.spent : r.agent = a}, now - DaySeconds)
          <= agents[a].daily
  BY <1>9, <1>12, Zenon
<1> QED
  BY <1>4, <1>8, <1>11, <1>13, <1>14, <1>15, <1>16, <1>17, Zenon DEF SpendKept

(* A spend by an agent is within what the views announced and within every *)
(* cap on what was really spent: in the last 24 hours by all and by this   *)
(* agent, ever in this market, still deployed; and the collateral left     *)
(* covers the withdrawal queue, also after a recall one unit short.        *)
THEOREM SpendingIsCapped == Spec => SpendWithinLimits
<1>1. TreasuryInv /\ MoneyInv /\ [Next]_vars => SpendKept
  <2> SUFFICES ASSUME Held, [Next]_vars PROVE SpendKept
    BY DEF Held
  <2>1. CASE hist'.spent = hist.spent
    BY <2>1 DEF SpendKept
  <2>2. CASE SomeSpend
    BY <2>2, SpendsKept DEF SomeSpend
  <2>3. CASE Settling
    BY <2>1, <2>3, SettlesSpendNothing
  <2> QED
    BY <2>1, <2>2, <2>3, NextMoney DEF Stays
<1> QED
  BY <1>1, TreasuryInvariance, MoneyInvariance, PTL
     DEF Spec, SpendWithinLimits, SpendKept
=============================================================================
