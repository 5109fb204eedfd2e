----------------------------- MODULE MathProofs -----------------------------
(***************************************************************************)
(* The mathematics the other proofs rest on: integer division, the market  *)
(* maker's arithmetic for pools of every size, and sums over finite sets.  *)
(***************************************************************************)
EXTENDS FpmmMath, Functions, FiniteSetTheorems, TLAPS

-----------------------------------------------------------------------------
(* Division and the market maker's arithmetic.                             *)

(* Integer division by a positive number: quotient and remainder.          *)
LEMMA Division ==
    ASSUME NEW x \in Nat, NEW c \in Nat, c > 0
    PROVE  /\ x \div c \in Nat /\ x % c \in Nat
           /\ x = c * (x \div c) + (x % c)
           /\ x % c < c
<1>1. x \div c \in Int
  OBVIOUS
<1>2. x % c \in Int /\ 0 <= x % c /\ x % c < c
  OBVIOUS
<1>3. x = c * (x \div c) + (x % c)
  OBVIOUS
<1>4. PICK q \in Int : q = x \div c
  BY <1>1
<1>5. PICK r \in Int : r = x % c
  BY <1>2
<1>6. x = c * q + r /\ 0 <= r /\ r < c
  BY <1>2, <1>3, <1>4, <1>5
<1>7. q >= 0
  <2>1. SUFFICES ASSUME q <= -1 PROVE FALSE
    OBVIOUS
  <2>2. c * q <= -c
    BY <2>1
  <2> QED
    BY <1>6, <2>2
<1> QED
  BY <1>2, <1>3, <1>4, <1>7

(* One step past the end of a ring of n starts again at its beginning.     *)
LEMMA ShortStep ==
    ASSUME NEW n \in Nat \ {0}, NEW i \in 0 .. n - 1, NEW k \in 0 .. n
    PROVE  (i + k) % n = IF i + k < n THEN i + k ELSE i + k - n
<1>1. PICK q \in Nat, r \in Nat :
          q = (i + k) \div n /\ r = (i + k) % n /\ i + k = n * q + r /\ r < n
  BY Division
<1>2. q = 0 \/ q = 1 \/ q >= 2
  BY <1>1
<1>3. CASE q = 0
  BY <1>1, <1>3
<1>4. CASE q = 1
  BY <1>1, <1>4
<1>5. CASE q >= 2
  <2>1. PICK p \in Nat : q = p + 2
    BY <1>5
  <2>2. n * (p + 2) = n * p + 2 * n /\ n * p \in Nat
    OBVIOUS
  <2> QED
    BY <1>1, <2>1, <2>2
<1> QED
  BY <1>2, <1>3, <1>4, <1>5

LEMMA Product ==
    ASSUME NEW a \in Nat, NEW b \in Nat PROVE a * b \in Nat
OBVIOUS

(* mul_div_floor and mul_div_ceil bracket the exact quotient.              *)
LEMMA FloorBound ==
    ASSUME NEW a \in Nat, NEW b \in Nat, NEW c \in Nat, c > 0
    PROVE  MulDivFloor(a, b, c) \in Nat /\ c * MulDivFloor(a, b, c) <= a * b
<1>1. a * b \in Nat
  BY Product
<1>2. PICK x \in Nat : x = a * b
  BY <1>1
<1>3. /\ x \div c \in Nat /\ x % c \in Nat /\ c * (x \div c) \in Nat
      /\ x = c * (x \div c) + (x % c)
  BY Division, Product
<1> QED
  BY <1>2, <1>3 DEF MulDivFloor

LEMMA CeilBound ==
    ASSUME NEW a \in Nat, NEW b \in Nat, NEW c \in Nat, c > 0
    PROVE  MulDivCeil(a, b, c) \in Nat /\ c * MulDivCeil(a, b, c) >= a * b
<1>1. a * b \in Nat
  BY Product
<1>2. PICK x \in Nat : x = a * b
  BY <1>1
<1>3. /\ x \div c \in Nat /\ x % c \in Nat /\ c * (x \div c) \in Nat
      /\ x = c * (x \div c) + (x % c) /\ x % c < c
  BY Division, Product
<1>4. PICK q \in Nat : q = x \div c
  BY <1>3
<1>5. CASE x % c = 0
  BY <1>2, <1>3, <1>5 DEF MulDivCeil
<1>6. CASE x % c # 0
  <2>1. MulDivCeil(a, b, c) = q + 1
    BY <1>2, <1>4, <1>6 DEF MulDivCeil
  <2>2. c * (q + 1) = c * q + c
    OBVIOUS
  <2> QED
    BY <1>2, <1>3, <1>4, <2>1, <2>2
<1> QED
  BY <1>5, <1>6

(* The protocol never takes more than the fee: LpFee is not negative.      *)
LEMMA FeeSplit ==
    ASSUME NEW fee \in Nat, NEW share \in 0 .. BPS
    PROVE  /\ ProtocolFee(fee, share) \in Nat
           /\ LpFee(fee, share) \in Nat
           /\ ProtocolFee(fee, share) + LpFee(fee, share) = fee
<1>1. fee * share \in Nat /\ fee * share <= fee * BPS
  BY DEF BPS
<1>2. PICK x \in Nat : x = fee * share
  BY <1>1
<1>3. ProtocolFee(fee, share)
          = IF x % BPS # 0 THEN (x \div BPS) + 1 ELSE x \div BPS
  BY <1>2 DEF ProtocolFee, MulDivCeil
<1>4. x <= 10000 * fee
  BY <1>1, <1>2 DEF BPS
<1>5. ProtocolFee(fee, share) \in Nat /\ ProtocolFee(fee, share) <= fee
  BY <1>3, <1>4 DEF BPS
<1> QED
  BY <1>5 DEF LpFee

(* calc_buy: the collateral is fee plus net, the pool takes net complete   *)
(* sets and gives shares of one side, and its product does not fall.       *)
BuyPost(q, rb, ro, amt) ==
    /\ q.fee \in Nat /\ q.net \in Nat /\ q.shares \in Nat
    /\ q.newBought \in Nat /\ q.newOther \in Nat
    /\ q.fee + q.net = amt
    /\ q.newOther = ro + q.net /\ q.net > 0
    /\ q.newBought + q.shares = rb + q.net
    /\ q.newBought * q.newOther >= rb * ro

LEMMA BuyFacts ==
    ASSUME NEW rb \in Nat, NEW ro \in Nat, NEW amt \in Nat,
           NEW feeBps \in FeeRange, BuyOk(rb, ro, amt, feeBps)
    PROVE  BuyPost(CalcBuy(rb, ro, amt, feeBps), rb, ro, amt)
<1>0. PICK q : q = CalcBuy(rb, ro, amt, feeBps)
  OBVIOUS
<1>1. MulDivCeil(amt, feeBps, BPS) \in Nat
  <2>1. feeBps \in Nat /\ BPS \in Nat \ {0}
    BY DEF BPS, FeeRange
  <2> QED
    BY CeilBound, <2>1
<1>2. PICK fee \in Nat : fee = MulDivCeil(amt, feeBps, BPS)
  BY <1>1
<1>3. /\ q.fee = fee /\ q.net = amt - fee /\ q.newOther = ro + (amt - fee)
      /\ q.newBought = MulDivCeil(rb, ro, ro + (amt - fee))
      /\ q.shares = rb + (amt - fee) - q.newBought
      /\ amt - fee > 0 /\ q.shares > 0
  BY <1>0, <1>2 DEF BuyOk, CalcBuy
<1>4. PICK net \in Nat : net = amt - fee /\ net > 0
  BY <1>3
<1>5. PICK c \in Nat : c = ro + net /\ c > 0
  BY <1>4
<1>6. /\ MulDivCeil(rb, ro, c) \in Nat
      /\ c * MulDivCeil(rb, ro, c) >= rb * ro
  BY CeilBound, <1>5
<1>7. PICK nb \in Nat : nb = MulDivCeil(rb, ro, c)
  BY <1>6
<1>8. nb * c >= rb * ro
  BY <1>6, <1>7
<1>9. q.newBought = nb /\ q.newOther = c
  BY <1>3, <1>4, <1>5, <1>7
<1>10. q.newBought * q.newOther >= rb * ro
  BY <1>8, <1>9
<1>11. q.shares \in Nat /\ q.newBought + q.shares = rb + q.net
  BY <1>3, <1>9
<1> QED
  BY <1>0, <1>3, <1>4, <1>5, <1>9, <1>10, <1>11 DEF BuyPost

(* calc_sell: gross complete sets leave the pool, shares enter it, and its *)
(* product does not fall.                                                  *)
SellPost(q, rs, ro, out) ==
    /\ q.fee \in Nat /\ q.gross \in Nat /\ q.shares \in Nat
    /\ q.newSold \in Nat /\ q.newOther \in Nat
    /\ q.gross = out + q.fee
    /\ q.newOther = ro - q.gross /\ q.newOther > 0
    /\ q.newSold + q.gross = rs + q.shares
    /\ q.newSold * q.newOther >= rs * ro

LEMMA SellFacts ==
    ASSUME NEW rs \in Nat, NEW ro \in Nat, NEW out \in Nat,
           NEW feeBps \in FeeRange, SellOk(rs, ro, out, feeBps)
    PROVE  SellPost(CalcSell(rs, ro, out, feeBps), rs, ro, out)
<1>0. PICK q : q = CalcSell(rs, ro, out, feeBps)
  OBVIOUS
<1>1. PICK d \in Nat : d = BPS - feeBps /\ d > 0 /\ d <= BPS
  BY DEF BPS, FeeRange
<1>2. /\ MulDivCeil(out, BPS, d) \in Nat
      /\ d * MulDivCeil(out, BPS, d) >= out * BPS
  <2>1. BPS \in Nat
    BY DEF BPS
  <2> QED
    BY CeilBound, <1>1, <2>1
<1>3. PICK g \in Nat : g = MulDivCeil(out, BPS, d)
  BY <1>2
<1>4. g >= out
  <2>1. SUFFICES ASSUME g + 1 <= out PROVE FALSE
    OBVIOUS
  <2>2. d * g <= BPS * g
    BY <1>1 DEF BPS
  <2>3. out * BPS >= (g + 1) * BPS
    BY <2>1 DEF BPS
  <2> QED
    BY <1>2, <1>3, <2>2, <2>3 DEF BPS
<1>5. /\ q.gross = g /\ q.fee = g - out /\ q.newOther = ro - g
      /\ q.newSold = MulDivCeil(rs, ro, ro - g)
      /\ q.shares = q.newSold + g - rs
      /\ g < ro /\ q.shares > 0
  BY <1>0, <1>1, <1>3 DEF SellOk, CalcSell
<1>6. PICK c \in Nat : c = ro - g /\ c > 0
  BY <1>5
<1>7. /\ MulDivCeil(rs, ro, c) \in Nat
      /\ c * MulDivCeil(rs, ro, c) >= rs * ro
  BY CeilBound, <1>6
<1>8. PICK ns \in Nat : ns = MulDivCeil(rs, ro, c)
  BY <1>7
<1>9. ns * c >= rs * ro
  BY <1>7, <1>8
<1>10. q.newSold = ns /\ q.newOther = c
  BY <1>5, <1>6, <1>8
<1> QED
  BY <1>0, <1>4, <1>5, <1>6, <1>9, <1>10 DEF SellPost

(* seed_reserves: the pool's reserves are numbers; what the creator keeps  *)
(* of the seed makes up the rest.                                          *)
LEMMA SeedFacts ==
    ASSUME NEW seed \in Nat, NEW p \in Nat, SeedOk(seed, p)
    PROVE  /\ SeedReserves(seed, p) \in [Outcomes -> Nat]
           /\ CreatorShares(seed, p) \in [Outcomes -> Nat]
           /\ \A o \in Outcomes : SeedReserves(seed, p)[o]
                                    + CreatorShares(seed, p)[o] = seed
<1>1. p \in 100 .. 9900
  BY DEF SeedOk
<1>2. CASE 2 * p >= BPS
  <2>1. PICK d \in Nat : d = BPS - p /\ d <= p
    BY <1>1, <1>2 DEF BPS
  <2>2. /\ MulDivFloor(seed, d, p) \in Nat
        /\ p * MulDivFloor(seed, d, p) <= seed * d
    BY FloorBound, <1>1, <2>1
  <2>3. PICK y \in Nat : y = MulDivFloor(seed, d, p)
    BY <2>2
  <2>4. y <= seed
    <3>1. SUFFICES ASSUME seed + 1 <= y PROVE FALSE
      OBVIOUS
    <3>2. seed * d <= seed * p
      BY <2>1
    <3>3. p * y >= p * (seed + 1)
      BY <3>1
    <3>4. p * (seed + 1) = seed * p + p
      OBVIOUS
    <3>5. p > 0 /\ seed * p \in Nat /\ p * y \in Nat /\ seed * d \in Nat
      BY <1>1
    <3> QED
      BY <2>2, <2>3, <3>2, <3>3, <3>4, <3>5
  <2>5. SeedReserves(seed, p) = [yes |-> y, no |-> seed]
    BY <1>2, <2>1, <2>3 DEF SeedReserves
  <2> QED
    BY <2>4, <2>5 DEF CreatorShares, Outcomes
<1>3. CASE ~(2 * p >= BPS)
  <2>1. PICK d \in Nat : d = BPS - p /\ p <= d
    BY <1>1, <1>3 DEF BPS
  <2>2. /\ MulDivFloor(seed, p, d) \in Nat
        /\ d * MulDivFloor(seed, p, d) <= seed * p
    BY FloorBound, <1>1, <2>1
  <2>3. PICK y \in Nat : y = MulDivFloor(seed, p, d)
    BY <2>2
  <2>4. y <= seed
    <3>1. SUFFICES ASSUME seed + 1 <= y PROVE FALSE
      OBVIOUS
    <3>2. seed * p <= seed * d
      BY <2>1
    <3>3. d * y >= d * (seed + 1)
      BY <3>1
    <3>4. d * (seed + 1) = seed * d + d
      OBVIOUS
    <3>5. d > 0 /\ seed * p \in Nat /\ d * y \in Nat /\ seed * d \in Nat
      BY <1>1, <2>1
    <3> QED
      BY <2>2, <2>3, <3>2, <3>3, <3>4, <3>5
  <2>5. SeedReserves(seed, p) = [yes |-> seed, no |-> y]
    BY <1>3, <2>1, <2>3 DEF SeedReserves
  <2> QED
    BY <2>4, <2>5 DEF CreatorShares, Outcomes
<1> QED
  BY <1>2, <1>3
-----------------------------------------------------------------------------
(* A pool of which both reserves fall by e > 0 has a smaller product.      *)
LEMMA SmallerProduct ==
    ASSUME NEW a \in Nat, NEW b \in Nat, NEW e \in Nat,
           e > 0, e <= a, e < b
    PROVE  (a - e) * (b - e) < a * b
<1>1. PICK x \in Nat, y \in Nat : x = a - e /\ y = b - e /\ y > 0
  OBVIOUS
<1>2. a = x + e /\ b = y + e
  BY <1>1
<1>3. a * b = x * y + (x * e + e * y + e * e)
  BY <1>2
<1>4. x * e \in Nat /\ e * e \in Nat /\ e * y \in Nat
  BY Product
<1>5. e * e > 0
  BY <1>4
<1> QED
  BY <1>1, <1>3, <1>4, <1>5

(* Buying and selling back, for any pool, amount and fee up to the cap: a  *)
(* sale that needs no more shares than the purchase gave burns no more     *)
(* complete sets than the purchase added, because the pool would otherwise *)
(* be left with a smaller product than it started with.                    *)
THEOREM RoundTripLoses ==
    ASSUME NEW rb \in Nat, NEW ro \in Nat, NEW amt \in Nat, NEW out \in Nat,
           NEW feeBps \in FeeRange
    PROVE  NoProfit(rb, ro, amt, out, feeBps)
<1> DEFINE b == CalcBuy(rb, ro, amt, feeBps)
           c == CalcSell(b.newBought, b.newOther, out, feeBps)
<1> SUFFICES ASSUME BuyOk(rb, ro, amt, feeBps),
                    SellOk(b.newBought, b.newOther, out, feeBps),
                    c.shares <= b.shares
             PROVE  out <= amt
  BY DEF NoProfit
<1>1. BuyPost(b, rb, ro, amt)
  BY BuyFacts
<1>2. b.newBought \in Nat /\ b.newOther \in Nat
  BY <1>1 DEF BuyPost
<1>3. SellPost(c, b.newBought, b.newOther, out)
  BY <1>2, SellFacts
<1> HIDE DEF b, c
<1>4. PICK net \in Nat, nb \in Nat, no \in Nat, got \in Nat :
          /\ net = b.net /\ nb = b.newBought /\ no = b.newOther
          /\ got = b.shares
  BY <1>1 DEF BuyPost
<1>5. PICK g \in Nat, ns \in Nat, left \in Nat, paid \in Nat :
          /\ g = c.gross /\ ns = c.newSold /\ left = c.newOther
          /\ paid = c.shares
  BY <1>3 DEF SellPost
<1>6. b.fee \in Nat /\ c.fee \in Nat
  BY <1>1, <1>3 DEF BuyPost, SellPost
<1>7. net <= amt /\ no = ro + net /\ nb + got = rb + net
  BY <1>1, <1>4, <1>6 DEF BuyPost
<1>8. nb * no >= rb * ro
  BY <1>1, <1>4 DEF BuyPost
<1>9. g >= out /\ left = no - g /\ left > 0 /\ ns + g = nb + paid
  BY <1>3, <1>4, <1>5, <1>6 DEF SellPost
<1>10. ns * left >= nb * no
  BY <1>3, <1>4, <1>5 DEF SellPost
<1>11. paid <= got
  BY <1>4, <1>5
<1>12. SUFFICES ASSUME g > net PROVE FALSE
  BY <1>7, <1>9
<1>13. PICK e \in Nat : e = g - net /\ e > 0
  BY <1>12
<1>14. ns + e <= rb /\ left = ro - e /\ e < ro
  BY <1>11, <1>13, <1>7, <1>9
<1>15. PICK top \in Nat : top = rb - e /\ ns <= top /\ e <= rb
  BY <1>14
<1>16. ns * left <= top * left
  BY <1>15
<1>17. top * left < rb * ro
  BY <1>13, <1>14, <1>15, SmallerProduct
<1>18. PICK u \in Nat, v \in Nat, w \in Nat, z \in Nat :
           u = ns * left /\ v = top * left /\ w = rb * ro /\ z = nb * no
  BY Product
<1> QED
  BY <1>16, <1>17, <1>18, <1>8, <1>10

-----------------------------------------------------------------------------
(* Sums over finite sets, as the community module Functions defines them:  *)
(* what SumFunctionOnSet computes, whatever order the elements are chosen  *)
(* in.  Induction is stated with sets (a smallest counterexample).         *)

(* What holds of a set whenever it holds of the set without any one of its *)
(* elements holds of every finite set.                                     *)
LEMMA SubsetInduction ==
    ASSUME NEW S, IsFiniteSet(S), NEW Good,
           \A T \in SUBSET S : (\A x \in T : T \ {x} \in Good) => T \in Good
    PROVE  \A T \in SUBSET S : T \in Good
<1> DEFINE Bad == {T \in SUBSET S : T \notin Good}
<1>1. SUFFICES ASSUME Bad # {} PROVE FALSE
  OBVIOUS
<1>2. IsWellFoundedOn(StrictSubsetOrdering(S), SUBSET S)
  BY FS_StrictSubsetOrderingWellFounded, FS_FiniteSubsetsOfFinite
<1>3. PICK T \in Bad :
          \A U \in Bad : ~(<<U, T>> \in StrictSubsetOrdering(S))
  <2>1. Bad \subseteq SUBSET S
    OBVIOUS
  <2> HIDE DEF Bad
  <2> QED
    BY <1>1, <1>2, <2>1, WFMin
<1>4. T \in SUBSET S /\ T \notin Good
  OBVIOUS
<1>5. ASSUME NEW x \in T PROVE T \ {x} \in Good
  <2>1. T \ {x} \in SUBSET S /\ T \ {x} \subseteq T /\ T \ {x} # T
    BY <1>4, <1>5
  <2>2. <<T \ {x}, T>> \in StrictSubsetOrdering(S)
    BY <1>4, <2>1 DEF StrictSubsetOrdering
  <2> QED
    BY <1>3, <2>1, <2>2
<1> QED
  BY <1>4, <1>5

(* The element the sum takes first.                                        *)
Pick(s) == CHOOSE x \in s : TRUE

LEMMA PickIn ==
    ASSUME NEW s, s # {} PROVE Pick(s) \in s
BY DEF Pick

(* One round of the summation of f over the subsets of S.                  *)
SumRound(f, S, g) ==
    [s \in SUBSET S |-> IF s = {} THEN 0
                        ELSE f[Pick(s)] + g[s \ {Pick(s)}]]

SumFcn(f, S) == CHOOSE g : g = SumRound(f, S, g)

(* SumFunctionOnSet is the value at S of a fixed point of that round.      *)
LEMMA SumUnfolded ==
    ASSUME NEW f, NEW S
    PROVE  SumFunctionOnSet(f, S) = SumFcn(f, S)[S]
BY DEF SumFunctionOnSet, FoldFunctionOnSet, MapThenFoldSet, SumFcn, SumRound,
       Pick

(* Such a fixed point exists: right for ever larger sets.                  *)
LEMMA SumExists ==
    ASSUME NEW S, IsFiniteSet(S), NEW f, \A x \in S : f[x] \in Int
    PROVE  \E g : g = SumRound(f, S, g)
<1> DEFINE Right(g, n) == \A s \in SUBSET S :
                             Cardinality(s) <= n => g[s] = SumRound(f, S, g)[s]
           Good == {T \in SUBSET S : \E g \in [SUBSET S -> Int] :
                                        Right(g, Cardinality(T))}
<1>1. \A s \in SUBSET S : IsFiniteSet(s) /\ Cardinality(s) \in Nat
  BY FS_Subset, FS_CardinalityType
<1>2. ASSUME NEW T \in SUBSET S, \A x \in T : T \ {x} \in Good
      PROVE  T \in Good
  <2>1. CASE T = {}
    <3>1. [s \in SUBSET S |-> 0] \in [SUBSET S -> Int]
      OBVIOUS
    <3>2. ASSUME NEW s \in SUBSET S, Cardinality(s) <= Cardinality(T)
          PROVE  s = {}
      <4>1. Cardinality(s) = 0
        BY <1>1, <2>1, <3>2, FS_EmptySet
      <4> QED
        BY <1>1, <4>1, FS_EmptySet
    <3>3. Right([s \in SUBSET S |-> 0], Cardinality(T))
      BY <3>2 DEF SumRound
    <3> QED
      BY <3>1, <3>3
  <2>2. CASE T # {}
    <3>1. PICK x : x \in T
      BY <2>2
    <3>2. PICK n \in Nat : n = Cardinality(T \ {x}) /\ Cardinality(T) = n + 1
      BY <1>1, <3>1, FS_RemoveElement
    <3>3. PICK g \in [SUBSET S -> Int] : Right(g, n)
      BY <1>2, <3>1, <3>2
    <3> DEFINE h == [s \in SUBSET S |-> IF Cardinality(s) <= n THEN g[s]
                                        ELSE SumRound(f, S, g)[s]]
    <3>4. ASSUME NEW s \in SUBSET S, s # {}
          PROVE  /\ Pick(s) \in s /\ s \ {Pick(s)} \in SUBSET S
                 /\ Cardinality(s \ {Pick(s)}) = Cardinality(s) - 1
                 /\ SumRound(f, S, g)[s] = f[Pick(s)] + g[s \ {Pick(s)}]
      BY <1>1, <3>4, PickIn, FS_RemoveElement DEF SumRound
    <3>5. h \in [SUBSET S -> Int]
      <4>1. ASSUME NEW s \in SUBSET S PROVE SumRound(f, S, g)[s] \in Int
        <5>1. CASE s = {}
          BY <5>1 DEF SumRound
        <5>2. CASE s # {}
          <6>1. f[Pick(s)] \in Int /\ g[s \ {Pick(s)}] \in Int
            BY <3>4, <5>2
          <6>2. f[Pick(s)] + g[s \ {Pick(s)}] \in Int
            BY <6>1
          <6> QED
            BY <3>4, <5>2, <6>2
        <5> QED
          BY <5>1, <5>2
      <4> QED
        BY <4>1
    <3>6. ASSUME NEW s \in SUBSET S, Cardinality(s) <= n + 1
          PROVE  h[s] = SumRound(f, S, h)[s]
      <4>1. CASE s = {}
        BY <3>3, <4>1 DEF SumRound
      <4>2. CASE s # {}
        <5>1. h[s \ {Pick(s)}] = g[s \ {Pick(s)}]
          BY <1>1, <3>4, <3>6, <4>2
        <5>2. SumRound(f, S, h)[s] = f[Pick(s)] + h[s \ {Pick(s)}]
          BY <4>2 DEF SumRound
        <5>3. h[s] = SumRound(f, S, g)[s]
          BY <3>3
        <5> QED
          BY <3>4, <4>2, <5>1, <5>2, <5>3
      <4> QED
        BY <4>1, <4>2
    <3>7. Right(h, Cardinality(T))
      BY <3>2, <3>6
    <3> QED
      BY <3>5, <3>7
  <2> QED
    BY <2>1, <2>2
<1>3. S \in Good
  <2>1. \A T \in SUBSET S : (\A x \in T : T \ {x} \in Good) => T \in Good
    BY <1>2
  <2> HIDE DEF Good
  <2>2. \A T \in SUBSET S : T \in Good
    BY <2>1, SubsetInduction
  <2> QED
    BY <2>2
<1>4. PICK g \in [SUBSET S -> Int] : Right(g, Cardinality(S))
  BY <1>3
<1>5. \A s \in SUBSET S : g[s] = SumRound(f, S, g)[s]
  BY <1>4, FS_Subset
<1>6. g = SumRound(f, S, g)
  BY <1>5 DEF SumRound
<1> QED
  BY <1>6

LEMMA SumFixpoint ==
    ASSUME NEW S, IsFiniteSet(S), NEW f, \A x \in S : f[x] \in Int
    PROVE  /\ SumFcn(f, S) = SumRound(f, S, SumFcn(f, S))
           /\ SumFcn(f, S)[{}] = 0
           /\ \A s \in SUBSET S : s # {} =>
                 SumFcn(f, S)[s] = f[Pick(s)] + SumFcn(f, S)[s \ {Pick(s)}]
<1>1. SumFcn(f, S) = SumRound(f, S, SumFcn(f, S))
  BY SumExists DEF SumFcn
<1>2. PICK g : g = SumFcn(f, S)
  OBVIOUS
<1>3. g = SumRound(f, S, g)
  BY <1>1, <1>2
<1>4. /\ g[{}] = 0
      /\ \A s \in SUBSET S : s # {} => g[s] = f[Pick(s)] + g[s \ {Pick(s)}]
  <2>1. SumRound(f, S, g)[{}] = 0
    BY DEF SumRound
  <2>2. ASSUME NEW s \in SUBSET S, s # {}
        PROVE  SumRound(f, S, g)[s] = f[Pick(s)] + g[s \ {Pick(s)}]
    BY <2>2 DEF SumRound
  <2> QED
    BY <1>3, <2>1, <2>2
<1> QED
  BY <1>1, <1>2, <1>4

(* The sums of f over U, computed within U or within a larger S, agree,    *)
(* and so do those of functions that agree on U.                           *)
LEMMA SumLocal ==
    ASSUME NEW S, IsFiniteSet(S), NEW U \in SUBSET S, NEW f, NEW g,
           \A x \in S : f[x] \in Int, \A x \in U : f[x] = g[x]
    PROVE  SumFcn(f, S)[U] = SumFcn(g, U)[U]
<1>1. IsFiniteSet(U) /\ \A x \in U : g[x] \in Int
  BY FS_Subset
<1> DEFINE Good == {T \in SUBSET U : SumFcn(f, S)[T] = SumFcn(g, U)[T]}
<1>2. ASSUME NEW T \in SUBSET U, \A x \in T : T \ {x} \in Good
      PROVE  T \in Good
  <2>1. CASE T = {}
    BY <1>1, <2>1, SumFixpoint
  <2>2. CASE T # {}
    <3>1. Pick(T) \in T /\ T \in SUBSET S
      BY <2>2, PickIn
    <3>2. SumFcn(f, S)[T \ {Pick(T)}] = SumFcn(g, U)[T \ {Pick(T)}]
      BY <1>2, <3>1
    <3>3. SumFcn(f, S)[T] = f[Pick(T)] + SumFcn(f, S)[T \ {Pick(T)}]
      BY <2>2, <3>1, SumFixpoint
    <3>4. SumFcn(g, U)[T] = g[Pick(T)] + SumFcn(g, U)[T \ {Pick(T)}]
      BY <1>1, <2>2, SumFixpoint
    <3> QED
      BY <3>1, <3>2, <3>3, <3>4
  <2> QED
    BY <2>1, <2>2
<1>3. \A T \in SUBSET U : (\A x \in T : T \ {x} \in Good) => T \in Good
  BY <1>2
<1> HIDE DEF Good
<1>4. U \in Good
  BY <1>1, <1>3, SubsetInduction
<1> QED
  BY <1>4 DEF Good

-----------------------------------------------------------------------------
(* What a sum is, whatever element is taken first.                         *)

LEMMA SumEmpty ==
    ASSUME NEW f PROVE SumFunctionOnSet(f, {}) = 0
BY SumUnfolded, SumFixpoint, FS_EmptySet

LEMMA SumSame ==
    ASSUME NEW S, IsFiniteSet(S), NEW f, NEW g,
           \A x \in S : f[x] \in Int /\ f[x] = g[x]
    PROVE  SumFunctionOnSet(f, S) = SumFunctionOnSet(g, S)
BY SumLocal, SumUnfolded

LEMMA SumPick ==
    ASSUME NEW S, IsFiniteSet(S), S # {}, NEW f, \A x \in S : f[x] \in Int
    PROVE  SumFunctionOnSet(f, S)
               = f[Pick(S)] + SumFunctionOnSet(f, S \ {Pick(S)})
<1>1. SumFcn(f, S)[S] = f[Pick(S)] + SumFcn(f, S)[S \ {Pick(S)}]
  BY SumFixpoint
<1>2. SumFcn(f, S)[S \ {Pick(S)}] = SumFcn(f, S \ {Pick(S)})[S \ {Pick(S)}]
  BY SumLocal
<1> QED
  BY <1>1, <1>2, SumUnfolded

LEMMA SumInt ==
    ASSUME NEW S, IsFiniteSet(S), NEW f, \A x \in S : f[x] \in Int
    PROVE  SumFunctionOnSet(f, S) \in Int
<1> DEFINE Good == {T \in SUBSET S : SumFunctionOnSet(f, T) \in Int}
<1>1. ASSUME NEW T \in SUBSET S, \A x \in T : T \ {x} \in Good
      PROVE  T \in Good
  <2>1. CASE T = {}
    BY <2>1, SumEmpty
  <2>2. CASE T # {}
    <3>1. Pick(T) \in T /\ IsFiniteSet(T)
      BY <2>2, PickIn, FS_Subset
    <3>2. SumFunctionOnSet(f, T \ {Pick(T)}) \in Int
      BY <1>1, <3>1
    <3>3. SumFunctionOnSet(f, T)
              = f[Pick(T)] + SumFunctionOnSet(f, T \ {Pick(T)})
      BY <2>2, <3>1, SumPick
    <3> QED
      BY <3>1, <3>2, <3>3
  <2> QED
    BY <2>1, <2>2
<1>2. \A T \in SUBSET S : (\A x \in T : T \ {x} \in Good) => T \in Good
  BY <1>1
<1> HIDE DEF Good
<1>3. \A T \in SUBSET S : T \in Good
  BY <1>2, SubsetInduction
<1>4. S \in Good
  BY <1>3
<1> QED
  BY <1>4 DEF Good

(* Any element may be taken out first.                                     *)
LEMMA SumTake ==
    ASSUME NEW S, IsFiniteSet(S), NEW f, \A x \in S : f[x] \in Int, NEW a \in S
    PROVE  SumFunctionOnSet(f, S) = f[a] + SumFunctionOnSet(f, S \ {a})
<1> DEFINE Good == {T \in SUBSET S : \A y \in T :
                       SumFunctionOnSet(f, T)
                           = f[y] + SumFunctionOnSet(f, T \ {y})}
<1>1. ASSUME NEW T \in SUBSET S, \A x \in T : T \ {x} \in Good
      PROVE  T \in Good
  <2>1. SUFFICES ASSUME NEW y \in T
                 PROVE  SumFunctionOnSet(f, T)
                            = f[y] + SumFunctionOnSet(f, T \ {y})
    OBVIOUS
  <2>2. PICK p \in T : p = Pick(T)
    BY PickIn
  <2>3. IsFiniteSet(T) /\ IsFiniteSet(T \ {y})
    BY FS_Subset
  <2>4. SumFunctionOnSet(f, T) = f[p] + SumFunctionOnSet(f, T \ {p})
    BY <2>2, <2>3, SumPick
  <2>5. CASE y = p
    BY <2>4, <2>5
  <2>6. CASE y # p
    <3>1. SumFunctionOnSet(f, T \ {p})
              = f[y] + SumFunctionOnSet(f, (T \ {p}) \ {y})
      BY <1>1, <2>2, <2>6
    <3>2. SumFunctionOnSet(f, T \ {y})
              = f[p] + SumFunctionOnSet(f, (T \ {y}) \ {p})
      BY <1>1, <2>2, <2>6
    <3>3. PICK R \in SUBSET S : R = (T \ {p}) \ {y} /\ R = (T \ {y}) \ {p}
      OBVIOUS
    <3>4. PICK r \in Int : r = SumFunctionOnSet(f, R)
      BY <3>3, SumInt, FS_Subset
    <3>5. PICK i \in Int, j \in Int : i = f[p] /\ j = f[y]
      OBVIOUS
    <3>6. SumFunctionOnSet(f, T \ {p}) = j + r
      BY <3>1, <3>3, <3>4, <3>5
    <3>7. SumFunctionOnSet(f, T \ {y}) = i + r
      BY <3>2, <3>3, <3>4, <3>5
    <3>8. SumFunctionOnSet(f, T) = i + (j + r)
      BY <2>4, <3>5, <3>6
    <3> QED
      BY <3>5, <3>7, <3>8
  <2> QED
    BY <2>5, <2>6
<1>2. \A T \in SUBSET S : (\A x \in T : T \ {x} \in Good) => T \in Good
  BY <1>1
<1> HIDE DEF Good
<1>3. \A T \in SUBSET S : T \in Good
  BY <1>2, SubsetInduction
<1>4. S \in Good
  BY <1>3
<1> QED
  BY <1>4 DEF Good

LEMMA SumNat ==
    ASSUME NEW S, IsFiniteSet(S), NEW f, \A x \in S : f[x] \in Nat
    PROVE  SumFunctionOnSet(f, S) \in Nat
<1> DEFINE Good == {T \in SUBSET S : SumFunctionOnSet(f, T) \in Nat}
<1>1. ASSUME NEW T \in SUBSET S, \A x \in T : T \ {x} \in Good
      PROVE  T \in Good
  <2>1. CASE T = {}
    BY <2>1, SumEmpty
  <2>2. CASE T # {}
    <3>1. PICK y \in T : y = Pick(T)
      BY <2>2, PickIn
    <3>2. SumFunctionOnSet(f, T \ {y}) \in Nat /\ f[y] \in Nat
      BY <1>1
    <3>3. IsFiniteSet(T) /\ \A x \in T : f[x] \in Int
      BY FS_Subset
    <3>4. SumFunctionOnSet(f, T) = f[y] + SumFunctionOnSet(f, T \ {y})
      BY <2>2, <3>1, <3>3, SumPick
    <3> QED
      BY <3>2, <3>4
  <2> QED
    BY <2>1, <2>2
<1>2. \A T \in SUBSET S : (\A x \in T : T \ {x} \in Good) => T \in Good
  BY <1>1
<1> HIDE DEF Good
<1>3. \A T \in SUBSET S : T \in Good
  BY <1>2, SubsetInduction
<1>4. S \in Good
  BY <1>3
<1> QED
  BY <1>4 DEF Good

(* A sum of zeros.                                                         *)
LEMMA SumZero ==
    ASSUME NEW S, IsFiniteSet(S), NEW f, \A x \in S : f[x] = 0
    PROVE  SumFunctionOnSet(f, S) = 0
<1> DEFINE Good == {T \in SUBSET S : SumFunctionOnSet(f, T) = 0}
<1>1. ASSUME NEW T \in SUBSET S, \A x \in T : T \ {x} \in Good
      PROVE  T \in Good
  <2>1. CASE T = {}
    BY <2>1, SumEmpty
  <2>2. CASE T # {}
    <3>1. PICK y \in T : y = Pick(T)
      BY <2>2, PickIn
    <3>2. SumFunctionOnSet(f, T \ {y}) = 0 /\ f[y] = 0
      BY <1>1
    <3>3. IsFiniteSet(T) /\ \A x \in T : f[x] \in Int
      BY FS_Subset
    <3>4. SumFunctionOnSet(f, T) = f[y] + SumFunctionOnSet(f, T \ {y})
      BY <2>2, <3>1, <3>3, SumPick
    <3> QED
      BY <3>2, <3>4
  <2> QED
    BY <2>1, <2>2
<1>2. \A T \in SUBSET S : (\A x \in T : T \ {x} \in Good) => T \in Good
  BY <1>1
<1> HIDE DEF Good
<1>3. \A T \in SUBSET S : T \in Good
  BY <1>2, SubsetInduction
<1>4. S \in Good
  BY <1>3
<1> QED
  BY <1>4 DEF Good

(* Two functions that differ at a only have sums that differ by as much.   *)
LEMMA SumChange ==
    ASSUME NEW S, IsFiniteSet(S), NEW f, NEW g, NEW a \in S,
           \A x \in S : f[x] \in Int /\ g[x] \in Int,
           \A x \in S : x # a => f[x] = g[x]
    PROVE  SumFunctionOnSet(g, S) = SumFunctionOnSet(f, S) - f[a] + g[a]
<1>1. IsFiniteSet(S \ {a})
  BY FS_Subset
<1>2. SumFunctionOnSet(g, S \ {a}) = SumFunctionOnSet(f, S \ {a})
  BY <1>1, SumSame
<1>3. PICK r \in Int : r = SumFunctionOnSet(f, S \ {a})
  BY <1>1, SumInt
<1>4. SumFunctionOnSet(f, S) = f[a] + r
  BY <1>3, SumTake
<1>5. SumFunctionOnSet(g, S) = g[a] + r
  BY <1>2, <1>3, SumTake
<1> QED
  BY <1>4, <1>5

(* If twice f is at most g + k everywhere, twice its sum is at most the    *)
(* sum of the others.                                                      *)
LEMMA SumHalves ==
    ASSUME NEW S, IsFiniteSet(S), NEW f, NEW g, NEW k,
           \A x \in S : /\ f[x] \in Int /\ g[x] \in Int /\ k[x] \in Int
                        /\ 2 * f[x] <= g[x] + k[x]
    PROVE  2 * SumFunctionOnSet(f, S)
               <= SumFunctionOnSet(g, S) + SumFunctionOnSet(k, S)
<1> DEFINE Good == {T \in SUBSET S : 2 * SumFunctionOnSet(f, T)
                      <= SumFunctionOnSet(g, T) + SumFunctionOnSet(k, T)}
<1>1. ASSUME NEW T \in SUBSET S, \A x \in T : T \ {x} \in Good
      PROVE  T \in Good
  <2>1. CASE T = {}
    BY <2>1, SumEmpty
  <2>2. CASE T # {}
    <3>1. PICK y \in T : y = Pick(T)
      BY <2>2, PickIn
    <3>2. IsFiniteSet(T) /\ IsFiniteSet(T \ {y})
      BY FS_Subset
    <3>3. PICK a \in Int, b \in Int, c \in Int :
              /\ a = SumFunctionOnSet(f, T \ {y})
              /\ b = SumFunctionOnSet(g, T \ {y})
              /\ c = SumFunctionOnSet(k, T \ {y})
      BY <3>2, SumInt
    <3>4. 2 * a <= b + c
      BY <1>1, <3>3
    <3>5. /\ SumFunctionOnSet(f, T) = f[y] + a
          /\ SumFunctionOnSet(g, T) = g[y] + b
          /\ SumFunctionOnSet(k, T) = k[y] + c
      BY <2>2, <3>1, <3>2, <3>3, SumPick
    <3>6. PICK i \in Int, j \in Int, l \in Int :
              i = f[y] /\ j = g[y] /\ l = k[y] /\ 2 * i <= j + l
      OBVIOUS
    <3>7. 2 * (i + a) <= (j + b) + (l + c)
      BY <3>4, <3>6
    <3> QED
      BY <3>5, <3>6, <3>7
  <2> QED
    BY <2>1, <2>2
<1>2. \A T \in SUBSET S : (\A x \in T : T \ {x} \in Good) => T \in Good
  BY <1>1
<1> HIDE DEF Good
<1>3. \A T \in SUBSET S : T \in Good
  BY <1>2, SubsetInduction
<1>4. S \in Good
  BY <1>3
<1> QED
  BY <1>4 DEF Good

(* SumFunction sums over the whole domain.                                 *)
LEMMA SumDomain ==
    ASSUME NEW S, NEW f, DOMAIN f = S
    PROVE  SumFunction(f) = SumFunctionOnSet(f, S)
BY DEF SumFunction

LEMMA SumUnion ==
    ASSUME NEW A, IsFiniteSet(A), NEW B, IsFiniteSet(B), A \cap B = {}, NEW f,
           \A x \in A \cup B : f[x] \in Int
    PROVE  SumFunctionOnSet(f, A \cup B)
               = SumFunctionOnSet(f, A) + SumFunctionOnSet(f, B)
<1> DEFINE Good == {T \in SUBSET B :
                       SumFunctionOnSet(f, A \cup T)
                           = SumFunctionOnSet(f, A) + SumFunctionOnSet(f, T)}
<1>1. ASSUME NEW T \in SUBSET B, \A x \in T : T \ {x} \in Good
      PROVE  T \in Good
  <2>1. IsFiniteSet(T) /\ IsFiniteSet(A \cup T)
    BY FS_Subset, FS_Union
  <2>2. SumFunctionOnSet(f, A) \in Int
    BY SumInt
  <2>3. CASE T = {}
    <3>1. SumFunctionOnSet(f, T) = 0 /\ A \cup T = A
      BY <2>3, SumEmpty
    <3> QED
      BY <2>2, <3>1
  <2>4. CASE T # {}
    <3>1. PICK y : y \in T
      BY <2>4
    <3>2. (A \cup T) \ {y} = A \cup (T \ {y})
      BY <3>1
    <3>3. SumFunctionOnSet(f, A \cup T)
              = f[y] + SumFunctionOnSet(f, A \cup (T \ {y}))
      <4>1. SumFunctionOnSet(f, A \cup T)
                = f[y] + SumFunctionOnSet(f, (A \cup T) \ {y})
        BY <2>1, <3>1, SumTake
      <4> QED
        BY <3>2, <4>1
    <3>4. SumFunctionOnSet(f, T) = f[y] + SumFunctionOnSet(f, T \ {y})
      BY <2>1, <3>1, SumTake
    <3>5. SumFunctionOnSet(f, A \cup (T \ {y}))
              = SumFunctionOnSet(f, A) + SumFunctionOnSet(f, T \ {y})
      BY <1>1, <3>1
    <3>6. PICK i \in Int, j \in Int, l \in Int :
              /\ i = f[y] /\ j = SumFunctionOnSet(f, A)
              /\ l = SumFunctionOnSet(f, T \ {y})
      <4>1. SumFunctionOnSet(f, T \ {y}) \in Int
        BY FS_Subset, SumInt
      <4> QED
        BY <2>2, <3>1, <4>1
    <3>7. /\ SumFunctionOnSet(f, A \cup T) = i + (j + l)
          /\ SumFunctionOnSet(f, T) = i + l
      BY <3>3, <3>4, <3>5, <3>6
    <3>8. SumFunctionOnSet(f, A \cup T)
              = SumFunctionOnSet(f, A) + SumFunctionOnSet(f, T)
      BY <3>6, <3>7
    <3> QED
      BY <3>8
  <2> QED
    BY <2>3, <2>4
<1>2. \A T \in SUBSET B : (\A x \in T : T \ {x} \in Good) => T \in Good
  BY <1>1
<1> HIDE DEF Good
<1>3. \A T \in SUBSET B : T \in Good
  BY <1>2, SubsetInduction
<1>4. B \in Good
  BY <1>3
<1> QED
  BY <1>4 DEF Good

LEMMA SumSingle ==
    ASSUME NEW f, NEW a, f[a] \in Int
    PROVE  SumFunctionOnSet(f, {a}) = f[a]
<1>1. IsFiniteSet({a})
  BY FS_Singleton
<1>2. SumFunctionOnSet(f, {a}) = f[a] + SumFunctionOnSet(f, {a} \ {a})
  BY <1>1, SumTake
<1>3. {a} \ {a} = {} /\ SumFunctionOnSet(f, {}) = 0
  BY SumEmpty
<1> QED
  BY <1>2, <1>3

(* Natural numbers over fewer elements sum to no more.                     *)
LEMMA SumFewer ==
    ASSUME NEW S, IsFiniteSet(S), NEW T \in SUBSET S, NEW f,
           \A x \in S : f[x] \in Nat
    PROVE  SumFunctionOnSet(f, T) <= SumFunctionOnSet(f, S)
<1>1. IsFiniteSet(T) /\ IsFiniteSet(S \ T)
  BY FS_Subset
<1>2. SumFunctionOnSet(f, T) \in Nat /\ SumFunctionOnSet(f, S \ T) \in Nat
  BY <1>1, SumNat
<1>3. T \cup (S \ T) = S /\ T \cap (S \ T) = {}
  OBVIOUS
<1>4. SumFunctionOnSet(f, T \cup (S \ T))
          = SumFunctionOnSet(f, T) + SumFunctionOnSet(f, S \ T)
  BY <1>1, <1>3, SumUnion
<1>5. SumFunctionOnSet(f, S)
          = SumFunctionOnSet(f, T) + SumFunctionOnSet(f, S \ T)
  BY <1>3, <1>4, Zenon
<1> QED
  BY <1>2, <1>5

(* The elements of S that h maps to p, and into P.                         *)
Class(h, S, p) == {x \in S : h[x] = p}
Within(h, S, P) == {x \in S : h[x] \in P}

(* g sums f over each class of S by h: together, over the classes in P.    *)
LEMMA SumClasses ==
    ASSUME NEW S, IsFiniteSet(S), NEW P, IsFiniteSet(P), NEW f, NEW g, NEW h,
           \A x \in S : f[x] \in Int,
           \A p \in P : g[p] = SumFunctionOnSet(f, Class(h, S, p))
    PROVE  SumFunctionOnSet(g, P) = SumFunctionOnSet(f, Within(h, S, P))
<1> DEFINE Good == {T \in SUBSET P : SumFunctionOnSet(g, T)
                                = SumFunctionOnSet(f, Within(h, S, T))}
<1>1. \A p \in P : g[p] \in Int
  <2> SUFFICES ASSUME NEW p \in P PROVE g[p] \in Int
    OBVIOUS
  <2>1. Class(h, S, p) \subseteq S
    BY DEF Class
  <2>2. IsFiniteSet(Class(h, S, p)) /\ \A x \in Class(h, S, p) : f[x] \in Int
    BY <2>1, FS_Subset
  <2> QED
    BY <2>2, SumInt
<1>2. ASSUME NEW T \in SUBSET P, \A x \in T : T \ {x} \in Good
      PROVE  T \in Good
  <2>1. IsFiniteSet(T)
    BY FS_Subset
  <2>2. CASE T = {}
    <3>1. Within(h, S, T) = {}
      BY <2>2 DEF Within
    <3>2. /\ SumFunctionOnSet(g, T) = 0
          /\ SumFunctionOnSet(f, Within(h, S, T)) = 0
      BY <2>2, <3>1, SumEmpty
    <3> QED
      BY <3>2
  <2>3. CASE T # {}
    <3>1. PICK y : y \in T
      BY <2>3
    <3> DEFINE Y == Class(h, S, y)
               Z == Within(h, S, T \ {y})
    <3>2. /\ Within(h, S, T) = Y \cup Z /\ Y \cap Z = {}
          /\ Y \in SUBSET S /\ Z \in SUBSET S
      BY <3>1 DEF Class, Within
    <3>3. SumFunctionOnSet(g, T) = g[y] + SumFunctionOnSet(g, T \ {y})
      BY <1>1, <2>1, <3>1, SumTake
    <3>4. g[y] = SumFunctionOnSet(f, Y)
      BY <3>1
    <3>5. SumFunctionOnSet(g, T \ {y}) = SumFunctionOnSet(f, Z)
      BY <1>2, <3>1
    <3> HIDE DEF Y, Z
    <3>6. SumFunctionOnSet(f, Within(h, S, T))
              = SumFunctionOnSet(f, Y) + SumFunctionOnSet(f, Z)
      <4>1. IsFiniteSet(Y) /\ IsFiniteSet(Z)
        BY <3>2, FS_Subset
      <4>2. SumFunctionOnSet(f, Y \cup Z)
                = SumFunctionOnSet(f, Y) + SumFunctionOnSet(f, Z)
        BY <3>2, <4>1, SumUnion
      <4> QED
        BY <3>2, <4>2, Zenon
    <3>7. SumFunctionOnSet(g, T) = SumFunctionOnSet(f, Within(h, S, T))
      BY <3>3, <3>4, <3>5, <3>6
    <3> QED
      BY <3>7
  <2> QED
    BY <2>2, <2>3
<1>3. \A T \in SUBSET P : (\A x \in T : T \ {x} \in Good) => T \in Good
  BY <1>2
<1> HIDE DEF Good
<1>4. \A T \in SUBSET P : T \in Good
  BY <1>3, SubsetInduction
<1>5. P \in Good
  BY <1>4
<1> QED
  BY <1>5 DEF Good

(* h pairs the elements of S with those of T.                              *)
LEMMA SumRenamed ==
    ASSUME NEW S, IsFiniteSet(S), NEW T, IsFiniteSet(T), NEW f, NEW g, NEW h,
           \A x \in S : h[x] \in T /\ f[x] \in Int /\ f[x] = g[h[x]],
           \A x, y \in S : h[x] = h[y] => x = y,
           \A p \in T : \E x \in S : h[x] = p
    PROVE  SumFunctionOnSet(f, S) = SumFunctionOnSet(g, T)
<1>1. ASSUME NEW p \in T
      PROVE  g[p] = SumFunctionOnSet(f, Class(h, S, p))
  <2>1. PICK x \in S : h[x] = p
    OBVIOUS
  <2>2. Class(h, S, p) = {x}
    BY <2>1 DEF Class
  <2>3. SumFunctionOnSet(f, {x}) = f[x] /\ f[x] = g[p]
    BY <2>1, SumSingle
  <2> QED
    BY <2>2, <2>3, Zenon
<1>2. SumFunctionOnSet(g, T) = SumFunctionOnSet(f, Within(h, S, T))
  BY <1>1, SumClasses
<1>3. Within(h, S, T) = S
  BY DEF Within
<1> QED
  BY <1>2, <1>3, Zenon

(* Zeros may be left out of a sum.                                         *)
LEMMA SumSupport ==
    ASSUME NEW S, IsFiniteSet(S), NEW T \in SUBSET S, NEW f,
           \A x \in S : f[x] \in Int, \A x \in S \ T : f[x] = 0
    PROVE  SumFunctionOnSet(f, S) = SumFunctionOnSet(f, T)
<1>1. IsFiniteSet(T) /\ IsFiniteSet(S \ T)
  BY FS_Subset
<1>2. SumFunctionOnSet(f, T) \in Int /\ SumFunctionOnSet(f, S \ T) = 0
  BY <1>1, SumInt, SumZero
<1>3. T \cup (S \ T) = S /\ T \cap (S \ T) = {}
  OBVIOUS
<1>4. SumFunctionOnSet(f, T \cup (S \ T))
          = SumFunctionOnSet(f, T) + SumFunctionOnSet(f, S \ T)
  BY <1>1, <1>3, SumUnion
<1>5. SumFunctionOnSet(f, S)
          = SumFunctionOnSet(f, T) + SumFunctionOnSet(f, S \ T)
  BY <1>3, <1>4, Zenon
<1> QED
  BY <1>2, <1>5

(* A constant is summed as often as there are elements.                    *)
LEMMA SumConstant ==
    ASSUME NEW S, IsFiniteSet(S), NEW f, NEW p \in Int, \A x \in S : f[x] = p
    PROVE  SumFunctionOnSet(f, S) = p * Cardinality(S)
<1> DEFINE Good == {T \in SUBSET S :
                       SumFunctionOnSet(f, T) = p * Cardinality(T)}
<1>1. ASSUME NEW T \in SUBSET S, \A x \in T : T \ {x} \in Good
      PROVE  T \in Good
  <2>1. IsFiniteSet(T) /\ Cardinality(T) \in Nat
    BY FS_Subset, FS_CardinalityType
  <2>2. CASE T = {}
    BY <2>2, SumEmpty, FS_EmptySet
  <2>3. CASE T # {}
    <3>1. PICK y : y \in T
      BY <2>3
    <3>2. PICK n \in Nat : n = Cardinality(T \ {y}) /\ Cardinality(T) = n + 1
      BY <2>1, <3>1, FS_RemoveElement, FS_CardinalityType, FS_Subset
    <3>3. SumFunctionOnSet(f, T) = f[y] + SumFunctionOnSet(f, T \ {y})
      BY <2>1, <3>1, SumTake
    <3>4. SumFunctionOnSet(f, T \ {y}) = p * n
      BY <1>1, <3>1, <3>2
    <3>5. SumFunctionOnSet(f, T) = p + p * n
      BY <3>1, <3>3, <3>4
    <3>6. p * (n + 1) = p + p * n
      OBVIOUS
    <3> QED
      BY <3>2, <3>5, <3>6
  <2> QED
    BY <2>2, <2>3
<1>2. \A T \in SUBSET S : (\A x \in T : T \ {x} \in Good) => T \in Good
  BY <1>1
<1> HIDE DEF Good
<1>3. \A T \in SUBSET S : T \in Good
  BY <1>2, SubsetInduction
<1>4. S \in Good
  BY <1>3
<1> QED
  BY <1>4 DEF Good

(* A nonempty set of natural numbers has a least one.                      *)
LEMMA LeastNatural ==
    ASSUME NEW F, F \subseteq Nat, F # {}
    PROVE  \E m \in F : \A j \in F : m <= j
<1>1. PICK m \in F : \A j \in F : ~(<<j, m>> \in OpToRel(<, Nat))
  BY NatLessThanWellFounded, WFMin
<1>2. ASSUME NEW j \in F PROVE m <= j
  <2>1. j \in Nat /\ m \in Nat /\ ~(j < m)
    BY <1>1 DEF OpToRel
  <2> QED
    BY <2>1
<1> QED
  BY <1>2
=============================================================================
