---------------------------- MODULE TreasuryMath ----------------------------
(***************************************************************************)
(* The pure arithmetic of contracts/treasury: share pricing, caps, sliding *)
(* usage and PnL windows, the creation rate limit, correlation caps and    *)
(* the valuation of holdings.  i128 overflow is not represented: amounts   *)
(* are collateral balances, far below the bound.                           *)
(***************************************************************************)
EXTENDS FpmmMath, FiniteSets, FiniteSetsExt, Sequences

CONSTANTS
    VirtualShares,      \* VIRTUAL_SHARES
    VirtualAssets,      \* VIRTUAL_ASSETS
    BucketSeconds,      \* BUCKET_SECONDS, the width of a usage bucket
    Buckets,            \* BUCKETS; a day is Buckets - 1 of them
    CreationBuckets     \* CREATION_BUCKETS

DaySeconds == (Buckets - 1) * BucketSeconds

ASSUME TreasuryMathAssumption ==
    /\ VirtualShares \in Nat \ {0} /\ VirtualAssets \in Nat \ {0}
    /\ BucketSeconds \in Nat \ {0}
    /\ Buckets \in Nat \ {0, 1} /\ CreationBuckets \in Nat \ {0}

NonNeg(x) == IF x > 0 THEN x ELSE 0

MaxOf(a, b) == IF a >= b THEN a ELSE b

-----------------------------------------------------------------------------
(* Shares.  Both directions round down, in favour of the vault; the        *)
(* virtual terms keep the first share from being worth everything.         *)

SharesForDeposit(amount, nav, supply) ==
    MulDivFloor(amount, supply + VirtualShares, nav + VirtualAssets)

(* Mutant: the payout is rounded up.                                       *)
AssetsRoundedUp(shares, nav, supply) ==
    MulDivCeil(shares, nav + VirtualAssets, supply + VirtualShares)

AssetsForShares(shares, nav, supply) ==
    MulDivFloor(shares, nav + VirtualAssets, supply + VirtualShares)

-----------------------------------------------------------------------------
(* Caps.  A change is given by pairs <<old, new>> of limits of which the   *)
(* lower is the tighter.                                                   *)

ClassifyCaps(pairs) ==
    CASE \E p \in pairs : p[2] > p[1] -> "needs_delay"
      [] ~\E p \in pairs : p[2] # p[1] -> "none"
      [] OTHER -> "tighten_only"

CostBasis(net) == NonNeg(net.in - net.out)

-----------------------------------------------------------------------------
(* A ring of n buckets: the amounts of the n most recent periods, the      *)
(* newest at idx.  UsageWindow has Buckets hours, PnlDays window_days days.*)

EmptyRing(head, n) ==
    [head |-> head, idx |-> 0, amounts |-> [i \in 0 .. n - 1 |-> 0]]

(* advance(): every bucket the head passes is cleared, at most n of them.  *)
Advance(w, period, n) ==
    IF period <= w.head THEN w
    ELSE LET steps == MinOf(period - w.head, n)
             passed == {(w.idx + k) % n : k \in 1 .. steps}
         IN  [head |-> period, idx |-> (w.idx + steps) % n,
              amounts |-> [i \in DOMAIN w.amounts |->
                              IF i \in passed THEN 0 ELSE w.amounts[i]]]

RingSum(w) == SumFunction(w.amounts)

AddToHead(w, amount) == [w EXCEPT !.amounts[w.idx] = @ + amount]

Hour(t) == t \div BucketSeconds

Day(t) == t \div DaySeconds

(* daily_usage(): what the window counts as of t.                          *)
Used(w, t) == RingSum(Advance(w, Hour(t), Buckets))

(* summarize(): the usage and where the oldest counted bucket starts.      *)
Summarize(w, t) ==
    [start |-> NonNeg(MaxOf(w.head, Hour(t)) - (Buckets - 1)) * BucketSeconds,
     amount |-> Used(w, t)]

(* Mutant: a new hour starts an empty window, as fixed windows do.         *)
WithinThisHour(w, t, amount, cap) ==
    (IF Hour(t) > w.head THEN 0 ELSE RingSum(w)) + amount <= cap

WithinDaily(w, t, amount, cap) == Used(w, t) + amount <= cap

ConsumeWindow(w, t, amount) ==
    AddToHead(Advance(w, Hour(t), Buckets), amount)

(* The period whose amount bucket i of a ring of n holds.                  *)
RingPeriod(w, n, i) == w.head - w.idx + i - (IF i <= w.idx THEN 0 ELSE n)

(* The ring is what f says of each of the last n periods, those in D aside.*)
CountsExcept(w, n, f, D) ==
    /\ w \in [head : Nat, idx : 0 .. n - 1, amounts : [0 .. n - 1 -> Int]]
    /\ \A i \in 0 .. n - 1 : \/ RingPeriod(w, n, i) \in D
                             \/ w.amounts[i] = f[RingPeriod(w, n, i)]

Counts(w, n, f) ==
    /\ w \in [head : Nat, idx : 0 .. n - 1, amounts : [0 .. n - 1 -> Int]]
    /\ \A i \in 0 .. n - 1 : w.amounts[i] = f[RingPeriod(w, n, i)]

-----------------------------------------------------------------------------
(* The creation rate limit: a sequence of [start, count] buckets.          *)

ActiveCreations(bs, window, t) ==
    SelectSeq(bs, LAMBDA b : b.start + window > t)

CreationUsage(bs, window, t) ==
    LET active == ActiveCreations(bs, window, t)
    IN  MapThenSumSet(LAMBDA i : active[i].count, DOMAIN active)

RecordCreation(bs, window, t) ==
    LET active == ActiveCreations(bs, window, t)
        width  == MaxOf(window \div CreationBuckets, 1)
        start  == t - (t % width)
        n      == Len(active)
        longer == Append(active, [start |-> start, count |-> 1])
    IN  IF n > 0 /\ active[n].start = start
        THEN [active EXCEPT ![n].count = @ + 1]
        ELSE SubSeq(longer, MaxOf(1, n + 2 - CreationBuckets), n + 1)

-----------------------------------------------------------------------------
(* Holdings: a market as market-core reports it, and the treasury's shares.*)

LpPart(m) == IF m.lp /\ ~m.claimed THEN m.reserve ELSE [o \in Outcomes |-> 0]

(* settle_value() of the treasury, a mirror of market-core's.              *)
TreasurySettleValue(status, p) ==
    CASE status = "yes" -> p.yes
      [] status = "no" -> p.no
      [] status = "void" -> (p.yes + p.no) \div 2
      [] OTHER -> 0

(* The conservative value: complete pairs while open, the exact payout     *)
(* once final.                                                             *)
FloorValue(m) ==
    IF m.status = "open"
    THEN MinOf(m.pos.yes, m.pos.no) + MinOf(LpPart(m).yes, LpPart(m).no)
    ELSE TreasurySettleValue(m.status, m.pos)
            + TreasurySettleValue(m.status, LpPart(m))

SpotValue(m) ==
    LET sum == m.reserve.yes + m.reserve.no
        p   == IF sum > 0 THEN (m.reserve.no * BPS) \div sum ELSE BPS \div 2
        yes == m.pos.yes + LpPart(m).yes
        no  == m.pos.no + LpPart(m).no
    IN  IF m.status = "open" THEN (yes * p + no * (BPS - p)) \div BPS
        ELSE FloorValue(m)

AtRisk(net, m) == NonNeg(CostBasis(net) - FloorValue(m))

-----------------------------------------------------------------------------
(* correlation.rs: caps per category and per close-date bucket.            *)

CategoryIndex ==
    [crypto |-> 0, macro |-> 1, geopolitics |-> 2, sports |-> 3,
     culture |-> 4, other |-> 5]

Categories == DOMAIN CategoryIndex

CloseBucket(close, secs) == close \div secs

ValidCorrelationCaps(perCategory, perBucket, secs, maxMarket, maxDaily) ==
    /\ DOMAIN perCategory = {CategoryIndex[c] : c \in Categories}
    /\ \A i \in DOMAIN perCategory :
           perCategory[i] \in maxMarket .. 30 * maxDaily
    /\ perBucket >= maxMarket
    /\ secs >= DaySeconds

CorrelatedOk(perCategory, perBucket, i, inCategory, inBucket, amount) ==
    /\ i \in DOMAIN perCategory
    /\ inCategory + amount <= perCategory[i]
    /\ inBucket + amount <= perBucket
=============================================================================
