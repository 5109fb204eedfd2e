------------------------------ MODULE FpmmMath ------------------------------
(***************************************************************************)
(* The fixed-product market maker arithmetic of                            *)
(* contracts/market-core/src/math.rs, as pure operators.                   *)
(*                                                                         *)
(* The Rust functions return Err(MathError) on bad input; here each quote  *)
(* has a predicate XxxOk that says when the function returns Ok, and the   *)
(* quote itself is only used under it.  i128 overflow is not represented:  *)
(* every product that the pool forms is below MAX_SETS * MAX_SETS <= 1e36, *)
(* under the i128 bound.                                                   *)
(***************************************************************************)
EXTENDS Integers

BPS == 10000

(* The fees a market may charge: at most MAX_FEE_BPS.                      *)
FeeRange == 0 .. 1000

Outcomes == {"yes", "no"}

Other(o) == IF o = "yes" THEN "no" ELSE "yes"

MinOf(a, b) == IF a <= b THEN a ELSE b

AbsDiff(a, b) == IF a <= b THEN b - a ELSE a - b

MulDivFloor(a, b, c) == (a * b) \div c

MulDivCeil(a, b, c) ==
    LET q == (a * b) \div c IN IF (a * b) % c # 0 THEN q + 1 ELSE q

-----------------------------------------------------------------------------
(* Spot price of YES in basis points: r_no / (r_yes + r_no), rounded down. *)
PriceYesBps(r) == MulDivFloor(r.no, BPS, r.yes + r.no)

(* The reserves after a trade that leaves rOutcome of o and rOther of the  *)
(* other outcome in the pool.                                              *)
ReservesWith(o, rOutcome, rOther) ==
    [x \in Outcomes |-> IF x = o THEN rOutcome ELSE rOther]

(* The pool keeps fewer of the likelier outcome; the creator keeps the     *)
(* rest of the seed's complete sets.                                       *)
SeedReserves(seed, p) ==
    IF 2 * p >= BPS
    THEN [yes |-> MulDivFloor(seed, BPS - p, p), no |-> seed]
    ELSE [yes |-> seed, no |-> MulDivFloor(seed, p, BPS - p)]

SeedOk(seed, p) ==
    /\ seed > 0
    /\ p \in 100 .. 9900
    /\ \A o \in Outcomes : SeedReserves(seed, p)[o] > 0

CreatorShares(seed, p) ==
    [o \in Outcomes |-> seed - SeedReserves(seed, p)[o]]

-----------------------------------------------------------------------------
(* Buying amt worth of the outcome with reserve rb against reserve ro.     *)
CalcBuy(rb, ro, amt, feeBps) ==
    LET fee == MulDivCeil(amt, feeBps, BPS)
        net == amt - fee
        newBought == MulDivCeil(rb, ro, ro + net)
    IN  [shares |-> rb + net - newBought, fee |-> fee, net |-> net,
         newBought |-> newBought, newOther |-> ro + net]

BuyOk(rb, ro, amt, feeBps) ==
    /\ amt > 0 /\ rb > 0 /\ ro > 0
    /\ amt - MulDivCeil(amt, feeBps, BPS) > 0
    /\ CalcBuy(rb, ro, amt, feeBps).shares > 0

(* Mutant: the divisor forgets the sets that leave the pool.               *)
CalcSellKeepsSets(rs, ro, out, feeBps) ==
    LET gross == MulDivCeil(out, BPS, BPS - feeBps)
        newSold == MulDivCeil(rs, ro, ro)
    IN  [shares |-> newSold + gross - rs, fee |-> gross - out,
         gross |-> gross, newSold |-> newSold, newOther |-> ro - gross]

(* Selling the outcome with reserve rs for exactly out collateral.         *)
CalcSell(rs, ro, out, feeBps) ==
    LET gross == MulDivCeil(out, BPS, BPS - feeBps)
        newSold == MulDivCeil(rs, ro, ro - gross)
    IN  [shares |-> newSold + gross - rs, fee |-> gross - out,
         gross |-> gross, newSold |-> newSold, newOther |-> ro - gross]

SellOk(rs, ro, out, feeBps) ==
    /\ out > 0 /\ rs > 0 /\ ro > 0 /\ feeBps < BPS
    /\ MulDivCeil(out, BPS, BPS - feeBps) < ro
    /\ CalcSell(rs, ro, out, feeBps).shares > 0

(* Buying for amt and selling back for out with the shares bought does not *)
(* return more than was spent.                                             *)
NoProfit(rb, ro, amt, out, feeBps) ==
    LET b == CalcBuy(rb, ro, amt, feeBps) IN
    /\ BuyOk(rb, ro, amt, feeBps)
    /\ SellOk(b.newBought, b.newOther, out, feeBps)
    /\ CalcSell(b.newBought, b.newOther, out, feeBps).shares <= b.shares
    => out <= amt

-----------------------------------------------------------------------------
(* Average-price limits, compared by cross-multiplication.                 *)
BuyWithinLimit(in, shares, limit) == in * BPS <= shares * limit

SellWithinLimit(out, shares, limit) == out * BPS >= shares * limit

(* The protocol's part of a fee; the LP gets the rest.                     *)
ProtocolFee(fee, share) == MulDivCeil(fee, share, BPS)

LpFee(fee, share) == fee - ProtocolFee(fee, share)

(* Mutant: a void pays every share in full.                                *)
VoidPaysInFull(kind, p) == IF kind = "void" THEN p.yes + p.no ELSE p[kind]

(* What a (yes, no) pair of shares is worth once the market is final: the  *)
(* winning side, or half of everything when the market is void.            *)
SettleValue(kind, p) ==
    IF kind = "void" THEN (p.yes + p.no) \div 2 ELSE p[kind]

(* The bound finalize_market reserves for all shares still outstanding.    *)
SettleUpper(kind, p) ==
    IF kind = "void" THEN (p.yes + p.no) \div 2 ELSE p[kind]
=============================================================================
