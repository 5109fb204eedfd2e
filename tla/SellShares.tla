----------------------------- MODULE SellShares -----------------------------
(***************************************************************************)
(* math.rs calc_sell_shares: the exact-shares sell quote, which solves a   *)
(* quadratic with an integer square root and then corrects the rounding in *)
(* the pool's favour.  Kept apart from FpmmMath because it is recursive.   *)
(***************************************************************************)
EXTENDS FpmmMath

(* Smallest shift with 2^shift > sqrt(n): ceil(bit_len(n) / 2).            *)
SeedShift(n) ==
    (CHOOSE b \in 1 .. 31 : 2^(b - 1) <= n /\ (b = 31 \/ n < 2^b)) + 1

RECURSIVE Newton(_, _)
(* One round of Newton's iteration for sqrt(n), stopping when it no longer *)
(* descends.                                                               *)
Newton(n, x) ==
    LET y == (x + n \div x) \div 2 IN IF y >= x THEN x ELSE Newton(n, y)

Isqrt(n) == IF n < 2 THEN n ELSE Newton(n, 2^(SeedShift(n) \div 2))

(* The pool's product would fall if it burned x complete sets after taking *)
(* sh shares in.                                                           *)
InvariantDrops(rs, ro, sh, x) == (rs + sh - x) * (ro - x) < rs * ro

(* The first guess, before the correction loop.                            *)
FirstGross(rs, ro, sh) ==
    LET b == rs + sh + ro IN (b - Isqrt(b * b - 4 * ro * sh)) \div 2

RECURSIVE Correct(_, _, _, _)
Correct(rs, ro, sh, x) ==
    IF x > 0 /\ InvariantDrops(rs, ro, sh, x)
    THEN Correct(rs, ro, sh, x - 1)
    ELSE x

(* The complete sets a sale of sh shares burns.                            *)
GrossFor(rs, ro, sh) == Correct(rs, ro, sh, FirstGross(rs, ro, sh))

CalcSellShares(rs, ro, sh, feeBps) ==
    LET x   == GrossFor(rs, ro, sh)
        out == MulDivFloor(x, BPS - feeBps, BPS)
    IN  [out |-> out, fee |-> x - out, gross |-> x,
         newSold |-> rs + sh - x, newOther |-> ro - x]

SellSharesOk(rs, ro, sh, feeBps) ==
    /\ sh > 0 /\ rs > 0 /\ ro > 0 /\ feeBps < BPS
    /\ GrossFor(rs, ro, sh) \in 1 .. ro - 1
    /\ CalcSellShares(rs, ro, sh, feeBps).out > 0
=============================================================================
