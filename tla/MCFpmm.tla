------------------------------- MODULE MCFpmm -------------------------------
(***************************************************************************)
(* Checks the FPMM arithmetic over every small pool and order: one initial *)
(* state per input, no steps.                                              *)
(***************************************************************************)
EXTENDS SellShares

CONSTANTS
    MaxReserve,     \* largest reserve of either outcome
    MaxAmount,      \* largest collateral or share amount of an order
    FeeChoices      \* fee rates in basis points

ASSUME MCFpmmAssumption ==
    /\ MaxReserve \in Nat \ {0}
    /\ MaxAmount \in Nat \ {0}
    /\ FeeChoices \subseteq 0 .. 1000

VARIABLE order      \* the pool and the order a quote is computed for

vars == <<order>>

Init ==
    order \in [r : 1 .. MaxReserve, other : 1 .. MaxReserve,
               amount : 1 .. MaxAmount, fee : FeeChoices]

Next == UNCHANGED order

Spec == Init /\ [][Next]_vars

SellsShares == SellSharesOk(order.r, order.other, order.amount, order.fee)
Sold == CalcSellShares(order.r, order.other, order.amount, order.fee)

-----------------------------------------------------------------------------
(* A trader who buys and immediately sells the shares back, for any amount *)
(* of collateral that those shares can pay for, never ends with more       *)
(* collateral than was spent: the rounding of calc_buy and calc_sell       *)
(* favours the pool (math.rs, "Rounding always favours the pool").         *)
NoRoundTripProfit ==
    \A out \in 1 .. order.amount + 2 :
        NoProfit(order.r, order.other, order.amount, out, order.fee)

(* The square-root formula plus the correction loop of calc_sell_shares    *)
(* burns the greatest number of complete sets that does not lower the      *)
(* pool's product, which is the reference definition of the quote.         *)
SellSharesIsGreatest ==
    SellsShares =>
        Sold.gross =
            CHOOSE x \in 0 .. order.other :
                /\ ~InvariantDrops(order.r, order.other, order.amount, x)
                /\ \A y \in x + 1 .. MinOf(order.amount, order.other) :
                       InvariantDrops(order.r, order.other, order.amount, y)
===========================================================================
