---------------------------- MODULE TreasuryBook ----------------------------
(***************************************************************************)
(* The treasury's accounts as a record `b` and the helpers that update it: *)
(* usage windows, per-market exposure, net exposure, the open-market index,*)
(* realized results, the PnL window and the creation log.                  *)
(*                                                                         *)
(* A market m is what market-core reports of it to the treasury: status,   *)
(* close time, reserves, the treasury's position `pos`, whether the        *)
(* treasury is its creator `lp` and has `claimed` the pool, accrued        *)
(* lpFees and protocol fees, and whether it was `closed` out.              *)
(***************************************************************************)
EXTENDS TreasuryMath

CONSTANTS
    Cores,              \* market-core contracts
    Ids,                \* market ids; every core hands out the same ones
    MaxOpenMarkets,     \* MAX_OPEN_MARKETS
    None                \* no entry

Markets == Cores \X Ids

Zero == [o \in Outcomes |-> 0]

Final(m) == m.status \in {"yes", "no", "void"}

(* The treasury holds shares of m or an unclaimed LP role.                 *)
Holds(m) == m.pos # Zero \/ (m.lp /\ ~m.claimed)

-----------------------------------------------------------------------------
(* Net exposure.                                                           *)

(* Mutant: the total is raised by the new basis without taking the old off.*)
SaveNetAdds(b, k, next) ==
    [b EXCEPT !.net[k] = next, !.netTotal = @ + CostBasis(next)]

SaveNet(b, k, next) ==
    [b EXCEPT !.net[k] = next,
              !.netTotal = @ - CostBasis(b.net[k]) + CostBasis(next)]

ReserveNet(b, k, amount) == SaveNet(b, k, [b.net[k] EXCEPT !.in = @ + amount])

RecordReturn(b, k, amount) ==
    IF amount <= 0 THEN b
    ELSE SaveNet(b, k, [b.net[k] EXCEPT !.out = @ + amount])

ClearNet(b, k) == SaveNet(b, k, [in |-> 0, out |-> 0])

-----------------------------------------------------------------------------
(* The open-market index: the sequence `at` and the reverse map `slot`,    *)
(* kept dense by moving the last entry into a freed slot.                  *)

IndexAddOk(b, k) == b.slot[k] # 0 \/ Len(b.at) < MaxOpenMarkets

IndexAdd(b, k) ==
    IF b.slot[k] # 0 THEN b
    ELSE [b EXCEPT !.at = Append(@, k), !.slot[k] = Len(b.at) + 1]

(* Mutant: the moved entry keeps its old slot.                             *)
IndexRemoveForgets(b, k) ==
    IF b.slot[k] = 0 THEN b
    ELSE LET last == Len(b.at)
         IN  [b EXCEPT !.at = SubSeq([@ EXCEPT ![b.slot[k]] = @[last]],
                                     1, last - 1),
                       !.slot[k] = 0]

IndexRemove(b, k) ==
    IF b.slot[k] = 0 THEN b
    ELSE LET last  == Len(b.at)
             moved == b.at[last]
         IN  [b EXCEPT !.at = SubSeq([@ EXCEPT ![b.slot[k]] = moved],
                                     1, last - 1),
                       !.slot = [@ EXCEPT ![moved] = b.slot[k], ![k] = 0]]

PruneIfSettled(b, k, m) == IF Holds(m) THEN b ELSE IndexRemove(b, k)

-----------------------------------------------------------------------------
(* Capacity: the lifetime cap of the market and both sliding day windows.  *)

ReserveCapacityOk(b, g, a, policy, k, amount, t) ==
    /\ b.exposure[k].amount + amount <= g.market
    /\ WithinDaily(b.window, t, amount, g.daily)
    /\ WithinDaily(b.agentWindow[a], t, amount, policy.daily)
    /\ IndexAddOk(b, k)

ReserveCapacity(b, a, k, amount, t) ==
    [IndexAdd(b, k) EXCEPT
        !.window = ConsumeWindow(@, t, amount),
        !.agentWindow[a] = ConsumeWindow(@, t, amount),
        !.exposure[k] = [amount |-> @.amount + amount, open |-> TRUE]]

CloseMarketExposure(b, k) == [b EXCEPT !.exposure[k].open = FALSE]

-----------------------------------------------------------------------------
(* Results.  Cost, proceeds and settlement are keyed by market id alone.   *)

RecordCost(b, k, amount) == [b EXCEPT !.pnl[k[2]].cost = @ + amount]

RecordProceeds(b, k, amount) ==
    [b EXCEPT !.pnl[k[2]].proceeds = @ + NonNeg(amount)]

AddDailyPnl(days, t, n, pnl) == AddToHead(Advance(days, Day(t), n), pnl)

CalcWindowPnl(days, t, n) == RingSum(Advance(days, Day(t), n))

(* try_realize(): once, when the market is final and nothing is left in it.*)
TryRealize(b, k, m, t, n) ==
    IF Final(m) /\ ~Holds(m) /\ ~b.pnl[k[2]].realized
    THEN [b EXCEPT !.days = AddDailyPnl(@, t, n, b.pnl[k[2]].proceeds
                                                  - b.pnl[k[2]].cost),
                   !.pnl[k[2]].realized = TRUE]
    ELSE b

Received(b, k, amount) == RecordProceeds(RecordReturn(b, k, amount), k, amount)

(* The end of do_redeem, do_claim and settle_market: m is the market after *)
(* the payouts, t and n the time and the PnL window.                       *)
Settled(b, k, m, redeemed, claimed, t, n) ==
    LET done == b.realized[k[2]].settled \/ ~Holds(m)
        b1 == [b EXCEPT !.realized[k[2]] =
                  [position |-> @.position + redeemed, lp |-> @.lp + claimed,
                   settled |-> done]]
        b2 == IF Holds(m) THEN b1 ELSE CloseMarketExposure(b1, k)
        b3 == PruneIfSettled(b2, k, m)
    IN  IF done THEN TryRealize(b3, k, m, t, n) ELSE b3

-----------------------------------------------------------------------------
EmptyBook(Agents, t, n) ==
    [window |-> EmptyRing(Hour(t), Buckets),
     agentWindow |-> [a \in Agents |-> EmptyRing(Hour(t), Buckets)],
     exposure |-> [k \in Markets |-> [amount |-> 0, open |-> FALSE]],
     net |-> [k \in Markets |-> [in |-> 0, out |-> 0]],
     netTotal |-> 0,
     at |-> <<>>,
     slot |-> [k \in Markets |-> 0],
     pnl |-> [i \in Ids |-> [cost |-> 0, proceeds |-> 0, realized |-> FALSE]],
     realized |-> [i \in Ids |-> [position |-> 0, lp |-> 0,
                                   settled |-> FALSE]],
     days |-> EmptyRing(Day(t), n),
     creations |-> <<>>]

-----------------------------------------------------------------------------
(* What market-core does to a market on the treasury's behalf.             *)

PriceOf(m, o) ==
    IF o = "yes" THEN PriceYesBps(m.reserve) ELSE BPS - PriceYesBps(m.reserve)

Created(mine, close, seed, prob) ==
    [status |-> "open", close |-> close, reserve |-> SeedReserves(seed, prob),
     pos |-> IF mine THEN CreatorShares(seed, prob) ELSE Zero,
     lp |-> mine, claimed |-> FALSE, lpFees |-> 0, fees |-> 0,
     closed |-> FALSE]

Traded(m, o, r, fee, share, shares) ==
    [m EXCEPT !.reserve = r, !.pos[o] = @ + shares,
              !.fees = @ + ProtocolFee(fee, share),
              !.lpFees = @ + LpFee(fee, share)]

Redeemed(m) == [m EXCEPT !.pos = Zero]

Claimed(m) ==
    IF m.claimed THEN m
    ELSE [m EXCEPT !.reserve = Zero, !.claimed = TRUE, !.lpFees = 0]

RedeemPayout(m) == SettleValue(m.status, m.pos)

ClaimPayout(m) ==
    IF m.claimed THEN 0 ELSE SettleValue(m.status, m.reserve) + m.lpFees
=============================================================================
