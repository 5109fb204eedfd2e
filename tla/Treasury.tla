------------------------------ MODULE Treasury ------------------------------
(***************************************************************************)
(* contracts/treasury: a vault whose shareholders' capital registered      *)
(* agents deploy in prediction markets, within caps, with a drawdown stop, *)
(* a withdrawal queue, a lending venue for idle capital and migration.     *)
(*                                                                         *)
(* Every entrypoint is one atomic action, enabled when it returns Ok.      *)
(* market-core is composed in as far as the treasury sees it: the state of *)
(* each market, moved by the treasury's own calls and by others.  The      *)
(* collateral token and the lending pool are external.                     *)
(***************************************************************************)
EXTENDS TreasuryGov, TreasuryBook

CONSTANTS
    Owners,             \* shareholders
    Admin,              \* the shareholder the constructor mints to
    Wallet,             \* collateral each owner starts with
    InitialIdle,        \* collateral the treasury holds when constructed
    MinDeposit,         \* MIN_DEPOSIT
    Drawdown,           \* [max, days] of the constructor
    FeeBps, FeeShare,   \* market-core's trading fee and the protocol's part
    MaxTickets,         \* bound: withdrawal tickets ever issued
    MaxYield,           \* bound: what the venue may owe the treasury
    \* what callers choose from
    DepositChoices, BurnChoices, SeedChoices, ProbChoices, CloseChoices,
    BuyChoices, SellChoices, LimitChoices, OtherTrades, YieldCaps,
    YieldAmounts, PayChoices, DrawdownChoices

VARIABLES
    mkt,        \* every market as market-core reports it
    vault,      \* collateral, shares, tickets and the queue's bounds
    book,       \* the accounts of TreasuryBook
    stop,       \* Paused, AdminPaused, DrawdownTripped, .Acknowledged, .Cfg
    yield,      \* YieldVenue, YieldPrincipal and what the pools owe: the
                \* venue's `supplied`, another one `aside`
    successor,  \* Successor is set
    hist        \* history: spending, collateral flows, the markets that
                \* ended and their results, for the properties only

vaultVars == <<mkt, vault, book, stop, yield, successor, hist>>
vars == <<govVars, vaultVars>>

Core(id) == <<global.core, id>>

NoMarket ==
    [status |-> "none", close |-> 0, reserve |-> Zero, pos |-> Zero,
     lp |-> FALSE, claimed |-> FALSE, lpFees |-> 0, fees |-> 0,
     closed |-> FALSE]

Tradable(m) == m.status = "open" /\ now < m.close

-----------------------------------------------------------------------------
(* Valuation.                                                              *)

HoldingsValue ==
    SumFunction([i \in DOMAIN book.at |-> FloorValue(mkt[book.at[i]])])

ComputeNav == NonNeg(vault.idle + HoldingsValue - vault.reserved)

Free == NonNeg(vault.idle - vault.reserved)

Empty == vault.idle = 0 /\ book.at = <<>> /\ vault.reserved = 0

-----------------------------------------------------------------------------
(* Views.                                                                  *)

DailyUsage == Summarize(book.window, now)

AgentDailyUsage(a) == Summarize(book.agentWindow[a], now)

DailyHeadroom == NonNeg(global.daily - DailyUsage.amount)

NetExposure == book.netTotal

MarketValuation(id) ==
    LET k == Core(id)
    IN  [cost |-> CostBasis(book.net[k]), floor |-> FloorValue(mkt[k]),
         spot |-> SpotValue(mkt[k]), risk |-> AtRisk(book.net[k], mkt[k])]

CapitalBreakdown ==
    [liquid |-> vault.idle, principal |-> yield.principal,
     value |-> yield.supplied]

AvailableCapital == CapitalBreakdown.liquid + CapitalBreakdown.value

SharesOf(o) == vault.shares[o]
TotalShares == vault.supply
QueueReserved == vault.reserved
WithdrawTicket(i) == vault.ticket[i]

(* From the ticket claim_withdraw pays next to the last one handed out.    *)
QueueBounds == vault.head .. vault.tail - 1

OpenMarketCount == Len(book.at)
OpenMarketAt(i) == book.at[i]

DrawdownStatus ==
    [tripped |-> stop.tripped,
     pnl |-> CalcWindowPnl(book.days, now, stop.days), max |-> stop.max]

-----------------------------------------------------------------------------
(* Shares and the withdrawal queue.                                        *)

(* mint_shares(): the first mint withholds the dead shares.                *)
Minted(amount, nav) == SharesForDeposit(amount, nav, vault.supply)

Credited(amount, nav) ==
    Minted(amount, nav) - (IF vault.supply = 0 THEN VirtualShares ELSE 0)

Deposit(o, amount) ==
    LET nav == ComputeNav IN
    /\ ~stop.paused
    /\ amount > 0 /\ amount >= MinDeposit /\ amount <= vault.wallet[o]
    /\ Credited(amount, nav) > 0
    /\ vault' = [vault EXCEPT !.idle = @ + amount, !.wallet[o] = @ - amount,
                              !.shares[o] = @ + Credited(amount, nav),
                              !.supply = @ + Minted(amount, nav)]
    /\ UNCHANGED <<govVars, mkt, book, stop, yield, successor, hist>>

BurnShares(v, o, shares) ==
    [v EXCEPT !.shares[o] = @ - shares, !.supply = @ - shares]

Pay(v, o, amount) == [v EXCEPT !.idle = @ - amount, !.wallet[o] = @ + amount]

PaidNow(assets) == MinOf(assets, Free)

(* request_withdraw(): priced now, paid from free collateral, the rest     *)
(* queued.                                                                 *)
RequestWithdraw(o, shares) ==
    LET assets == AssetsForShares(shares, ComputeNav, vault.supply)
        rest   == assets - PaidNow(assets)
        v      == Pay(BurnShares(vault, o, shares), o, PaidNow(assets))
    IN  /\ shares > 0 /\ shares <= vault.shares[o]
        /\ assets > 0
        /\ \/ rest = 0 /\ vault' = v
           \/ /\ rest > 0 /\ vault.tail <= MaxTickets
              /\ vault' = [v EXCEPT
                    !.ticket[vault.tail] = [owner |-> o, remaining |-> rest],
                    !.tail = @ + 1, !.reserved = @ + rest]
        /\ UNCHANGED <<govVars, mkt, book, stop, yield, successor, hist>>

(* Mutant: a part payment also moves the queue on.                         *)
ClaimWithdrawSkips(i) ==
    LET t      == vault.ticket[i]
        amount == MinOf(t.remaining, vault.idle)
        paid   == [Pay(vault, t.owner, amount) EXCEPT !.reserved = @ - amount]
    IN  /\ t # None /\ i = vault.head
        /\ amount > 0
        /\ vault' = [paid EXCEPT !.ticket[i].remaining = @ - amount,
                                 !.head = @ + 1]
        /\ UNCHANGED <<govVars, mkt, book, stop, yield, successor, hist>>

(* claim_withdraw(): anyone, for the ticket at the head.                   *)
ClaimWithdraw(i) ==
    LET t      == vault.ticket[i]
        amount == MinOf(t.remaining, vault.idle)
        paid   == [Pay(vault, t.owner, amount) EXCEPT !.reserved = @ - amount]
    IN  /\ t # None /\ i = vault.head
        /\ amount > 0
        /\ vault' = IF t.remaining = amount
                    THEN [paid EXCEPT !.ticket[i] = None, !.head = @ + 1]
                    ELSE [paid EXCEPT !.ticket[i].remaining = @ - amount]
        /\ UNCHANGED <<govVars, mkt, book, stop, yield, successor, hist>>

(* emergency_withdraw(): while paused, a part of the free collateral only. *)
EmergencyWithdraw(o, shares) ==
    LET amount == MulDivFloor(shares, Free, vault.supply + VirtualShares) IN
    /\ stop.paused
    /\ shares > 0 /\ shares <= vault.shares[o]
    /\ vault' = Pay(BurnShares(vault, o, shares), o, amount)
    /\ UNCHANGED <<govVars, mkt, book, stop, yield, successor, hist>>

-----------------------------------------------------------------------------
(* Liquidity: agents spend idle collateral and, when that is short, recall *)
(* the shortfall and one unit more from the venue in the same call.        *)

Recalled(needed) ==
    IF vault.idle >= needed THEN 0 ELSE needed - vault.idle + 1

(* The pool may deliver one unit less than asked for (rounding).           *)
LiquidOk(needed, short) ==
    LET r == Recalled(needed) IN
    \/ r = 0 /\ short = 0
    \/ /\ r > 0 /\ yield.enabled /\ yield.supplied >= r
       /\ vault.idle + r - short >= needed

YieldAfter(r) == [yield EXCEPT !.principal = NonNeg(@ - r), !.supplied = @ - r]

Unreserved(idle, amount) ==
    vault.reserved = 0 \/ idle - amount >= vault.reserved

(* What every spend by agent a does to the accounts, or fails to do.       *)
SpendOk(a, k, amount) ==
    /\ ReserveCapacityOk(book, global, a, agents[a], k, amount, now)
    /\ ReserveNet(book, k, amount).netTotal <= global.net

Spent(b, a, k, amount) ==
    RecordCost(ReserveNet(ReserveCapacity(b, a, k, amount, now), k, amount),
               k, amount)

Spend(a, k, m, b, amount, short) ==
    LET r == Recalled(amount) IN
    /\ mkt' = [mkt EXCEPT ![k] = m]
    /\ vault' = [vault EXCEPT !.idle = @ + r - short - amount]
    /\ book' = Spent(b, a, k, amount)
    /\ yield' = YieldAfter(r)
    /\ hist' = [hist EXCEPT !.spent = @ \cup {[at |-> now, agent |-> a,
                                 amount |-> amount, n |-> Cardinality(@)]},
                            !.in[k] = @ + amount]
    /\ UNCHANGED <<govVars, stop, successor>>

-----------------------------------------------------------------------------
(* Agents: creation, buys, sells.                                          *)

NextId(core) ==
    CHOOSE id \in Ids : /\ mkt[<<core, id>>].status = "none"
                        /\ \A j \in Ids : mkt[<<core, j>>].status = "none"
                                          => j >= id

CanCreate(core) == \E id \in Ids : mkt[<<core, id>>].status = "none"

AgentCreateMarket(a, close, seed, prob, category, short) ==
    LET k == Core(NextId(global.core))
        b == [book EXCEPT !.creations = RecordCreation(@, creation.window,
                                                       now)]
    IN  /\ ~stop.paused
        /\ MayAct(a, "create")
        /\ seed > 0 /\ seed <= creation.seed
        /\ close - now \in creation.minHorizon .. creation.maxHorizon
        /\ category \in creation.categories
        /\ prob \in prices.sell .. prices.buy
        /\ CreationUsage(book.creations, creation.window, now)
               < creation.count
        /\ LiquidOk(seed, short)
        /\ Unreserved(vault.idle + Recalled(seed) - short, seed)
        /\ CanCreate(global.core) /\ SeedOk(seed, prob) /\ close > now
        /\ SpendOk(a, k, seed)
        /\ Spend(a, k, Created(TRUE, close, seed, prob), b, seed, short)

(* do_agent_buy(); limit 0 is "no limit".                                  *)
DoAgentBuy(a, id, o, amount, minOut, limit, short) ==
    LET k == Core(id)
        m == mkt[k]
        q == CalcBuy(m.reserve[o], m.reserve[Other(o)], amount, FeeBps)
        after == Traded(m, o, ReservesWith(o, q.newBought, q.newOther),
                        q.fee, FeeShare, q.shares)
        floor == MulDivFloor(q.shares, BPS - prices.slippage, BPS)
    IN  /\ ~stop.paused
        /\ MayAct(a, "trade")
        /\ amount > 0 /\ amount <= agents[a].trade /\ amount <= global.trade
        /\ Unreserved(vault.idle, amount)
        /\ Tradable(m)
        /\ PriceOf(m, o) <= prices.buy
        /\ BuyOk(m.reserve[o], m.reserve[Other(o)], amount, FeeBps)
        /\ LiquidOk(amount, short)
        /\ q.shares >= MaxOf(minOut, MaxOf(floor, 1))
        /\ limit # 0 => BuyWithinLimit(amount, q.shares, limit)
        /\ AbsDiff(PriceOf(after, o), PriceOf(m, o)) <= prices.impact
        /\ SpendOk(a, k, amount)
        /\ Spend(a, k, after, book, amount, short)

AgentBuy(a, id, o, amount, minOut, short) ==
    DoAgentBuy(a, id, o, amount, minOut, 0, short)

AgentBuyV2(a, id, o, amount, minOut, limit, deadline, short) ==
    now <= deadline /\ DoAgentBuy(a, id, o, amount, minOut, limit, short)

(* Collateral arriving from market k, recorded as b.                       *)
Return(k, m, b, amount) ==
    /\ mkt' = [mkt EXCEPT ![k] = m]
    /\ vault' = [vault EXCEPT !.idle = @ + amount]
    /\ book' = b
    /\ UNCHANGED <<govVars, yield, successor>>

(* do_agent_sell(): open while the drawdown stop, and only it, is down.    *)
DoAgentSell(a, id, o, out, maxIn, limit) ==
    LET k == Core(id)
        m == mkt[k]
        q == CalcSell(m.reserve[o], m.reserve[Other(o)], out, FeeBps)
        after == Traded(m, o, ReservesWith(o, q.newSold, q.newOther),
                        q.fee, FeeShare, -q.shares)
        cap == MulDivCeil(q.shares, BPS + prices.slippage, BPS)
    IN  /\ ~stop.admin /\ (stop.paused => stop.tripped)
        /\ MayAct(a, "trade")
        /\ Tradable(m)
        /\ PriceOf(m, o) >= prices.sell
        /\ SellOk(m.reserve[o], m.reserve[Other(o)], out, FeeBps)
        /\ q.shares <= MinOf(maxIn, cap) /\ q.shares <= m.pos[o]
        /\ limit # 0 => SellWithinLimit(out, q.shares, limit)
        /\ AbsDiff(PriceOf(after, o), PriceOf(m, o)) <= prices.impact
        /\ Return(k, after, Received(book, k, out), out)
        /\ hist' = [hist EXCEPT !.out[k] = @ + out]
        /\ UNCHANGED stop

AgentSell(a, id, o, out, maxIn) == DoAgentSell(a, id, o, out, maxIn, 0)

AgentSellV2(a, id, o, out, maxIn, limit, deadline) ==
    now <= deadline /\ DoAgentSell(a, id, o, out, maxIn, limit)

CloseTrade(a, id) ==
    /\ MayAct(a, "settle")
    /\ book.exposure[Core(id)].open
    /\ book' = CloseMarketExposure(book, Core(id))
    /\ UNCHANGED <<govVars, mkt, vault, stop, yield, successor, hist>>

-----------------------------------------------------------------------------
(* Settlement, realized PnL and the drawdown stop.                         *)

NewlyRealized(b) == {i \in Ids : b.pnl[i].realized /\ ~book.pnl[i].realized}

(* Mutant: the window is read before the result is in it.                  *)
CheckDrawdownEarly(b) ==
    IF /\ NewlyRealized(b) # {} /\ ~stop.tripped
       /\ CalcWindowPnl(book.days, now, stop.days) < -stop.max
    THEN [stop EXCEPT !.paused = TRUE, !.tripped = TRUE, !.acked = FALSE]
    ELSE stop

CheckDrawdown(b) ==
    IF /\ NewlyRealized(b) # {} /\ ~stop.tripped
       /\ CalcWindowPnl(b.days, now, stop.days) < -stop.max
    THEN [stop EXCEPT !.paused = TRUE, !.tripped = TRUE, !.acked = FALSE]
    ELSE stop

(* The history of results is of the money.  A market ends when a call that *)
(* settles finds it final, as m, with nothing left in it, for the first    *)
(* time; what it then paid in all, less what was put in, is its result of  *)
(* that day.  The day is blurred when a batch call paid part of it, or the *)
(* id was in use in a second core, which the accounts cannot tell apart.   *)
Ends(k, m) == Final(m) /\ ~Holds(m) /\ k \notin hist.ended

Unclear(k) ==
    \/ k \in hist.batched
    \/ \E j \in Markets \ {k} :
          /\ j[2] = k[2]
          /\ \/ j \in hist.ended \cup hist.batched
             \/ hist.in[j] # 0 \/ hist.out[j] # 0

Ended(k, amount) ==
    [hist EXCEPT
        !.out[k] = @ + amount,
        !.results[Day(now)] = @ + hist.out[k] + amount - hist.in[k],
        !.ended = @ \cup {k},
        !.blurred = IF Unclear(k) THEN @ \cup {Day(now)} ELSE @]

Settle(k, m, b, amount) ==
    /\ Return(k, m, b, amount)
    /\ stop' = CheckDrawdown(b)
    /\ hist' = IF Ends(k, m) THEN Ended(k, amount)
               ELSE [hist EXCEPT !.out[k] = @ + amount]

(* do_redeem(): market-core refuses a market that is open or closed out,   *)
(* an empty position counts as a payout of nothing.                        *)
DoRedeem(k) ==
    LET m == mkt[k]
        paid == RedeemPayout(m)
        b == Received(book, k, paid)
    IN  /\ Final(m) /\ ~m.closed
        /\ Settle(k, Redeemed(m),
                  Settled(b, k, Redeemed(m), paid, 0, now, stop.days), paid)

DoClaim(k) ==
    LET m == mkt[k]
        paid == ClaimPayout(m)
        b == Received(book, k, paid)
    IN  /\ Final(m) /\ m.lp /\ ~m.closed
        /\ Settle(k, Claimed(m),
                  Settled(b, k, Claimed(m), 0, paid, now, stop.days), paid)

Redeem(a, id) == MayAct(a, "settle") /\ DoRedeem(Core(id))

ClaimPoolRemainder(a, id) == MayAct(a, "settle") /\ DoClaim(Core(id))

LegacyRedeem(a, k) == MayAct(a, "settle") /\ k[1] \in legacy /\ DoRedeem(k)

LegacyClaimPoolRemainder(a, k) ==
    MayAct(a, "settle") /\ k[1] \in legacy /\ DoClaim(k)

(* settle_market(): anyone, paused or not; a settled id is left alone.     *)
SettleMarket(id) ==
    LET k  == Core(id)
        m  == mkt[k]
        m1 == Redeemed(m)
        lp == m.lp /\ ~m.claimed
        m2 == IF lp THEN Claimed(m1) ELSE m1
        redeemed == RedeemPayout(m)
        claimed  == IF lp THEN ClaimPayout(m) ELSE 0
        b  == Received(Received(book, k, redeemed), k, claimed)
    IN  /\ ~book.realized[id].settled
        /\ Final(m) /\ ~m.closed
        /\ Settle(k, m2,
                  Settled(b, k, m2, redeemed, claimed, now, stop.days),
                  redeemed + claimed)

(* realize(): anyone, for a market that ended up empty before it was final.*)
Realize(id) ==
    LET k == Core(id)
        b == TryRealize(book, k, mkt[k], now, stop.days)
    IN  /\ mkt[k].status # "none"
        /\ Settle(k, mkt[k], b, 0)

(* redeem_many() and claim_pool_remainders(): market-core skips what it    *)
(* cannot pay, and the treasury's accounts are not touched.                *)
BatchPaid(ks, after, pay) ==
    LET Total == SumFunction(pay) IN
    /\ mkt' = [k \in Markets |-> IF k \in ks THEN after[k] ELSE mkt[k]]
    /\ vault' = [vault EXCEPT !.idle = @ + Total]
    /\ hist' = [hist EXCEPT
                  !.out = [k \in Markets |-> IF k \in ks THEN @[k] + pay[k]
                                             ELSE @[k]],
                  !.batched = @ \cup {k \in ks : pay[k] > 0}]
    /\ UNCHANGED <<govVars, book, stop, yield, successor>>

RedeemMany(a, ids) ==
    LET ks == {Core(id) : id \in ids}
        paying == {k \in ks : Final(mkt[k]) /\ ~mkt[k].closed
                              /\ mkt[k].pos # Zero}
    IN  /\ MayAct(a, "settle")
        /\ BatchPaid(paying, [k \in paying |-> Redeemed(mkt[k])],
                     [k \in paying |-> RedeemPayout(mkt[k])])

ClaimPoolRemainders(a, ids) ==
    LET ks == {Core(id) : id \in ids}
        paying == {k \in ks : Final(mkt[k]) /\ ~mkt[k].closed
                              /\ mkt[k].lp /\ ~mkt[k].claimed}
    IN  /\ MayAct(a, "settle")
        /\ BatchPaid(paying, [k \in paying |-> Claimed(mkt[k])],
                     [k \in paying |-> ClaimPayout(mkt[k])])

(* agent_claim_lp_fees(): a return of capital, though not proceeds.        *)
AgentClaimLpFees(a, id) ==
    LET k == Core(id)
        m == mkt[k]
    IN  /\ MayAct(a, "settle")
        /\ m.lp
        /\ Return(k, [m EXCEPT !.lpFees = 0],
                  RecordReturn(book, k, m.lpFees), m.lpFees)
        /\ hist' = [hist EXCEPT !.fees[k] = @ + m.lpFees]
        /\ UNCHANGED stop

(* collect_market_fees(): protocol fees are nobody's result.               *)
CollectMarketFees(id) ==
    /\ mkt[Core(id)].status # "none"
    /\ Return(Core(id), [mkt[Core(id)] EXCEPT !.fees = 0], book,
              mkt[Core(id)].fees)
    /\ UNCHANGED <<stop, hist>>

-----------------------------------------------------------------------------
(* The stop.                                                               *)

SetStop(s) ==
    /\ stop' = s
    /\ UNCHANGED <<govVars, mkt, vault, book, yield, successor, hist>>

SetPaused == SetStop([stop EXCEPT !.paused = TRUE, !.admin = TRUE])

(* set_paused(false): a tripped stop must have been acknowledged.          *)
Unpause ==
    /\ stop.tripped => stop.acked
    /\ SetStop([stop EXCEPT !.paused = FALSE, !.admin = FALSE,
                            !.tripped = FALSE,
                            !.acked = IF stop.tripped THEN FALSE ELSE @])

AcknowledgeDrawdown ==
    SetStop([stop EXCEPT !.acked = IF stop.tripped THEN TRUE ELSE @])

ClearResults(n) ==
    /\ book' = [book EXCEPT !.days = EmptyRing(Day(now), n)]
    /\ hist' = [hist EXCEPT !.results = [d \in DOMAIN @ |-> 0],
                            !.blurred = {}]
    /\ UNCHANGED <<govVars, mkt, vault, yield, successor>>

ResetPnlWindow == ClearResults(stop.days) /\ UNCHANGED stop

ValidDrawdown(d) == d.max > 0 /\ d.days \in 1 .. 30

SetDrawdownConfig(d) ==
    /\ ValidDrawdown(d)
    /\ stop' = [stop EXCEPT !.max = d.max, !.days = d.days]
    /\ ClearResults(d.days)

-----------------------------------------------------------------------------
(* The lending venue.                                                      *)

(* set_yield_venue(): the same pool or another; what the old pool still    *)
(* owes beyond the principal is then out of yield_value()'s sight.         *)
SetYieldVenue(cap, other) ==
    /\ cap > 0 /\ yield.principal = 0
    /\ yield' = [yield EXCEPT !.set = TRUE, !.enabled = TRUE, !.cap = cap,
                    !.supplied = IF other THEN yield.aside ELSE @,
                    !.aside = IF other THEN yield.supplied ELSE @]
    /\ UNCHANGED <<govVars, mkt, vault, book, stop, successor, hist>>

DisableYield ==
    /\ yield.set
    /\ yield' = [yield EXCEPT !.enabled = FALSE]
    /\ UNCHANGED <<govVars, mkt, vault, book, stop, successor, hist>>

(* A day's spending stays liquid.                                          *)
AllocateToYield(amount) ==
    /\ amount > 0 /\ yield.enabled
    /\ yield.principal + amount <= yield.cap
    /\ vault.idle - amount >= global.daily
    /\ yield.supplied + amount <= MaxYield
    /\ yield' = [yield EXCEPT !.principal = @ + amount,
                              !.supplied = @ + amount]
    /\ vault' = [vault EXCEPT !.idle = @ - amount]
    /\ UNCHANGED <<govVars, mkt, book, stop, successor, hist>>

RecallFromYield(amount) ==
    /\ amount > 0 /\ yield.set /\ yield.supplied >= amount
    /\ yield' = YieldAfter(amount)
    /\ vault' = [vault EXCEPT !.idle = @ + amount]
    /\ UNCHANGED <<govVars, mkt, book, stop, successor, hist>>

(* The pool credits interest.                                              *)
YieldAccrues ==
    /\ yield.principal > 0 /\ yield.supplied < MaxYield
    /\ yield' = [yield EXCEPT !.supplied = @ + 1]
    /\ UNCHANGED <<govVars, mkt, vault, book, stop, successor, hist>>

(* withdraw(): the admin pays anyone out of idle collateral.               *)
Withdraw(o, amount, short) ==
    /\ amount > 0
    /\ LiquidOk(amount, short)
    /\ vault' = [vault EXCEPT !.idle = @ + Recalled(amount) - short - amount,
                              !.wallet[o] = @ + amount]
    /\ yield' = YieldAfter(Recalled(amount))
    /\ UNCHANGED <<govVars, mkt, book, stop, successor, hist>>

-----------------------------------------------------------------------------
(* Migration.                                                              *)

SetSuccessor ==
    /\ ~successor
    /\ successor' = TRUE
    /\ UNCHANGED <<govVars, mkt, vault, book, stop, yield, hist>>

(* Everything the treasury holds in the market goes to the successor.      *)
MigrateMarket(id) ==
    LET k == Core(id)
        m == mkt[k]
        b == CloseMarketExposure(book, k)
    IN  /\ successor /\ m.status # "none"
        /\ mkt' = [mkt EXCEPT ![k] = [m EXCEPT !.pos = Zero,
                                               !.lp = @ /\ m.claimed]]
        /\ book' = IndexRemove(ClearNet(b, k), k)
        /\ hist' = [hist EXCEPT !.migrated = @ \cup {k}]
        /\ UNCHANGED <<govVars, vault, stop, yield, successor>>

-----------------------------------------------------------------------------
(* Others: market creators and traders, the resolver, the close-out sweep, *)
(* a donor.                                                                *)

SetMarket(k, m) ==
    /\ mkt' = [mkt EXCEPT ![k] = m]
    /\ UNCHANGED <<govVars, vault, book, stop, yield, successor, hist>>

OthersCreate(core, close, seed, prob) ==
    /\ CanCreate(core) /\ SeedOk(seed, prob) /\ close > now
    /\ SetMarket(<<core, NextId(core)>>, Created(FALSE, close, seed, prob))

OthersBuy(k, o, amount) ==
    LET m == mkt[k]
        q == CalcBuy(m.reserve[o], m.reserve[Other(o)], amount, FeeBps)
        r == ReservesWith(o, q.newBought, q.newOther)
    IN  /\ Tradable(m)
        /\ BuyOk(m.reserve[o], m.reserve[Other(o)], amount, FeeBps)
        /\ SetMarket(k, Traded(m, o, r, q.fee, FeeShare, 0))

Resolved(k, kind) ==
    /\ mkt[k].status = "open"
    /\ now >= mkt[k].close \/ kind = "void"
    /\ SetMarket(k, [mkt[k] EXCEPT !.status = kind])

ClosedOut(k) ==
    /\ Final(mkt[k]) /\ ~mkt[k].closed /\ now = MaxTime
    /\ SetMarket(k, [mkt[k] EXCEPT !.reserve = Zero, !.claimed = TRUE,
                                   !.fees = 0, !.lpFees = 0,
                                   !.closed = TRUE])

Donate(o, amount) ==
    /\ amount <= vault.wallet[o]
    /\ vault' = [vault EXCEPT !.idle = @ + amount, !.wallet[o] = @ - amount]
    /\ UNCHANGED <<govVars, mkt, book, stop, yield, successor, hist>>

(* transfer_position(): anyone may send the treasury shares it never       *)
(* bought; its accounts do not hear of it.                                 *)
Gift(k, o) ==
    /\ mkt[k].status # "none" /\ ~mkt[k].closed /\ k \notin hist.gifts
    /\ mkt' = [mkt EXCEPT ![k].pos[o] = @ + 1]
    /\ hist' = [hist EXCEPT !.gifts = @ \cup {k}]
    /\ UNCHANGED <<govVars, vault, book, stop, yield, successor>>

-----------------------------------------------------------------------------
Tickets == [owner : Owners, remaining : Nat \ {0}]

ASSUME TreasuryAssumption ==
    /\ Admin \in Owners /\ Wallet \in Nat /\ InitialIdle \in Nat
    /\ MinDeposit \in Nat /\ MaxTickets \in Nat \ {0} /\ MaxYield \in Nat
    /\ Ids \subseteq Nat /\ MaxOpenMarkets \in Nat \ {0}
    /\ IsFiniteSet(Owners) /\ IsFiniteSet(Ids) /\ IsFiniteSet(Cores)
    /\ \A c \in Configs \cup {Genesis} : c.core \in Cores
    /\ None \notin Tickets
    /\ Drawdown.max > 0 /\ Drawdown.days \in 1 .. 30
    /\ FeeBps \in FeeRange /\ FeeShare \in 0 .. BPS
    /\ DepositChoices \cup BurnChoices \cup SeedChoices \cup ProbChoices
       \cup CloseChoices \cup BuyChoices \cup SellChoices \cup OtherTrades
       \cup YieldAmounts \cup PayChoices \subseteq Nat

(* __constructor(): collateral that was sent ahead becomes the admin's     *)
(* shares, priced as a deposit into an empty vault; too little of it and   *)
(* there is no treasury.                                                   *)
Init ==
    /\ GovInit
    /\ mkt = [k \in Markets |-> NoMarket]
    /\ LET minted == IF InitialIdle = 0 THEN 0
                     ELSE SharesForDeposit(InitialIdle, 0, 0)
           dead   == IF InitialIdle = 0 THEN 0 ELSE VirtualShares
       IN  /\ InitialIdle > 0 => minted > dead
           /\ vault = [idle |-> InitialIdle, supply |-> minted,
                       shares |-> [o \in Owners |->
                                      IF o = Admin THEN minted - dead ELSE 0],
                       wallet |-> [o \in Owners |-> Wallet],
                       reserved |-> 0, head |-> 1, tail |-> 1,
                       ticket |-> [i \in 1 .. MaxTickets |-> None]]
    /\ book = EmptyBook(Agents, 0, Drawdown.days)
    /\ stop = [paused |-> FALSE, admin |-> FALSE, tripped |-> FALSE,
               acked |-> FALSE, max |-> Drawdown.max, days |-> Drawdown.days]
    /\ yield = [set |-> FALSE, enabled |-> FALSE, cap |-> 0, principal |-> 0,
                supplied |-> 0, aside |-> 0]
    /\ successor = FALSE
    /\ hist = [spent |-> {}, in |-> [k \in Markets |-> 0],
               out |-> [k \in Markets |-> 0], fees |-> [k \in Markets |-> 0],
               results |-> [d \in 0 .. Day(MaxTime) |-> 0],
               ended |-> {}, blurred |-> {},
               batched |-> {}, migrated |-> {}, gifts |-> {}]

-----------------------------------------------------------------------------
(* The entrypoints by concern, and what others do meanwhile.               *)

ConfigStep == (Tick \/ GovStep(Empty)) /\ UNCHANGED vaultVars

ShareStep ==
    \/ \E o \in Owners :
          \/ \E n \in DepositChoices : Deposit(o, n) \/ Donate(o, n)
          \/ \E s \in BurnChoices : RequestWithdraw(o, s)
                                     \/ EmergencyWithdraw(o, s)
    \/ \E i \in 1 .. MaxTickets : ClaimWithdraw(i)

CreateStep ==
    \E a \in Agents, seed \in SeedChoices, prob \in ProbChoices,
       close \in CloseChoices, c \in Categories, short \in 0 .. 1 :
        AgentCreateMarket(a, close, seed, prob, c, short)

TradeStep ==
    \E a \in Agents, id \in Ids, o \in Outcomes, limit \in LimitChoices :
        \/ \E n \in BuyChoices, short \in 0 .. 1 :
              \/ AgentBuy(a, id, o, n, 0, short)
              \/ AgentBuyV2(a, id, o, n, 1, limit, now, short)
        \/ \E n \in SellChoices :
              \/ AgentSell(a, id, o, n, 2 * n)
              \/ AgentSellV2(a, id, o, n, 2 * n, limit, now)

SettleStep ==
    \/ \E id \in Ids : SettleMarket(id) \/ Realize(id) \/ CollectMarketFees(id)
    \/ \E a \in Agents :
          \/ \E id \in Ids : \/ Redeem(a, id) \/ ClaimPoolRemainder(a, id)
                             \/ AgentClaimLpFees(a, id) \/ CloseTrade(a, id)
          \/ \E k \in Markets : \/ LegacyRedeem(a, k)
                                \/ LegacyClaimPoolRemainder(a, k)

BatchStep ==
    \E a \in Agents, ids \in SUBSET Ids :
        RedeemMany(a, ids) \/ ClaimPoolRemainders(a, ids)

StopStep ==
    \/ SetPaused \/ Unpause \/ AcknowledgeDrawdown \/ ResetPnlWindow
    \/ \E d \in DrawdownChoices : SetDrawdownConfig(d)

YieldStep ==
    \/ \E c \in YieldCaps, other \in BOOLEAN : SetYieldVenue(c, other)
    \/ DisableYield \/ YieldAccrues
    \/ \E n \in YieldAmounts : AllocateToYield(n) \/ RecallFromYield(n)
    \/ \E o \in Owners, n \in PayChoices, short \in 0 .. 1 :
          Withdraw(o, n, short)

MigrateStep == SetSuccessor \/ \E id \in Ids : MigrateMarket(id)

OthersStep ==
    \/ \E core \in Cores, seed \in SeedChoices, prob \in ProbChoices,
          close \in CloseChoices : OthersCreate(core, close, seed, prob)
    \/ \E k \in Markets :
          \/ \E o \in Outcomes, n \in OtherTrades : OthersBuy(k, o, n)
          \/ \E kind \in {"yes", "no", "void"} : Resolved(k, kind)
          \/ \E o \in Outcomes : Gift(k, o)
          \/ ClosedOut(k)

Next ==
    \/ ConfigStep \/ ShareStep \/ CreateStep \/ TradeStep \/ SettleStep
    \/ BatchStep \/ StopStep \/ YieldStep \/ MigrateStep \/ OthersStep

Spec == Init /\ [][Next]_vars

-----------------------------------------------------------------------------
(* Properties.                                                             *)

SpentIn(records, from) ==
    SumFunction([r \in {q \in records : q.at > from} |-> r.amount])

(* Whenever an agent spends, the amount is within the headroom and the     *)
(* capital the views report, everything spent in the 24 hours that end now *)
(* is within max_daily, the agent's own part within its policy's, what the *)
(* market ever took within max_market, the capital still deployed within   *)
(* max_net_exposure, and the collateral that remains covers the withdrawal *)
(* queue: the hourly ring of windows, the running net total and the        *)
(* reservation agree with what really happened, whatever sells,            *)
(* settlements and cap changes came between.                               *)
SpendWithinLimits ==
    [][hist'.spent # hist.spent =>
          LET new == CHOOSE r \in hist'.spent : r \notin hist.spent IN
          /\ new.amount <= MinOf(DailyHeadroom, AvailableCapital)
          /\ SpentIn(hist'.spent, now - DaySeconds) <= global.daily
          /\ SpentIn({r \in hist'.spent : r.agent = new.agent},
                     now - DaySeconds) <= agents[new.agent].daily
          /\ \A k \in Markets : \/ hist'.in[k] = hist.in[k]
                               \/ hist'.in[k] <= global.market
          /\ NetExposure' <= global.net
          /\ vault'.idle >= vault.reserved]_vars

(* The accounts agree with the money.  The net total is the sum of the     *)
(* markets' cost bases; a market's in and out are what was really paid and *)
(* received, and an id's cost and proceeds those of its markets in every   *)
(* core.  A market paid through redeem_many or claim_pool_remainders is    *)
(* exempt (they record nothing), and one that was migrated.  daily_usage   *)
(* reports exactly what was spent since the start it reports, and no       *)
(* market is valued above what it would pay whatever the outcome.          *)
BooksMatchMoney ==
    /\ DailyUsage.amount = SpentIn(hist.spent, DailyUsage.start - 1)
    /\ DailyUsage.amount
         = SumFunction([a \in Agents |-> AgentDailyUsage(a).amount])
    /\ \A id \in Ids, kind \in {"yes", "no", "void"} :
          mkt[Core(id)].status = "open"
          => MarketValuation(id).floor
                <= FloorValue([mkt[Core(id)] EXCEPT !.status = kind])
    /\ NetExposure = SumFunction([k \in Markets |-> CostBasis(book.net[k])])
    /\ \A k \in Markets \ (hist.batched \cup hist.migrated) :
          book.net[k] = [in |-> hist.in[k], out |-> hist.out[k] + hist.fees[k]]
    /\ \A i \in Ids :
          /\ book.pnl[i].cost = SumFunction([c \in Cores |-> hist.in[<<c, i>>]])
          /\ (\A c \in Cores : <<c, i>> \notin hist.batched)
             => book.pnl[i].proceeds
                    = SumFunction([c \in Cores |-> hist.out[<<c, i>>]])

(* redeem_many and claim_pool_remainders hold to the same promise.         *)
EveryReturnRecorded ==
    \A k \in Markets \ hist.migrated :
        book.net[k].out = hist.out[k] + hist.fees[k]

(* nav() misses nothing the treasury put money into: the index and its     *)
(* reverse map agree, every market in which the treasury holds shares or   *)
(* an unclaimed pool is listed, in the core it belongs to, and every core  *)
(* listed is current or reachable through the legacy entrypoints.          *)
IndexCoversHoldings ==
    /\ \A k \in Markets :
          /\ book.slot[k] # 0 => /\ book.slot[k] \in 1 .. OpenMarketCount
                                /\ OpenMarketAt(book.slot[k]) = k
                                /\ k[1] \in legacy \cup {global.core}
          /\ Holds(mkt[k]) /\ k \notin hist.gifts => book.slot[k] # 0
    /\ \A i \in 1 .. OpenMarketCount : book.slot[OpenMarketAt(i)] = i
    /\ OpenMarketCount <= MaxOpenMarkets

Covered == vault.idle + HoldingsValue >= vault.reserved

(* A deposit, a withdrawal request, an emergency exit or a queue payment   *)
(* never lowers what a share of the others is worth (NAV + 1 over supply + *)
(* VIRTUAL_SHARES), as long as holdings and collateral cover the queue.    *)
SharePriceNeverFalls ==
    [][/\ Covered
       /\ \/ vault'.supply # vault.supply \/ vault'.reserved # vault.reserved
       => (ComputeNav' + VirtualAssets) * (vault.supply + VirtualShares)
            >= (ComputeNav + VirtualAssets) * (vault'.supply + VirtualShares)
      ]_vars

(* Every share has an owner but the dead ones of the first mint, and the   *)
(* collateral reserved is what the tickets from head to tail are owed;     *)
(* outside that range there is none.                                       *)
VaultBooks ==
    /\ TotalShares > 0 =>
          TotalShares = VirtualShares
                        + SumFunction([o \in Owners |-> SharesOf(o)])
    /\ \A i \in 1 .. MaxTickets : WithdrawTicket(i) # None <=> i \in QueueBounds
    /\ QueueReserved
         = SumFunction([i \in QueueBounds |-> WithdrawTicket(i).remaining])

(* The results of the markets that ended in the last window_days days, as  *)
(* the money says.                                                         *)
WindowResult ==
    SumFunction([d \in {e \in DOMAIN hist.results : e > Day(now) - stop.days}
                 |-> hist.results[d]])

Unblurred == \A d \in hist.blurred : d <= Day(now) - stop.days

(* What drawdown_status reports is what those markets lost or won.         *)
DrawdownIsTrue ==
    /\ Unblurred => DrawdownStatus.pnl = WindowResult
    /\ DrawdownStatus.tripped => stop.paused

(* The stop trips when, and only when, the end of a market finds the loss  *)
(* of the window past the maximum, and is then unacknowledged; while it is *)
(* down nothing is spent, and only an acknowledged one goes up.            *)
DrawdownDecides ==
    LET tripped == DrawdownStatus.tripped IN
    /\ hist'.ended # hist.ended /\ Unblurred' /\ WindowResult' < -stop.max
       => tripped'
    /\ ~tripped /\ tripped'
       => /\ hist'.ended # hist.ended /\ ~stop'.acked
          /\ Unblurred' => WindowResult' < -stop.max
    /\ tripped => hist'.spent = hist.spent /\ (tripped' \/ stop.acked)

(* The drawdown stop, from try_realize and check_drawdown to set_paused,   *)
(* decides on the money: each market counts once, on the day it ended, by  *)
(* what it really paid and cost, whatever days the ring skipped or reused, *)
(* whoever called and however late; a loss past the maximum trips it, and  *)
(* nothing less does.  Exempt while they are in the window are the days on *)
(* which a market ended that a batch call had paid, or whose id a second   *)
(* core had used: there the code counts a loss that was none, or none.     *)
DrawdownGuards == []DrawdownIsTrue /\ [][DrawdownDecides]_vars

-----------------------------------------------------------------------------
(* The inductive invariants of TreasuryProofs.                             *)

MarketType ==
    [status : {"none", "open", "yes", "no", "void"}, close : Int,
     reserve : [Outcomes -> Nat], pos : [Outcomes -> Nat], lp : BOOLEAN,
     claimed : BOOLEAN, lpFees : Nat, fees : Nat, closed : BOOLEAN]

VaultType ==
    [idle : Int, supply : Nat, shares : [Owners -> Nat],
     wallet : [Owners -> Int], reserved : Int, head : Nat, tail : Nat,
     ticket : [1 .. MaxTickets -> Tickets \cup {None}]]

StateTypes ==
    /\ mkt \in [Markets -> MarketType]
    /\ vault \in VaultType
    /\ {"at", "slot"} \subseteq DOMAIN book
    /\ book.at \in Seq(Markets) /\ book.slot \in [Markets -> Nat]
    /\ "gifts" \in DOMAIN hist

(* Before the first mint there is no share at all, and the queue runs from *)
(* head to tail.                                                           *)
VaultInv ==
    /\ VaultBooks
    /\ TotalShares = 0 => \A o \in Owners : SharesOf(o) = 0
    /\ vault.head >= 1 /\ vault.head <= vault.tail
    /\ vault.tail <= MaxTickets + 1

TreasuryInv == GovInv /\ StateTypes /\ VaultInv /\ IndexCoversHoldings

(* The accounts, the history and the stop.                                 *)
MoneyTypes ==
    /\ {"window", "agentWindow", "exposure", "net", "netTotal", "pnl",
        "realized", "days", "creations"} \subseteq DOMAIN book
    /\ DOMAIN book.realized = Ids
    /\ book.exposure \in [Markets -> [amount : Int, open : BOOLEAN]]
    /\ book.net \in [Markets -> [in : Int, out : Int]] /\ book.netTotal \in Int
    /\ book.pnl \in [Ids -> [cost : Int, proceeds : Int, realized : BOOLEAN]]
    /\ {"spent", "in", "out", "fees", "results", "ended", "blurred", "batched",
        "migrated"} \subseteq DOMAIN hist
    /\ hist.ended \subseteq Markets
    /\ {hist.in, hist.out, hist.fees} \subseteq [Markets -> Int]
    /\ hist.results \in [0 .. Day(MaxTime) -> Int]
    /\ {"paused", "admin", "tripped", "acked", "max", "days"}
          \subseteq DOMAIN stop
    /\ stop.days \in 1 .. 30
    /\ {"set", "enabled", "cap", "principal", "supplied", "aside"}
          \subseteq DOMAIN yield
    /\ yield.principal \in Int /\ {yield.supplied, yield.aside} \subseteq Nat
    /\ now <= MaxTime

(* The history numbers what was spent, so that no record repeats.          *)
SpendingNumbered ==
    /\ IsFiniteSet(hist.spent)
    /\ hist.spent \subseteq [at : Nat, agent : Agents, amount : Nat, n : Nat]
    /\ \A r \in hist.spent : r.at <= now /\ r.n < Cardinality(hist.spent)

SpentByHour(records) ==
    [p \in Int |-> SumFunction([r \in {q \in records : Hour(q.at) = p}
                                |-> r.amount])]

Holding(w, records) ==
    /\ Counts(w, Buckets, SpentByHour(records))
    /\ w.head <= Hour(now) /\ \A r \in records : Hour(r.at) <= w.head

SpentBy(a) == {r \in hist.spent : r.agent = a}

(* Every bucket of a usage window holds what was spent in its hour.        *)
WindowsAgree ==
    /\ Holding(book.window, hist.spent)
    /\ DOMAIN book.agentWindow = Agents
    /\ \A a \in Agents : Holding(book.agentWindow[a], SpentBy(a))

ResultOf == [d \in Int |-> IF d \in DOMAIN hist.results THEN hist.results[d]
                           ELSE 0]

(* Every bucket of the PnL window holds the results of its day, unless the *)
(* day is blurred, and what the books call realized has ended.             *)
ResultsAgree ==
    /\ CountsExcept(book.days, stop.days, ResultOf, hist.blurred)
    /\ book.days.head <= Day(now) /\ hist.blurred \subseteq 0 .. Day(now)
    /\ \A d \in DOMAIN hist.results \ hist.blurred :
          d > book.days.head => hist.results[d] = 0
    /\ \A i \in Ids : book.pnl[i].realized
                        <=> \E c \in Cores : <<c, i>> \in hist.ended

(* The sums of the books, and the money of each market and id.             *)
AccountsAgree ==
    /\ NetExposure = SumFunction([k \in Markets |-> CostBasis(book.net[k])])
    /\ \A k \in Markets : book.exposure[k].amount = hist.in[k]
    /\ \A k \in Markets \ (hist.batched \cup hist.migrated) :
          book.net[k] = [in |-> hist.in[k], out |-> hist.out[k] + hist.fees[k]]
    /\ \A i \in Ids :
          /\ book.pnl[i].cost = SumFunction([c \in Cores |-> hist.in[<<c, i>>]])
          /\ (\A c \in Cores : <<c, i>> \notin hist.batched)
             => book.pnl[i].proceeds
                    = SumFunction([c \in Cores |-> hist.out[<<c, i>>]])

MoneyInv ==
    /\ MoneyTypes /\ SpendingNumbered /\ WindowsAgree /\ ResultsAgree
    /\ AccountsAgree
    /\ stop.tripped => stop.paused
=============================================================================
