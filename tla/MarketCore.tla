----------------------------- MODULE MarketCore -----------------------------
(***************************************************************************)
(* contracts/market-core: binary prediction markets, each a fixed-product  *)
(* pool over complete sets of YES and NO shares, with trading until close, *)
(* settlement by the resolver, redemption, fees and a close-out sweep.     *)
(*                                                                         *)
(* A Soroban invocation is atomic: an Err or a panic rolls every write     *)
(* back, so each entrypoint is one action, enabled exactly when the call   *)
(* returns Ok.  The token contract and the wiring peers are external.      *)
(* Storage TTLs, events and hashes are left out.  Entries created before   *)
(* SettleState, FeeTerms or the oracle existed cannot come from            *)
(* create_market and are not represented.                                  *)
(***************************************************************************)
EXTENDS FpmmMath, FiniteSets, FiniteSetsExt

CONSTANTS
    Holders,            \* addresses that create, trade and redeem
    Treasuries,         \* addresses that may be the fee treasury
    Resolvers,          \* addresses that may hold the resolver role
    Peers,              \* addresses whose market_core() is this contract
    NoAddr,             \* "no address": nothing proposed
    MaxMarkets,         \* bound: markets ever created
    MaxTime,            \* bound: the last ledger timestamp
    MaxFees,            \* bound: fees one market accrues before trading stops
    MaxSets,            \* MAX_SETS, the contract's own bound on market size
    MinSeed,            \* MIN_SEED
    MaxBatch,           \* MAX_BATCH
    OracleRing,         \* ORACLE_RING, slots of the observation ring
    \* the values callers and the admin choose from
    SeedChoices, ProbChoices, CloseChoices, AmountChoices, LimitChoices,
    DeadlineChoices, PauseChoices, FeeChoices, ShareChoices, HorizonChoices,
    BreakerChoices, NewTreasuries, NewResolvers

MarketIds == 0 .. MaxMarkets - 1

ASSUME MarketCoreAssumption ==
    /\ MaxMarkets \in Nat /\ MaxTime \in Nat /\ MaxFees \in Nat
    /\ MaxSets \in Nat /\ MinSeed \in Nat \ {0}
    /\ MaxBatch \in Nat \ {0} /\ OracleRing \in Nat \ {0}
    /\ IsFiniteSet(Holders)
    /\ NoAddr \notin Treasuries \cup Resolvers
    /\ Treasuries # {} /\ Resolvers # {}
    /\ SeedChoices \subseteq Nat /\ ProbChoices \subseteq Nat
    /\ CloseChoices \subseteq Nat /\ AmountChoices \subseteq Nat
    /\ LimitChoices \subseteq Nat /\ DeadlineChoices \subseteq Nat
    /\ PauseChoices \subseteq BOOLEAN
    /\ NewTreasuries \subseteq Treasuries /\ NewResolvers \subseteq Resolvers
    /\ FeeChoices \subseteq FeeRange /\ ShareChoices \subseteq 0 .. BPS
    /\ HorizonChoices \subseteq Nat
    /\ BreakerChoices \subseteq [impact : 0 .. BPS, band : 0 .. BPS]

VARIABLES
    now,        \* ledger timestamp; every ledger has its own
    config,     \* instance storage: pause flag, treasury, resolver, defaults
    pending,    \* proposed treasury and resolver
    nextId,     \* NextId
    market,     \* Market(id)
    terms,      \* FeeTerms(id) and Breaker(id), frozen at creation
    settle,     \* Settle(id)
    lpFees,     \* LpFees(id)
    pos,        \* Position(id, holder)
    oracle,     \* Oracle(id) and its Obs(id, slot) ring
    band,       \* Band(id): ledger and reference price of the price band
    held,       \* collateral paid into minus paid out of each market
    feesPaid    \* protocol fees each treasury was paid from each market

vars == <<now, config, pending, nextId, market, terms, settle, lpFees, pos,
          oracle, band, held, feesPaid>>

Zero == [o \in Outcomes |-> 0]

Exists(id) == market[id].status # "none"

(* settlement(): the market is resolved or void.                           *)
Final(id) == market[id].status \in {"yes", "no", "void"}

Price(id) == PriceYesBps(market[id].reserve)

-----------------------------------------------------------------------------
(* The price accumulator.                                                  *)

(* Mutant: no observation is written.                                      *)
AccumulateUnrecorded(st) ==
    [st EXCEPT !.cum = @ + st.lastPrice * (now - st.lastTs), !.lastTs = now]

(* accumulate(): advance to the current ledger at the price that held since *)
(* the last trade and write one observation; nothing in the same ledger.   *)
Accumulate(st) ==
    IF now <= st.lastTs THEN st
    ELSE LET cum  == st.cum + st.lastPrice * (now - st.lastTs)
             slot == (st.index + 1) % OracleRing
         IN  [st EXCEPT !.cum = cum, !.lastTs = now, !.index = slot,
                        !.count = MinOf(@ + 1, OracleRing),
                        !.obs[slot] = [ts |-> now, cum |-> cum]]

AfterTrade(st, price) == [Accumulate(st) EXCEPT !.lastPrice = price]

(* The written slots of the ring, oldest first in the code's scan.         *)
WrittenSlots(st) ==
    LET oldest == (st.index + OracleRing + 1 - st.count) % OracleRing
    IN  {(oldest + k) % OracleRing : k \in 0 .. st.count - 1}

Points(st) == {st.obs[s] : s \in WrittenSlots(st)}

TooOld(st, t) == t < st.lastTs /\ \A p \in Points(st) : p.ts > t

(* observe_at(): the accumulator as of time t, on the chord between the    *)
(* observations around t, or extended at the last price.                   *)
ObserveAt(st, t) ==
    IF t >= st.lastTs THEN st.cum + st.lastPrice * (t - st.lastTs)
    ELSE LET live == [ts |-> st.lastTs, cum |-> st.cum]
             a == CHOOSE p \in Points(st) :
                     /\ p.ts <= t
                     /\ \A p2 \in Points(st) : p2.ts <= t => p2.ts <= p.ts
             b == CHOOSE p \in Points(st) \cup {live} :
                     /\ p.ts >= t
                     /\ \A p2 \in Points(st) \cup {live} :
                            p2.ts >= t => p2.ts >= p.ts
         IN  IF a.ts = t THEN a.cum
             ELSE IF b.ts = t THEN b.cum
             ELSE a.cum + ((b.cum - a.cum) * (t - a.ts)) \div (b.ts - a.ts)

-----------------------------------------------------------------------------
(* Circuit breakers.                                                       *)

(* band_ref(): the price at the ledger's first trade.                      *)
BandRef(id) == IF band[id].ledger = now THEN band[id].ref ELSE Price(id)

(* check_breakers() for a trade that leaves reserves r.                    *)
BreakersPass(id, r) ==
    LET b == terms[id].breaker
        post == PriceYesBps(r)
    IN  /\ b.impact > 0 => AbsDiff(post, Price(id)) <= b.impact
        /\ b.band > 0 => AbsDiff(post, BandRef(id)) <= b.band

(* Mutant: every trade moves the reference to the price it found.          *)
BandMoves(id) ==
    IF terms[id].breaker.band > 0 THEN [ledger |-> now, ref |-> Price(id)]
    ELSE band[id]

BandAfter(id) ==
    IF terms[id].breaker.band > 0 THEN [ledger |-> now, ref |-> BandRef(id)]
    ELSE band[id]

-----------------------------------------------------------------------------
(* Creation and trading.                                                   *)

CreateMarket(creator, close, seed, prob) ==
    LET id == nextId
        r  == SeedReserves(seed, prob)
        c  == CreatorShares(seed, prob)
    IN  /\ ~config.paused
        /\ close > now
        /\ seed \in MinSeed .. MaxSets
        /\ SeedOk(seed, prob)
        /\ id < MaxMarkets
        /\ nextId' = id + 1
        /\ market' = [market EXCEPT ![id] =
              [creator |-> creator, close |-> close, feeBps |-> config.feeBps,
               status |-> "open", reserve |-> r, sets |-> seed, fees |-> 0,
               lpClaimed |-> FALSE]]
        /\ terms' = [terms EXCEPT ![id] =
              [recipient |-> config.treasury, share |-> config.share,
               breaker |-> config.breaker]]
        /\ settle' = [settle EXCEPT ![id] =
              [outstanding |-> c, finalizedAt |-> 0,
               horizon |-> config.horizon, paidOut |-> 0, closed |-> FALSE]]
        /\ pos' = [pos EXCEPT ![id][creator] = c]
        /\ oracle' = [oracle EXCEPT ![id] =
              [@ EXCEPT !.lastTs = now, !.lastPrice = PriceYesBps(r),
                        !.count = 1, !.obs[0] = [ts |-> now, cum |-> 0]]]
        /\ held' = [held EXCEPT ![id] = @ + seed]
        /\ UNCHANGED <<now, config, pending, lpFees, band, feesPaid>>

Tradable(id) ==
    /\ ~config.paused
    /\ market[id].status = "open"
    /\ now < market[id].close

(* accrue_fees() and the part of a trade both directions share: the pool's *)
(* reserves become r, the sets in circulation change by dSets, the holder's *)
(* shares of o by dShares and the contract's collateral by dHeld.          *)
Trade(h, id, o, r, fee, dSets, dShares, dHeld) ==
    LET share == terms[id].share IN
    /\ market[id].fees + lpFees[id] + fee <= MaxFees
    /\ market' = [market EXCEPT ![id].reserve = r,
                                ![id].sets = @ + dSets,
                                ![id].fees = @ + ProtocolFee(fee, share)]
    /\ lpFees' = [lpFees EXCEPT ![id] = @ + LpFee(fee, share)]
    /\ pos' = [pos EXCEPT ![id][h][o] = @ + dShares]
    /\ settle' = [settle EXCEPT ![id].outstanding[o] = @ + dShares]
    /\ oracle' = [oracle EXCEPT ![id] = AfterTrade(@, PriceYesBps(r))]
    /\ band' = [band EXCEPT ![id] = BandAfter(id)]
    /\ held' = [held EXCEPT ![id] = @ + dHeld]
    /\ UNCHANGED <<now, config, pending, nextId, terms, feesPaid>>

(* do_buy(); limit 0 is "no limit".                                        *)
DoBuy(h, id, o, amt, minOut, limit) ==
    LET m == market[id]
        q == CalcBuy(m.reserve[o], m.reserve[Other(o)], amt, m.feeBps)
        r == ReservesWith(o, q.newBought, q.newOther)
    IN  /\ limit <= BPS
        /\ Tradable(id)
        /\ BuyOk(m.reserve[o], m.reserve[Other(o)], amt, m.feeBps)
        /\ q.shares >= minOut
        /\ limit # 0 => BuyWithinLimit(amt, q.shares, limit)
        /\ BreakersPass(id, r)
        /\ m.sets + q.net <= MaxSets
        /\ Trade(h, id, o, r, q.fee, q.net, q.shares, amt)

Buy(h, id, o, amt, minOut) == DoBuy(h, id, o, amt, minOut, 0)

BuyV2(h, id, o, amt, minOut, limit, deadline) ==
    now <= deadline /\ DoBuy(h, id, o, amt, minOut, limit)

(* do_sell(): the pool burns q.gross sets and pays out, keeping the fee.   *)
DoSell(h, id, o, out, maxIn, limit) ==
    LET m == market[id]
        q == CalcSell(m.reserve[o], m.reserve[Other(o)], out, m.feeBps)
        r == ReservesWith(o, q.newSold, q.newOther)
    IN  /\ Tradable(id)
        /\ SellOk(m.reserve[o], m.reserve[Other(o)], out, m.feeBps)
        /\ q.shares <= maxIn
        /\ limit # 0 => SellWithinLimit(out, q.shares, limit)
        /\ BreakersPass(id, r)
        /\ pos[id][h][o] >= q.shares
        /\ Trade(h, id, o, r, q.fee, -q.gross, -q.shares, -out)

Sell(h, id, o, out, maxIn) == DoSell(h, id, o, out, maxIn, 0)

SellV2(h, id, o, out, maxIn, limit, deadline) ==
    now <= deadline /\ DoSell(h, id, o, out, maxIn, limit)
-----------------------------------------------------------------------------
(* Settlement by the resolver r, which must hold the role now.             *)

Finalize(id, kind) ==
    /\ market' = [market EXCEPT ![id].status = kind]
    /\ settle' = [settle EXCEPT ![id].finalizedAt = now]
    /\ UNCHANGED <<now, config, pending, nextId, terms, lpFees, pos, oracle,
                   band, held, feesPaid>>

Resolve(r, id, o) ==
    /\ r = config.resolver
    /\ market[id].status = "open"
    /\ now >= market[id].close
    /\ Finalize(id, o)

VoidMarket(r, id) ==
    /\ r = config.resolver
    /\ market[id].status = "open"
    /\ Finalize(id, "void")

-----------------------------------------------------------------------------
(* Redemption.  The batch entrypoints apply to each market they name what   *)
(* the single ones apply to one, skipping the markets that cannot pay.     *)

Payout(id, h) == SettleValue(market[id].status, pos[id][h])

(* Mutant: the closed flag is not looked at.                               *)
RedeemableIfClosed(h, id) == Final(id) /\ pos[id][h] # Zero

Redeemable(h, id) ==
    Final(id) /\ ~settle[id].closed /\ pos[id][h] # Zero

RedeemAll(h, ids) ==
    /\ pos' = [id \in MarketIds |->
                  IF id \in ids THEN [pos[id] EXCEPT ![h] = Zero] ELSE pos[id]]
    /\ settle' = [id \in MarketIds |->
          IF id \in ids
          THEN [settle[id] EXCEPT
                  !.outstanding = [o \in Outcomes |-> @[o] - pos[id][h][o]],
                  !.paidOut = @ + Payout(id, h)]
          ELSE settle[id]]
    /\ held' = [id \in MarketIds |->
                  IF id \in ids THEN held[id] - Payout(id, h) ELSE held[id]]
    /\ UNCHANGED <<now, config, pending, nextId, market, terms, lpFees,
                   oracle, band, feesPaid>>

Redeem(h, id) == Redeemable(h, id) /\ RedeemAll(h, {id})

(* validate_batch(); ids must ascend strictly, so they are a set.          *)
BatchOk(ids) == Cardinality(ids) \in 1 .. MaxBatch

RedeemMany(h, ids) ==
    /\ BatchOk(ids)
    /\ RedeemAll(h, {id \in ids : Redeemable(h, id)})

PoolValue(id) == SettleValue(market[id].status, market[id].reserve)

RemainderPayout(id) == PoolValue(id) + lpFees[id]

Claimable(c, id) ==
    /\ Final(id) /\ market[id].creator = c
    /\ ~settle[id].closed /\ ~market[id].lpClaimed

ClaimAll(ids) ==
    /\ market' = [id \in MarketIds |->
          IF id \in ids
          THEN [market[id] EXCEPT !.reserve = Zero, !.lpClaimed = TRUE]
          ELSE market[id]]
    /\ lpFees' = [id \in MarketIds |-> IF id \in ids THEN 0 ELSE lpFees[id]]
    /\ settle' = [id \in MarketIds |->
          IF id \in ids
          THEN [settle[id] EXCEPT !.paidOut = @ + RemainderPayout(id)]
          ELSE settle[id]]
    /\ held' = [id \in MarketIds |->
          IF id \in ids THEN held[id] - RemainderPayout(id) ELSE held[id]]
    /\ UNCHANGED <<now, config, pending, nextId, terms, pos, oracle, band,
                   feesPaid>>

ClaimPoolRemainder(c, id) == Claimable(c, id) /\ ClaimAll({id})

ClaimPoolRemainders(c, ids) ==
    /\ BatchOk(ids)
    /\ ClaimAll({id \in ids : Claimable(c, id)})

-----------------------------------------------------------------------------
(* finalize_market(): sweep what is left to the treasury of the moment.    *)

Unclaimed(id) == SettleUpper(market[id].status, settle[id].outstanding)

LpClaim(id) == IF market[id].lpClaimed THEN 0 ELSE PoolValue(id)

Dust(id) ==
    market[id].sets - settle[id].paidOut - Unclaimed(id) - LpClaim(id)

Swept(id) ==
    Dust(id) + Unclaimed(id) + LpClaim(id) + market[id].fees + lpFees[id]

RedeemDeadline(id) == settle[id].finalizedAt + settle[id].horizon

(* The token refuses a negative transfer, which reverts the call.          *)
FinalizeMarket(id) ==
    /\ Final(id)
    /\ ~settle[id].closed
    /\ now >= RedeemDeadline(id)
    /\ Swept(id) >= 0
    /\ market' = [market EXCEPT ![id].reserve = Zero,
                                ![id].lpClaimed = TRUE, ![id].fees = 0]
    /\ settle' = [settle EXCEPT ![id].outstanding = Zero, ![id].closed = TRUE]
    /\ lpFees' = [lpFees EXCEPT ![id] = 0]
    /\ held' = [held EXCEPT ![id] = @ - Swept(id)]
    /\ feesPaid' = [feesPaid EXCEPT ![id][config.treasury] =
                       @ + market[id].fees]
    /\ UNCHANGED <<now, config, pending, nextId, terms, pos, oracle, band>>

(* Mutant: the LP fees are not reset when they are paid.                   *)
ClaimLpFeesAgain(c, id) ==
    /\ market[id].creator = c
    /\ lpFees[id] > 0
    /\ held' = [held EXCEPT ![id] = @ - lpFees[id]]
    /\ UNCHANGED <<now, config, pending, nextId, market, terms, settle, pos,
                   lpFees, oracle, band, feesPaid>>

ClaimLpFees(c, id) ==
    /\ market[id].creator = c
    /\ lpFees[id] > 0
    /\ lpFees' = [lpFees EXCEPT ![id] = 0]
    /\ held' = [held EXCEPT ![id] = @ - lpFees[id]]
    /\ UNCHANGED <<now, config, pending, nextId, market, terms, settle, pos,
                   oracle, band, feesPaid>>

(* Mutant: the fees go to the treasury of the moment.                      *)
SweepFeesToCurrent(id) ==
    /\ market[id].fees > 0
    /\ market' = [market EXCEPT ![id].fees = 0]
    /\ held' = [held EXCEPT ![id] = @ - market[id].fees]
    /\ feesPaid' = [feesPaid EXCEPT ![id][config.treasury] =
                       @ + market[id].fees]
    /\ UNCHANGED <<now, config, pending, nextId, terms, settle, lpFees, pos,
                   oracle, band>>

SweepFees(id) ==
    /\ market[id].fees > 0
    /\ market' = [market EXCEPT ![id].fees = 0]
    /\ held' = [held EXCEPT ![id] = @ - market[id].fees]
    /\ feesPaid' = [feesPaid EXCEPT ![id][terms[id].recipient] =
                       @ + market[id].fees]
    /\ UNCHANGED <<now, config, pending, nextId, terms, settle, lpFees, pos,
                   oracle, band>>

-----------------------------------------------------------------------------
(* Transfers of shares and of the LP role: allowed in every status.        *)

(* Mutant: the recipient's shares are overwritten.                         *)
TransferOverwrites(from, to, id, o, amt) ==
    /\ amt > 0 /\ from # to
    /\ Exists(id)
    /\ pos[id][from][o] >= amt
    /\ pos' = [pos EXCEPT ![id][from][o] = @ - amt, ![id][to][o] = amt]
    /\ UNCHANGED <<now, config, pending, nextId, market, terms, settle, lpFees,
                   oracle, band, held, feesPaid>>

TransferPosition(from, to, id, o, amt) ==
    /\ amt > 0 /\ from # to
    /\ Exists(id)
    /\ pos[id][from][o] >= amt
    /\ pos' = [pos EXCEPT ![id][from][o] = @ - amt, ![id][to][o] = @ + amt]
    /\ UNCHANGED <<now, config, pending, nextId, market, terms, settle, lpFees,
                   oracle, band, held, feesPaid>>

TransferLp(id, to) ==
    /\ Exists(id)
    /\ ~market[id].lpClaimed
    /\ to # market[id].creator
    /\ market' = [market EXCEPT ![id].creator = to]
    /\ UNCHANGED <<now, config, pending, nextId, terms, settle, lpFees, pos,
                   oracle, band, held, feesPaid>>

-----------------------------------------------------------------------------
(* Administration: every one of these needs the admin's signature, but for *)
(* the acceptance, which needs the proposed address's.                     *)

Configure(c) ==
    /\ config' = c
    /\ UNCHANGED <<now, pending, nextId, market, terms, settle, lpFees, pos,
                   oracle, band, held, feesPaid>>

SetPaused(b) == Configure([config EXCEPT !.paused = b])

SetDefaultFeeBps(f) == Configure([config EXCEPT !.feeBps = f])

SetProtocolFeeShareBps(s) == Configure([config EXCEPT !.share = s])

SetDefaultRedeemHorizon(s) == Configure([config EXCEPT !.horizon = s])

(* A band below the impact cap could lock trading and is rejected.         *)
SetDefaultBreaker(b) ==
    /\ ~(b.impact > 0 /\ b.band > 0 /\ b.band < b.impact)
    /\ Configure([config EXCEPT !.breaker = b])

Propose(role, a) ==
    /\ pending' = [pending EXCEPT ![role] = a]
    /\ UNCHANGED <<now, config, nextId, market, terms, settle, lpFees, pos,
                   oracle, band, held, feesPaid>>

Accept(role) ==
    /\ pending[role] # NoAddr
    /\ pending[role] \in Peers
    /\ config' = [config EXCEPT ![role] = pending[role]]
    /\ pending' = [pending EXCEPT ![role] = NoAddr]
    /\ UNCHANGED <<now, nextId, market, terms, settle, lpFees, pos, oracle,
                   band, held, feesPaid>>

ProposeTreasury(a) == Propose("treasury", a)
AcceptTreasury == Accept("treasury")
ProposeResolver(a) == Propose("resolver", a)
AcceptResolver == Accept("resolver")

(* The next ledger closes.                                                 *)
Tick ==
    /\ now < MaxTime
    /\ now' = now + 1
    /\ UNCHANGED <<config, pending, nextId, market, terms, settle, lpFees, pos,
                   oracle, band, held, feesPaid>>
-----------------------------------------------------------------------------
NoMarket ==
    [creator |-> NoAddr, close |-> 0, feeBps |-> 0, status |-> "none",
     reserve |-> Zero, sets |-> 0, fees |-> 0, lpClaimed |-> FALSE]

NoBreaker == [impact |-> 0, band |-> 0]

NoTerms == [recipient |-> NoAddr, share |-> 0, breaker |-> NoBreaker]

NoSettle ==
    [outstanding |-> Zero, finalizedAt |-> 0, horizon |-> 0, paidOut |-> 0,
     closed |-> FALSE]

NoOracle ==
    [cum |-> 0, lastTs |-> 0, lastPrice |-> 0, index |-> 0, count |-> 0,
     obs |-> [s \in 0 .. OracleRing - 1 |-> [ts |-> 0, cum |-> 0]]]

(* The constructor, with any of the defaults a deployer may choose.        *)
Init ==
    /\ now = 0
    /\ config \in [paused : {FALSE}, feeBps : FeeChoices, share : ShareChoices,
                    horizon : HorizonChoices, breaker : {NoBreaker},
                    treasury : Treasuries, resolver : Resolvers]
    /\ pending = [treasury |-> NoAddr, resolver |-> NoAddr]
    /\ nextId = 0
    /\ market = [id \in MarketIds |-> NoMarket]
    /\ terms = [id \in MarketIds |-> NoTerms]
    /\ settle = [id \in MarketIds |-> NoSettle]
    /\ lpFees = [id \in MarketIds |-> 0]
    /\ pos = [id \in MarketIds |-> [h \in Holders |-> Zero]]
    /\ oracle = [id \in MarketIds |-> NoOracle]
    /\ band = [id \in MarketIds |-> [ledger |-> -1, ref |-> 0]]
    /\ held = [id \in MarketIds |-> 0]
    /\ feesPaid = [id \in MarketIds |-> [t \in Treasuries |-> 0]]

Next ==
    \/ \E h \in Holders, t \in CloseChoices, s \in SeedChoices,
          p \in ProbChoices : CreateMarket(h, t, s, p)
    \/ \E h \in Holders, id \in MarketIds, o \in Outcomes,
          a \in AmountChoices, l \in LimitChoices, d \in DeadlineChoices :
          \/ Buy(h, id, o, a, 0)
          \/ BuyV2(h, id, o, a, 0, l, d)
          \/ Sell(h, id, o, a, MaxSets)
          \/ SellV2(h, id, o, a, MaxSets, l, d)
    \/ \E r \in Resolvers, id \in MarketIds :
          \/ \E o \in Outcomes : Resolve(r, id, o)
          \/ VoidMarket(r, id)
    \/ \E h \in Holders, id \in MarketIds :
          \/ Redeem(h, id)
          \/ ClaimPoolRemainder(h, id)
          \/ ClaimLpFees(h, id)
          \/ TransferLp(id, h)
    \/ \E h \in Holders, ids \in SUBSET MarketIds :
          RedeemMany(h, ids) \/ ClaimPoolRemainders(h, ids)
    \/ \E id \in MarketIds : FinalizeMarket(id) \/ SweepFees(id)
    \/ \E from, to \in Holders, id \in MarketIds, o \in Outcomes,
          a \in AmountChoices : TransferPosition(from, to, id, o, a)
    \/ \E b \in PauseChoices : SetPaused(b)
    \/ \E f \in FeeChoices : SetDefaultFeeBps(f)
    \/ \E s \in ShareChoices : SetProtocolFeeShareBps(s)
    \/ \E s \in HorizonChoices : SetDefaultRedeemHorizon(s)
    \/ \E b \in BreakerChoices : SetDefaultBreaker(b)
    \/ \E a \in NewTreasuries : ProposeTreasury(a)
    \/ \E a \in NewResolvers : ProposeResolver(a)
    \/ AcceptTreasury \/ AcceptResolver
    \/ Tick

Spec == Init /\ [][Next]_vars

-----------------------------------------------------------------------------
(* Properties.                                                             *)

MarketType ==
    [creator : Holders \cup {NoAddr}, close : Nat, feeBps : FeeRange,
     status : {"none", "open", "yes", "no", "void"},
     reserve : [Outcomes -> Nat], sets : Int, fees : Nat, lpClaimed : BOOLEAN]

SettleType ==
    [outstanding : [Outcomes -> Int], finalizedAt : Nat, horizon : Nat,
     paidOut : Int, closed : BOOLEAN]

TermsType ==
    [recipient : Treasuries \cup {NoAddr}, share : 0 .. BPS,
     breaker : [impact : 0 .. BPS, band : 0 .. BPS]]

ConfigType ==
    [paused : BOOLEAN, feeBps : FeeChoices, share : ShareChoices,
     horizon : HorizonChoices, breaker : BreakerChoices \cup {NoBreaker},
     treasury : Treasuries, resolver : Resolvers]

PendingType ==
    [treasury : Treasuries \cup {NoAddr}, resolver : Resolvers \cup {NoAddr}]

(* The shape of the storage entries: reserves, positions and fees never go *)
(* negative, whatever the order of trades, claims and sweeps.              *)
TypeOK ==
    /\ now \in 0 .. MaxTime
    /\ config \in ConfigType
    /\ pending \in PendingType
    /\ nextId \in 0 .. MaxMarkets
    /\ market \in [MarketIds -> MarketType]
    /\ terms \in [MarketIds -> TermsType]
    /\ settle \in [MarketIds -> SettleType]
    /\ lpFees \in [MarketIds -> Nat]
    /\ pos \in [MarketIds -> [Holders -> [Outcomes -> Nat]]]
    /\ held \in [MarketIds -> Int]
    /\ feesPaid \in [MarketIds -> [Treasuries -> Nat]]

(* While a market is open every complete set is backed by one unit of      *)
(* collateral, fees on top, and every share that exists is in the pool or  *)
(* with a holder (debug_assert_share_invariant).                           *)
OpenBacked ==
    \A id \in MarketIds :
        market[id].status = "open" =>
            /\ held[id] = market[id].sets + market[id].fees + lpFees[id]
            /\ \A o \in Outcomes :
                   market[id].reserve[o] + settle[id].outstanding[o]
                       = market[id].sets

(* All shares of o in the positions p of a market's holders.               *)
SharesIn(p, o) == SumFunction([h \in Holders |-> p[h][o]])

Shares(id, o) == SharesIn(pos[id], o)

(* The Settle entry's outstanding counters agree with the positions they   *)
(* summarise until the market is closed out, through trades, transfers and *)
(* single and batch redemptions.                                           *)
OutstandingCountsShares ==
    \A id \in MarketIds, o \in Outcomes :
        ~settle[id].closed => settle[id].outstanding[o] = Shares(id, o)

(* What a final market still owes: every holder, the LP, and both kinds of *)
(* fee.                                                                    *)
Claims(id) ==
    SumFunction([h \in Holders |-> Payout(id, h)])
        + LpClaim(id) + market[id].fees + lpFees[id]

(* No market pays out of another market's collateral, and until it is      *)
(* closed out a final market holds enough for everyone who has yet to      *)
(* redeem or claim, in whatever order they come.                           *)
Solvent ==
    \A id \in MarketIds :
        /\ held[id] >= 0
        /\ Final(id) /\ ~settle[id].closed => held[id] >= Claims(id)

(* Once a market has resolved, and until its redemption deadline, every    *)
(* step pays out exactly the claims it clears: redeem, the batch forms,    *)
(* claim_pool_remainder, claim_lp_fees and sweep_fees neither forfeit nor  *)
(* overpay, and a transfer of shares or of the LP role pays nothing.       *)
PaysWhatItClears ==
    [][\A id \in MarketIds :
         market[id].status \in Outcomes /\ now < RedeemDeadline(id) =>
             held[id] - held'[id] = Claims(id) - Claims(id)']_vars

(* The pool's product of reserves never falls while the market is open, so *)
(* no sequence of buys and sells by several traders drains the pool.       *)
ProductNeverFalls ==
    [][\A id \in MarketIds :
         market[id].status = "open" /\ market'[id].status = "open" =>
             market'[id].reserve.yes * market'[id].reserve.no
                 >= market[id].reserve.yes * market[id].reserve.no]_vars

(* A closed market never pays anyone again (finalize_market: "marks the    *)
(* market closed so nothing can ever pay out again").                      *)
ClosedPaysNothing ==
    [][\A id \in MarketIds :
         settle[id].closed => held'[id] = held[id] /\ settle'[id].closed]_vars

(* The close-out sweep takes exactly the market's remaining collateral     *)
(* (finalize_market: "The swept total is exactly the market's contract     *)
(* balance").                                                              *)
ClosedHoldsNothing ==
    \A id \in MarketIds : settle[id].closed => held[id] = 0

(* However often the treasury is rotated, sweep_fees pays the recipient    *)
(* frozen in FeeTerms when the market was created.                         *)
SweepsReachFrozenRecipient ==
    \A id \in MarketIds, t \in Treasuries :
        ~settle[id].closed /\ t # terms[id].recipient => feesPaid[id][t] = 0

-----------------------------------------------------------------------------
(* The inductive invariant of MarketCoreProofs.                            *)

(* Nothing is recorded for an id that create_market has not handed out.    *)
Fresh ==
    \A id \in MarketIds : id >= nextId =>
        /\ market[id].status = "none" /\ market[id].fees = 0
        /\ ~settle[id].closed
        /\ lpFees[id] = 0 /\ held[id] = 0
        /\ \A t \in Treasuries : feesPaid[id][t] = 0

(* A closed-out market is final and has no fee left for claim_lp_fees or   *)
(* sweep_fees, which do not look at the closed flag, to pay.               *)
ClosedIsDone ==
    \A id \in MarketIds : settle[id].closed =>
        Final(id) /\ market[id].fees = 0 /\ lpFees[id] = 0

Safe == OpenBacked /\ SweepsReachFrozenRecipient /\ Fresh /\ ClosedIsDone

IInv == TypeOK /\ Safe

(* The collateral behind market id's shares, and the shares of o that may  *)
(* still be presented for it: the holders' and the pool's.                 *)
Backing(id) == held[id] - market[id].fees - lpFees[id]

Presentable(id, o) ==
    settle[id].outstanding[o]
        + (IF market[id].lpClaimed THEN 0 ELSE market[id].reserve[o])

(* A resolved market backs each winning share with exactly one unit, a     *)
(* void one every two shares with at least one.                            *)
FinalBacked ==
    \A id \in MarketIds : Final(id) /\ ~settle[id].closed =>
        /\ \A o \in Outcomes : market[id].status = o =>
               Backing(id) = Presentable(id, o)
        /\ market[id].status = "void" =>
               2 * Backing(id) >= Presentable(id, "yes") + Presentable(id, "no")

(* What the sweep would take is there, and the sweep comes after the       *)
(* deadline.                                                               *)
SweepCovered ==
    \A id \in MarketIds :
        /\ ~settle[id].closed => Backing(id) >= market[id].sets - settle[id].paidOut
        /\ settle[id].closed => held[id] >= 0 /\ now >= RedeemDeadline(id)

(* No share exists before its market, and nothing is paid out of an open   *)
(* one.                                                                    *)
StartsWhole ==
    \A id \in MarketIds :
        /\ id >= nextId <=> market[id].status = "none"
        /\ market[id].status = "none" =>
              /\ market[id].sets = 0 /\ settle[id].outstanding = Zero
              /\ \A h \in Holders : pos[id][h] = Zero
        /\ ~Final(id) => settle[id].paidOut = 0 /\ ~market[id].lpClaimed

Ledger ==
    OutstandingCountsShares /\ FinalBacked /\ SweepCovered /\ StartsWhole
=============================================================================
