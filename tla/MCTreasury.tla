----------------------------- MODULE MCTreasury -----------------------------
(***************************************************************************)
(* The treasury for TLC.  A behaviour keeps to one lane, chosen at the     *)
(* start: the concerns that interact are together in a lane, and each lane *)
(* is a subset of the behaviours of Treasury (the gov lane of TreasuryGov, *)
(* with a vault that may be empty or not at every step).                   *)
(***************************************************************************)
EXTENDS Treasury, TLC

CONSTANT Depth      \* the lanes, and the most steps a behaviour of each takes
VARIABLES lane, step

Caps(t, m, d, n, core, collateral) ==
    [trade |-> t, market |-> m, daily |-> d, net |-> n, core |-> core,
     collateral |-> collateral]

TheGenesis == Caps(20, 60, 90, 110, "core1", "usdc")

TheConfigs ==
    {TheGenesis, Caps(10, 60, 90, 110, "core1", "usdc"),
     Caps(20, 60, 90, 110, "core2", "usdc"), Caps(10, 60, 90, 110, "core1", "eurc")}

Policy(roles, t, d) ==
    [roles |-> roles, trade |-> t, daily |-> d, active |-> TRUE]

ThePolicies ==
    {Policy({"trade"}, 20, 30), Policy({"trade", "settle"}, 10, 30)}

Band(buy, sell) ==
    [buy |-> buy, sell |-> sell, impact |-> 5000, slippage |-> 200]

TheBand == Band(9500, 500)

TheBands == {Band(9000, 500), Band(9500, 400)}

Creation(seed, window) ==
    [seed |-> seed, count |-> 2, window |-> window, minHorizon |-> 1,
     maxHorizon |-> 4, categories |-> {"crypto"}]

TheCreation == Creation(40, 4)

TheCreations == {Creation(20, 4), Creation(20, 5)}

TheDrawdown == [max |-> 10, days |-> 1]

OtherDrawdowns == {[max |-> 5, days |-> 2]}

TheDepth == [gov |-> 10, share |-> 9, risk |-> 12, stop |-> 15, core |-> 12,
             fee |-> 10, yield |-> 13]

BatchDepth == [risk |-> 8]

AgentSymmetry == Permutations(Agents \ {FirstAgent})

(* In the gov lane one kind of change at a time.                           *)
OneConcern ==
    LET agentsMoved == agents' # [a \in Agents |->
                          IF a = FirstAgent THEN FullPolicy ELSE NoPending]
                       \/ pendingAgent' # [a \in Agents |-> NoPending]
        capsMoved   == global' # Genesis \/ pendingConfig' # NoPending
        pricesMoved == prices' # GenesisPrices \/ pendingPrice' # NoPending
                       \/ creation' # GenesisCreation
    IN  /\ now' <= 4
        /\ ~(pricesMoved /\ (agentsMoved \/ capsMoved))
        /\ agentsMoved => delay' = MinDelay /\ legacy' = {}
                          /\ pendingConfig' = NoPending
                          /\ global'.collateral = Genesis.collateral

GovLane == GovNext /\ OneConcern /\ UNCHANGED vaultVars

Clock == Tick /\ UNCHANGED vaultVars

(* Bounds: one market, a pool that takes a few trades, one deposit more.   *)
PoolBound == 110
SupplyBound == 270

OneMarket ==
    \A k \in Markets :
        /\ mkt'[k].status # "none" => k = <<"core1", 0>>
        /\ mkt'[k].reserve.yes + mkt'[k].reserve.no <= PoolBound

(* Shareholders come and go around one market of the treasury.             *)
ShareLane ==
    /\ \/ ShareStep \/ CreateStep \/ SetPaused
       \/ \E k \in Markets :
             \/ \E o \in Outcomes, n \in OtherTrades : OthersBuy(k, o, n)
             \/ Resolved(k, "void")
       \/ \E id \in Ids : SettleMarket(id)
    /\ OneMarket
    /\ vault'.supply <= SupplyBound
    /\ vault'.wallet["admin"] >= Wallet

(* One agent trades, others trade against it, results come in one by one   *)
(* or in batches.                                                          *)
RiskLane ==
    /\ \/ Clock \/ CreateStep \/ TradeStep \/ BatchStep
       \/ \E id \in Ids : SettleMarket(id)
       \/ \E a \in Agents, id \in Ids : Redeem(a, id) \/ ClaimPoolRemainder(a, id)
       \/ \E k \in Markets :
             \/ \E o \in Outcomes, n \in OtherTrades : OthersBuy(k, o, n)
             \/ Resolved(k, "yes")
    /\ OneMarket

(* Losses trip the drawdown stop, days pass.                               *)
StopLane ==
    /\ \/ Clock \/ CreateStep \/ TradeStep \/ StopStep
       \/ \E id \in Ids : SettleMarket(id) \/ Realize(id)
       \/ \E k \in Markets :
             \/ \E n \in OtherTrades : OthersBuy(k, "yes", n)
             \/ Resolved(k, "yes")
    /\ OneMarket

(* Markets of two cores, of the treasury and of others; migration.         *)
CoreLane ==
    \/ Clock /\ now < 4
    \/ CreateStep \/ SettleStep \/ MigrateStep
    \/ \E a \in Agents, id \in Ids, n \in BuyChoices : AgentBuy(a, id, "no", n, 0, 0)
    \/ \E k \in Markets : Resolved(k, "void")
    \/ /\ \/ ProposeConfig(Caps(20, 60, 90, 110, "core2", "usdc"), FALSE)
          \/ ExecuteConfig(FALSE)
       /\ UNCHANGED vaultVars

(* Markets of others, fees, gifts and the close-out.                       *)
FeeLane ==
    /\ \/ Clock \/ CreateStep \/ SettleStep
       \/ \E seed \in SeedChoices, prob \in ProbChoices, close \in CloseChoices :
             OthersCreate("core1", close, seed, prob)
       \/ \E k \in Markets :
             \/ \E n \in OtherTrades : OthersBuy(k, "yes", n)
             \/ Resolved(k, "no") \/ Gift(k, "no") \/ ClosedOut(k)
       \/ \E a \in Agents, n \in BuyChoices : AgentBuy(a, 0, "no", n, 0, 0)
    /\ OneMarket

(* Idle collateral is lent out while agents need it.                       *)
YieldLane ==
    /\ \/ Clock /\ now < 2
       \/ CreateStep \/ TradeStep \/ YieldStep
    /\ OneMarket
    /\ \A o \in Owners : vault'.wallet[o] < Wallet + 40

MCInit == Init /\ lane \in DOMAIN Depth /\ step = 0

MCNext ==
    /\ step < Depth[lane] /\ step' = step + 1
    /\ \/ lane = "gov" /\ GovLane
       \/ lane = "share" /\ ShareLane
       \/ lane = "risk" /\ RiskLane
       \/ lane = "stop" /\ StopLane
       \/ lane = "core" /\ CoreLane
       \/ lane = "fee" /\ FeeLane
       \/ lane = "yield" /\ YieldLane
    /\ UNCHANGED lane

MCSpec == MCInit /\ [][MCNext]_<<vars, lane, step>>
=============================================================================
