------------------------------- MODULE Router -------------------------------
(***************************************************************************)
(* contracts/router over market-core, the resolver and the reasoning       *)
(* registry: the flows of Commitment, the registry of Registry, and        *)
(* buy_and_publish_trace, which buys and publishes in one transaction.     *)
(* The conditions of a buy are in MarketCore: here it takes a market that  *)
(* exists and has not ended, and may be refused for reasons of its own.    *)
(***************************************************************************)
EXTENDS Commitment, Registry

CONSTANTS
    Configured,     \* config.reasoning_registry is Some
    MaxTrades       \* bound: buys

VARIABLE trades     \* the buys: market, trader, and the trace of a routed one

routerVars == <<commitVars, registryVars, trades>>

MarketCount == Len(markets)
Open(id) == id \in DOMAIN markets /\ ~Closed(rstate[id])

(* buy() called directly: no trace.                                        *)
Buy(trader, id) ==
    /\ Open(id) /\ Len(trades) < MaxTrades
    /\ trades' = Append(trades, [market |-> id, trader |-> trader,
                                 trace |-> 0])
    /\ UNCHANGED <<commitVars, registryVars>>

(* Mutant: a trace the registry refuses does not undo the buy.             *)
BuyAndTryToPublish(trader, id, act, h) ==
    /\ Configured
    /\ Open(id) /\ Len(trades) < MaxTrades
    /\ IF MayPublish(trader, id, act, MarketCount) /\ heads[trader].seq = 0
       THEN PublishTrace(trader, id, act, h, MarketCount)
       ELSE UNCHANGED registryVars
    /\ trades' = Append(trades, [market |-> id, trader |-> trader,
                                 trace |-> Len(traces) + 1])
    /\ UNCHANGED commitVars

(* buy_and_publish_trace(): both or neither.                               *)
BuyAndPublishTrace(trader, id, act, h) ==
    /\ Configured
    /\ Open(id) /\ Len(trades) < MaxTrades
    /\ PublishTrace(trader, id, act, h, MarketCount)
    /\ trades' = Append(trades, [market |-> id, trader |-> trader,
                                 trace |-> Len(traces) + 1])
    /\ UNCHANGED commitVars

RouterInit == CommitInit /\ RegistryInit /\ trades = << >>

RouterNext ==
    \/ CommitNext /\ UNCHANGED <<registryVars, trades>>
    \/ RegistryNext(MarketCount) /\ UNCHANGED <<commitVars, trades>>
    \/ \E trader \in Agents, id \in Ids :
           \/ Buy(trader, id)
           \/ \E act \in Actions, h \in Hashes :
                  BuyAndPublishTrace(trader, id, act, h)

RouterSpec == RouterInit /\ [][RouterNext]_routerVars

-----------------------------------------------------------------------------
(* A compound flow is whole or it did not happen.  A market created by the *)
(* router or by the treasury is never seen without its rule: the failure   *)
(* between the two transactions the router exists for cannot happen.  And  *)
(* every routed buy has a trace of its own, by that trader on that market, *)
(* whatever happened to the agent and its chain before.                    *)
CompoundFlowsAreWhole ==
    /\ \A id \in DOMAIN markets :
           markets[id].by \in {"router", "treasury"} => entries[id] # {}
    /\ \A i \in DOMAIN trades :
           trades[i].trace # 0 =>
               /\ trades[i].trace \in DOMAIN traces
               /\ traces[trades[i].trace].agent = trades[i].trader
               /\ traces[trades[i].trace].market = trades[i].market
               /\ \A j \in DOMAIN trades :
                      trades[j].trace = trades[i].trace => j = i

(* What is inductive: the contracts' own invariants, and that a trade      *)
(* names a trace that is already there.                                    *)
TradeType == [market : Ids, trader : Agents, trace : Nat]

RouterInv ==
    /\ CommitInv /\ RegistryInv
    /\ trades \in Seq(TradeType)
    /\ CompoundFlowsAreWhole
=============================================================================
