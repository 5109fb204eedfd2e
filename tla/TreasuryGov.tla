---------------------------- MODULE TreasuryGov -----------------------------
(***************************************************************************)
(* The timelocked configuration of contracts/treasury: global caps, agent  *)
(* policies, the price policy and the creation policy.  A change that only *)
(* tightens applies at once; one that loosens is announced and waits       *)
(* config_delay, after which anyone may execute it.                        *)
(*                                                                         *)
(* Every entrypoint is one atomic action, enabled when it returns Ok.  The *)
(* collateral may change only while the vault is empty, which this module  *)
(* takes as a parameter.                                                   *)
(***************************************************************************)
EXTENDS TreasuryMath

CONSTANTS
    Agents,             \* addresses that may be registered as agents
    FirstAgent,         \* the agent the constructor registers
    MaxAgents,          \* MAX_AGENTS
    MinDelay,           \* MIN_CONFIG_DELAY
    NoPending,          \* no entry under the key
    Genesis,            \* GlobalConfig of the constructor
    GenesisPrices,      \* DEFAULT_PRICE_POLICY
    GenesisCreation,    \* CreationPolicy of the constructor
    MaxTime,            \* bound: the last ledger timestamp
    \* what the admin chooses from
    Configs, Policies, PricePolicies, CreationPolicies, Delays

VARIABLES
    now,                \* ledger timestamp
    global,             \* Global: caps, market_core, collateral
    agents,             \* Agent(a), NoPending for one never registered
    prices,             \* PricePolicy
    creation,           \* CreationPolicy
    delay,              \* ConfigDelay
    legacy,             \* the cores with a LegacyCore entry
    pendingConfig, pendingAgent, pendingPrice

govVars == <<now, global, agents, prices, creation, delay, legacy,
             pendingConfig, pendingAgent, pendingPrice>>

Roles == {"create", "trade", "settle"}

-----------------------------------------------------------------------------
ValidGlobal(c) ==
    /\ c.trade > 0
    /\ c.market >= c.trade /\ c.daily >= c.market /\ c.net >= c.trade

ValidPolicy(p, g) ==
    /\ p.active /\ p.roles # {} /\ p.roles \subseteq Roles
    /\ p.trade > 0 /\ p.trade <= p.daily
    /\ p.trade <= g.trade /\ p.daily <= g.daily

ValidPrices(p) ==
    /\ p.buy <= BPS /\ p.sell < p.buy
    /\ p.impact \in 1 .. BPS /\ p.slippage < BPS

ValidCreation(p, g) ==
    /\ p.seed > 0 /\ p.seed <= g.market
    /\ p.count >= 1 /\ p.window >= CreationBuckets
    /\ p.minHorizon < p.maxHorizon
    /\ p.categories # {} /\ p.categories \subseteq Categories

(* AgentPolicy as a call may carry it, a bit that is no role included.     *)
PolicyType ==
    [roles : SUBSET (Roles \cup {"unknown"}), trade : Int, daily : Int,
     active : BOOLEAN]

ASSUME TreasuryGovAssumption ==
    /\ FirstAgent \in Agents /\ IsFiniteSet(Agents)
    /\ MaxAgents \in Nat \ {0}
    /\ MinDelay \in Nat \ {0} /\ MaxTime \in Nat /\ Delays \subseteq Nat
    /\ ValidGlobal(Genesis) /\ ValidPrices(GenesisPrices)
    /\ ValidCreation(GenesisCreation, Genesis)
    /\ \A c \in Configs \cup {Genesis} :
           {c.trade, c.market, c.daily, c.net} \subseteq Int
    /\ Policies \subseteq PolicyType
    /\ \A p \in PricePolicies \cup {GenesisPrices} :
           {p.buy, p.sell, p.impact, p.slippage} \subseteq Int
    /\ NoPending \notin Configs \cup PolicyType

ClassifyGlobal(old, new) ==
    IF old.collateral # new.collateral \/ old.core # new.core
    THEN "needs_delay"
    ELSE ClassifyCaps({<<old.trade, new.trade>>, <<old.market, new.market>>,
                       <<old.daily, new.daily>>, <<old.net, new.net>>})

(* Mutant: a role the agent does not have is not a loosening.              *)
ClassifyAgentIgnoresRoles(cur, new) ==
    IF cur = NoPending \/ ~cur.active THEN "needs_delay"
    ELSE LET caps == ClassifyCaps({<<cur.trade, new.trade>>,
                                   <<cur.daily, new.daily>>})
         IN  IF caps = "none" /\ new.roles # cur.roles THEN "tighten_only"
             ELSE caps

ClassifyAgent(cur, new) ==
    IF cur = NoPending \/ ~cur.active \/ ~(new.roles \subseteq cur.roles)
    THEN "needs_delay"
    ELSE LET caps == ClassifyCaps({<<cur.trade, new.trade>>,
                                   <<cur.daily, new.daily>>})
         IN  IF caps = "none" /\ new.roles # cur.roles THEN "tighten_only"
             ELSE caps

ClassifyPrices(old, new) ==
    ClassifyCaps({<<old.buy, new.buy>>, <<-old.sell, -new.sell>>,
                  <<old.impact, new.impact>>, <<old.slippage, new.slippage>>})

-----------------------------------------------------------------------------
(* Proposals.                                                              *)

Queued(value) ==
    [value |-> value, proposedAt |-> now, executableAt |-> now + delay]

Due(p) == p # NoPending /\ now >= p.executableAt

(* check_collateral_change(): `empty` says no idle collateral, no open     *)
(* market and no queued withdrawal.                                        *)
CollateralChangeOk(new, empty) ==
    new.collateral = global.collateral \/ empty

-----------------------------------------------------------------------------
(* Agents.                                                                 *)

Registered == {a \in Agents : agents[a] # NoPending}

(* write_agent(): a new address takes a slot of the bounded list.          *)
WriteAgentOk(a) == a \in Registered \/ Cardinality(Registered) < MaxAgents

(* ensure_settler(), on the agents as the call leaves them.                *)
HasSettler(as) ==
    \E a \in Agents :
        as[a] # NoPending /\ as[a].active /\ "settle" \in as[a].roles

(* require_agent().                                                        *)
MayAct(a, role) ==
    agents[a] # NoPending /\ agents[a].active /\ role \in agents[a].roles

SetAgent(a, p) ==
    /\ ValidPolicy(p, global)
    /\ \/ /\ ClassifyAgent(agents[a], p) = "tighten_only"
          /\ agents' = [agents EXCEPT ![a] = p]
          /\ HasSettler(agents')
          /\ UNCHANGED pendingAgent
       \/ /\ ClassifyAgent(agents[a], p) = "needs_delay"
          /\ pendingAgent[a] = NoPending
          /\ a \notin Registered => Cardinality(Registered) < MaxAgents
          /\ pendingAgent' = [pendingAgent EXCEPT ![a] = Queued(p)]
          /\ UNCHANGED agents
    /\ UNCHANGED <<now, global, prices, creation, delay, legacy,
                   pendingConfig, pendingPrice>>

(* Mutant: the bound on agents is left to set_agent.                       *)
ExecuteAgentUnbounded(a) ==
    /\ Due(pendingAgent[a])
    /\ ValidPolicy(pendingAgent[a].value, global)
    /\ agents' = [agents EXCEPT ![a] = pendingAgent[a].value]
    /\ HasSettler(agents')
    /\ pendingAgent' = [pendingAgent EXCEPT ![a] = NoPending]
    /\ UNCHANGED <<now, global, prices, creation, delay, legacy,
                   pendingConfig, pendingPrice>>

(* execute_agent(): anyone may call it; the policy is held against the     *)
(* caps of the moment, and the list may have filled up meanwhile.          *)
ExecuteAgent(a) ==
    /\ Due(pendingAgent[a])
    /\ ValidPolicy(pendingAgent[a].value, global)
    /\ WriteAgentOk(a)
    /\ agents' = [agents EXCEPT ![a] = pendingAgent[a].value]
    /\ HasSettler(agents')
    /\ pendingAgent' = [pendingAgent EXCEPT ![a] = NoPending]
    /\ UNCHANGED <<now, global, prices, creation, delay, legacy,
                   pendingConfig, pendingPrice>>

CancelAgent(a) ==
    /\ pendingAgent[a] # NoPending
    /\ pendingAgent' = [pendingAgent EXCEPT ![a] = NoPending]
    /\ UNCHANGED <<now, global, agents, prices, creation, delay, legacy,
                   pendingConfig, pendingPrice>>

(* A pending policy of the removed agent stays.                            *)
RemoveAgent(a) ==
    /\ agents[a] # NoPending /\ agents[a].active
    /\ agents' = [agents EXCEPT ![a].active = FALSE]
    /\ HasSettler(agents')
    /\ UNCHANGED <<now, global, prices, creation, delay, legacy,
                   pendingConfig, pendingAgent, pendingPrice>>

-----------------------------------------------------------------------------
(* Global caps, market-core and collateral.                                *)

ProposeConfig(c, empty) ==
    /\ ValidGlobal(c)
    /\ \/ /\ ClassifyGlobal(global, c) = "tighten_only"
          /\ global' = c
          /\ UNCHANGED pendingConfig
       \/ /\ ClassifyGlobal(global, c) = "needs_delay"
          /\ pendingConfig = NoPending
          /\ CollateralChangeOk(c, empty)
          /\ pendingConfig' = Queued(c)
          /\ UNCHANGED global
    /\ UNCHANGED <<now, agents, prices, creation, delay, legacy,
                   pendingAgent, pendingPrice>>

ExecuteConfig(empty) ==
    LET new == pendingConfig.value IN
    /\ Due(pendingConfig)
    /\ ValidGlobal(new)
    /\ CollateralChangeOk(new, empty)
    /\ global' = new
    /\ legacy' = IF new.core # global.core THEN legacy \cup {global.core}
                 ELSE legacy
    /\ pendingConfig' = NoPending
    /\ UNCHANGED <<now, agents, prices, creation, delay, pendingAgent,
                   pendingPrice>>

CancelConfig ==
    /\ pendingConfig # NoPending
    /\ pendingConfig' = NoPending
    /\ UNCHANGED <<now, global, agents, prices, creation, delay, legacy,
                   pendingAgent, pendingPrice>>

(* The delay is only ever lengthened; proposals keep the time they got.    *)
SetConfigDelay(d) ==
    /\ d >= delay
    /\ delay' = d
    /\ UNCHANGED <<now, global, agents, prices, creation, legacy,
                   pendingConfig, pendingAgent, pendingPrice>>

-----------------------------------------------------------------------------
(* The price band and the creation policy.                                 *)

SetPricePolicy(p) ==
    /\ ValidPrices(p)
    /\ \/ /\ ClassifyPrices(prices, p) = "tighten_only"
          /\ prices' = p
          /\ UNCHANGED pendingPrice
       \/ /\ ClassifyPrices(prices, p) = "needs_delay"
          /\ pendingPrice = NoPending
          /\ pendingPrice' = Queued(p)
          /\ UNCHANGED prices
    /\ UNCHANGED <<now, global, agents, creation, delay, legacy,
                   pendingConfig, pendingAgent>>

ExecutePricePolicy ==
    /\ Due(pendingPrice)
    /\ prices' = pendingPrice.value
    /\ pendingPrice' = NoPending
    /\ UNCHANGED <<now, global, agents, creation, delay, legacy,
                   pendingConfig, pendingAgent>>

CancelPricePolicy ==
    /\ pendingPrice # NoPending
    /\ pendingPrice' = NoPending
    /\ UNCHANGED <<now, global, agents, prices, creation, delay, legacy,
                   pendingConfig, pendingAgent>>

CreationNarrows(old, new) ==
    /\ new.seed <= old.seed /\ new.count <= old.count
    /\ new.window >= old.window
    /\ new.minHorizon >= old.minHorizon /\ new.maxHorizon <= old.maxHorizon
    /\ new.categories \subseteq old.categories

(* set_creation_policy(): there is no way to loosen it.                    *)
SetCreationPolicy(p) ==
    /\ ValidCreation(p, global)
    /\ CreationNarrows(creation, p)
    /\ creation' = p
    /\ UNCHANGED <<now, global, agents, prices, delay, legacy,
                   pendingConfig, pendingAgent, pendingPrice>>

(* The next ledger closes.                                                 *)
Tick ==
    /\ now < MaxTime
    /\ now' = now + 1
    /\ UNCHANGED <<global, agents, prices, creation, delay, legacy,
                   pendingConfig, pendingAgent, pendingPrice>>

-----------------------------------------------------------------------------
FullPolicy ==
    [roles |-> Roles, trade |-> Genesis.trade, daily |-> Genesis.daily,
     active |-> TRUE]

GovInit ==
    /\ now = 0
    /\ global = Genesis
    /\ agents = [a \in Agents |-> IF a = FirstAgent THEN FullPolicy
                                  ELSE NoPending]
    /\ prices = GenesisPrices
    /\ creation = GenesisCreation
    /\ delay = MinDelay
    /\ legacy = {}
    /\ pendingConfig = NoPending
    /\ pendingAgent = [a \in Agents |-> NoPending]
    /\ pendingPrice = NoPending

(* Every entrypoint of this module but the ledger's clock.                 *)
GovStep(empty) ==
    \/ \E a \in Agents :
          \/ \E p \in Policies : SetAgent(a, p)
          \/ ExecuteAgent(a) \/ CancelAgent(a) \/ RemoveAgent(a)
    \/ \E c \in Configs : ProposeConfig(c, empty)
    \/ ExecuteConfig(empty)
    \/ CancelConfig
    \/ \E d \in Delays : SetConfigDelay(d)
    \/ \E p \in PricePolicies : SetPricePolicy(p)
    \/ ExecutePricePolicy
    \/ CancelPricePolicy
    \/ \E p \in CreationPolicies : SetCreationPolicy(p)

(* On its own, with a vault that may be empty or not at every step.        *)
GovNext == Tick \/ \E empty \in BOOLEAN : GovStep(empty)

GovSpec == GovInit /\ [][GovNext]_govVars

-----------------------------------------------------------------------------
(* Properties.                                                             *)

(* Somebody can always settle, and the list stays within MAX_AGENTS:       *)
(* through every removal, narrowing and late execution of a policy an      *)
(* active agent with ROLE_SETTLE remains (remove_agent: "so open positions *)
(* can always be settled"), and although several additions may be          *)
(* announced while there is room for one, only one is executed.            *)
AgentsInBounds == HasSettler(agents) /\ Cardinality(Registered) <= MaxAgents

(* What an agent may do: more roles or larger caps are more.               *)
Widens(old, new) ==
    /\ new # NoPending /\ new.active
    /\ \/ old = NoPending \/ ~old.active
       \/ ~(new.roles \subseteq old.roles)
       \/ new.trade > old.trade \/ new.daily > old.daily

Announced(p, value) ==
    p # NoPending /\ p.value = value /\ now - p.proposedAt >= MinDelay

(* Nothing the agents may do is ever loosened by a step that was not       *)
(* announced at least MIN_CONFIG_DELAY before: larger caps, another core   *)
(* or collateral, a new, revived or wider agent, a wider price band.       *)
LooseningAnnounced ==
    [][/\ \/ global'.trade > global.trade \/ global'.market > global.market
          \/ global'.daily > global.daily \/ global'.net > global.net
          \/ global'.core # global.core
          \/ global'.collateral # global.collateral
          => Announced(pendingConfig, global')
       /\ \A a \in Agents :
             Widens(agents[a], agents'[a])
             => Announced(pendingAgent[a], agents'[a])
       /\ \/ prices'.buy > prices.buy \/ prices'.sell < prices.sell
          \/ prices'.impact > prices.impact
          \/ prices'.slippage > prices.slippage
          => Announced(pendingPrice, prices')]_govVars

-----------------------------------------------------------------------------
(* The inductive invariant of TreasuryProofs.                              *)

(* A proposal waits at least MIN_CONFIG_DELAY, whatever happens to the     *)
(* delay after it was made.                                                *)
Proposals(S) ==
    {NoPending} \cup
    {p \in [value : S, proposedAt : Nat, executableAt : Nat] :
        p.executableAt >= p.proposedAt + MinDelay}

GovTypes ==
    /\ now \in Nat /\ delay \in Nat /\ delay >= MinDelay
    /\ global \in Configs \cup {Genesis}
    /\ agents \in [Agents -> PolicyType \cup {NoPending}]
    /\ prices \in PricePolicies \cup {GenesisPrices}
    /\ pendingConfig \in Proposals(Configs)
    /\ pendingAgent \in [Agents -> Proposals(Policies)]
    /\ pendingPrice \in Proposals(PricePolicies)

GovInv == GovTypes /\ AgentsInBounds
=============================================================================
