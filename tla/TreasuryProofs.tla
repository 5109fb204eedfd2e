--------------------------- MODULE TreasuryProofs ---------------------------
(* Proofs about TreasuryGov and Treasury, for every set of agents, markets *)
(* and owners, every configuration and every amount.                       *)
EXTENDS Treasury, MathProofs

-----------------------------------------------------------------------------
(* Governance.                                                             *)

LEMMA RegisteredFinite ==
    /\ IsFiniteSet(Registered) /\ Cardinality(Registered) \in Nat
    /\ IsFiniteSet(Registered') /\ Cardinality(Registered') \in Nat
<1>1. Registered \subseteq Agents /\ Registered' \subseteq Agents
  BY DEF Registered
<1> QED
  BY <1>1, TreasuryGovAssumption, FS_Subset, FS_CardinalityType

LEMMA GovInitInv == GovInit => GovInv
<1> SUFFICES ASSUME GovInit PROVE GovInv
  OBVIOUS
<1>1. FullPolicy \in PolicyType /\ FullPolicy # NoPending
  <2>1. Genesis.trade \in Int /\ Genesis.daily \in Int
    BY TreasuryGovAssumption
  <2>2. FullPolicy \in PolicyType
    BY <2>1 DEF FullPolicy, PolicyType
  <2> QED
    BY <2>2, TreasuryGovAssumption
<1>2. GovTypes
  BY <1>1, TreasuryGovAssumption DEF GovInit, GovTypes, Proposals
<1>3. HasSettler(agents)
  BY <1>1, TreasuryGovAssumption
     DEF GovInit, HasSettler, FullPolicy, Roles
<1>4. Cardinality(Registered) <= MaxAgents
  <2>1. Registered = {FirstAgent}
    BY <1>1, TreasuryGovAssumption DEF GovInit, Registered
  <2>2. Cardinality({FirstAgent}) = 1
    BY FS_Singleton
  <2> QED
    BY <2>1, <2>2, TreasuryGovAssumption
<1> QED
  BY <1>2, <1>3, <1>4 DEF GovInv, AgentsInBounds

(* A proposal made now waits the delay of now.                             *)
LEMMA QueuedWaits ==
    ASSUME GovTypes, NEW S, NEW v \in S
    PROVE  Queued(v) \in Proposals(S)
<1>1. now \in Nat /\ delay \in Nat /\ delay >= MinDelay /\ MinDelay \in Nat
  BY TreasuryGovAssumption DEF GovTypes
<1> QED
  BY <1>1 DEF Queued, Proposals

(* Writing one agent's policy registers that agent at most.                *)
LEMMA OneMoreAgent ==
    ASSUME GovInv, NEW a \in Agents, NEW p \in PolicyType,
           agents' = [agents EXCEPT ![a] = p], WriteAgentOk(a)
    PROVE  Cardinality(Registered') <= MaxAgents
<1>1. Registered' = Registered \cup {a}
  BY TreasuryGovAssumption DEF Registered, GovInv, GovTypes
<1>2. CASE a \in Registered
  <2>1. Registered' = Registered
    BY <1>1, <1>2
  <2> QED
    BY <2>1 DEF GovInv, AgentsInBounds
<1>3. CASE a \notin Registered
  <2>1. Cardinality(Registered') = Cardinality(Registered) + 1
    BY <1>1, <1>3, RegisteredFinite, FS_AddElement
  <2> QED
    BY <1>3, <2>1, RegisteredFinite, TreasuryGovAssumption DEF WriteAgentOk
<1> QED
  BY <1>2, <1>3

LEMMA AgentStepInv ==
    ASSUME GovInv, NEW a \in Agents,
           \/ \E p \in Policies : SetAgent(a, p)
           \/ ExecuteAgent(a) \/ CancelAgent(a) \/ RemoveAgent(a)
    PROVE  GovInv'
<1> USE DEF GovInv
<1>1. ASSUME NEW p \in Policies, SetAgent(a, p) PROVE GovInv'
  <2>1. p \in PolicyType
    BY TreasuryGovAssumption
  <2>2. CASE /\ ClassifyAgent(agents[a], p) = "tighten_only"
             /\ agents' = [agents EXCEPT ![a] = p] /\ HasSettler(agents')
             /\ UNCHANGED pendingAgent
    <3>1. a \in Registered
      BY <2>2 DEF ClassifyAgent, Registered
    <3>2. Cardinality(Registered') <= MaxAgents
      BY <2>1, <2>2, <3>1, OneMoreAgent DEF WriteAgentOk
    <3>3. GovTypes'
      BY <1>1, <2>1, <2>2 DEF SetAgent, GovTypes
    <3> QED
      BY <2>2, <3>2, <3>3 DEF AgentsInBounds
  <2>3. CASE /\ pendingAgent' = [pendingAgent EXCEPT ![a] = Queued(p)]
             /\ UNCHANGED agents
    <3>1. GovTypes'
      BY <1>1, <2>3, QueuedWaits DEF SetAgent, GovTypes
    <3> QED
      BY <2>3, <3>1 DEF AgentsInBounds, Registered
  <2> QED
    BY <1>1, <2>2, <2>3 DEF SetAgent
<1>2. ASSUME ExecuteAgent(a) PROVE GovInv'
  <2>1. PICK p : p = pendingAgent[a].value
    OBVIOUS
  <2>2. p \in Policies /\ p \in PolicyType
    BY <1>2, <2>1, TreasuryGovAssumption
       DEF ExecuteAgent, Due, GovTypes, Proposals
  <2>3. /\ agents' = [agents EXCEPT ![a] = p] /\ HasSettler(agents')
        /\ pendingAgent' = [pendingAgent EXCEPT ![a] = NoPending]
    BY <1>2, <2>1 DEF ExecuteAgent
  <2>4. GovTypes'
    BY <1>2, <2>2, <2>3 DEF ExecuteAgent, GovTypes, Proposals
  <2>5. Cardinality(Registered') <= MaxAgents
    BY <1>2, <2>2, <2>3, OneMoreAgent DEF ExecuteAgent
  <2> QED
    BY <2>3, <2>4, <2>5 DEF AgentsInBounds
<1>3. ASSUME CancelAgent(a) PROVE GovInv'
  <2>1. GovTypes'
    BY <1>3 DEF CancelAgent, GovTypes, Proposals
  <2> QED
    BY <1>3, <2>1 DEF CancelAgent, AgentsInBounds, Registered
<1>4. ASSUME RemoveAgent(a) PROVE GovInv'
  <2>1. PICK p : p = [agents[a] EXCEPT !.active = FALSE]
    OBVIOUS
  <2>2. p \in PolicyType
    BY <1>4, <2>1 DEF RemoveAgent, GovTypes, PolicyType
  <2>3. agents' = [agents EXCEPT ![a] = p] /\ HasSettler(agents')
    BY <1>4, <2>1 DEF RemoveAgent
  <2>4. GovTypes'
    BY <1>4, <2>2, <2>3 DEF RemoveAgent, GovTypes
  <2>5. Cardinality(Registered') <= MaxAgents
    BY <1>4, <2>2, <2>3, OneMoreAgent
       DEF RemoveAgent, WriteAgentOk, Registered
  <2> QED
    BY <2>3, <2>4, <2>5 DEF AgentsInBounds
<1> QED
  BY <1>1, <1>2, <1>3, <1>4

LEMMA ConfigStepInv ==
    ASSUME GovInv, NEW empty,
           \/ \E c \in Configs : ProposeConfig(c, empty)
           \/ ExecuteConfig(empty) \/ CancelConfig
           \/ \E d \in Delays : SetConfigDelay(d)
    PROVE  GovInv'
<1> USE DEF GovInv
<1>1. UNCHANGED agents
  BY DEF ProposeConfig, ExecuteConfig, CancelConfig, SetConfigDelay
<1>2. AgentsInBounds'
  BY <1>1 DEF AgentsInBounds, HasSettler, Registered
<1>3. ASSUME NEW c \in Configs, ProposeConfig(c, empty) PROVE GovTypes'
  BY <1>3, QueuedWaits DEF ProposeConfig, GovTypes
<1>4. ASSUME ExecuteConfig(empty) PROVE GovTypes'
  BY <1>4 DEF ExecuteConfig, Due, GovTypes, Proposals
<1>5. ASSUME CancelConfig PROVE GovTypes'
  BY <1>5 DEF CancelConfig, GovTypes, Proposals
<1>6. ASSUME NEW d \in Delays, SetConfigDelay(d) PROVE GovTypes'
  BY <1>6, TreasuryGovAssumption DEF SetConfigDelay, GovTypes
<1> QED
  BY <1>2, <1>3, <1>4, <1>5, <1>6

LEMMA PriceStepInv ==
    ASSUME GovInv,
           \/ \E p \in PricePolicies : SetPricePolicy(p)
           \/ ExecutePricePolicy \/ CancelPricePolicy
           \/ \E p \in CreationPolicies : SetCreationPolicy(p)
           \/ Tick
    PROVE  GovInv'
<1> USE DEF GovInv
<1>1. UNCHANGED agents
  BY DEF SetPricePolicy, ExecutePricePolicy, CancelPricePolicy,
         SetCreationPolicy, Tick
<1>2. AgentsInBounds'
  BY <1>1 DEF AgentsInBounds, HasSettler, Registered
<1>3. ASSUME NEW p \in PricePolicies, SetPricePolicy(p) PROVE GovTypes'
  BY <1>3, QueuedWaits DEF SetPricePolicy, GovTypes
<1>4. ASSUME ExecutePricePolicy PROVE GovTypes'
  BY <1>4 DEF ExecutePricePolicy, Due, GovTypes, Proposals
<1>5. ASSUME CancelPricePolicy PROVE GovTypes'
  BY <1>5 DEF CancelPricePolicy, GovTypes, Proposals
<1>6. ASSUME NEW p \in CreationPolicies, SetCreationPolicy(p) PROVE GovTypes'
  BY <1>6 DEF SetCreationPolicy, GovTypes
<1>7. ASSUME Tick PROVE GovTypes'
  BY <1>7 DEF Tick, GovTypes
<1> QED
  BY <1>2, <1>3, <1>4, <1>5, <1>6, <1>7

LEMMA GovNextInv == GovInv /\ [GovNext]_govVars => GovInv'
<1> SUFFICES ASSUME GovInv, [GovNext]_govVars PROVE GovInv'
  OBVIOUS
<1>1. CASE Tick
  BY <1>1, PriceStepInv
<1>2. ASSUME NEW empty \in BOOLEAN, GovStep(empty) PROVE GovInv'
  BY <1>2, AgentStepInv, ConfigStepInv, PriceStepInv DEF GovStep
<1>3. CASE UNCHANGED govVars
  BY <1>3 DEF govVars, GovInv, GovTypes, AgentsInBounds, HasSettler,
              Registered
<1> QED
  BY <1>1, <1>2, <1>3 DEF GovNext

(* The inductive invariant of the governance of any vault.                 *)
THEOREM GovInvariance == GovSpec => []GovInv
<1>1. GovInit => GovInv
  BY GovInitInv
<1>2. GovInv /\ [GovNext]_govVars => GovInv'
  BY GovNextInv
<1> QED
  BY <1>1, <1>2, PTL DEF GovSpec

(* What one step of governance may loosen.                                 *)
StepAnnounced ==
    /\ \/ global'.trade > global.trade \/ global'.market > global.market
       \/ global'.daily > global.daily \/ global'.net > global.net
       \/ global'.core # global.core
       \/ global'.collateral # global.collateral
       => Announced(pendingConfig, global')
    /\ \A a \in Agents :
          Widens(agents[a], agents'[a])
          => Announced(pendingAgent[a], agents'[a])
    /\ \/ prices'.buy > prices.buy \/ prices'.sell < prices.sell
       \/ prices'.impact > prices.impact
       \/ prices'.slippage > prices.slippage
       => Announced(pendingPrice, prices')

(* A proposal that is due was announced MIN_CONFIG_DELAY ago.              *)
LEMMA DueIsAnnounced ==
    ASSUME GovTypes, NEW S, NEW p \in Proposals(S), Due(p)
    PROVE  Announced(p, p.value) /\ p.value \in S
<1>1. /\ p.proposedAt \in Nat /\ p.executableAt \in Nat
      /\ p.executableAt >= p.proposedAt + MinDelay
      /\ p # NoPending /\ p.value \in S /\ now >= p.executableAt
  BY DEF Due, Proposals
<1>2. now \in Nat /\ MinDelay \in Nat
  BY TreasuryGovAssumption DEF GovTypes
<1> QED
  BY <1>1, <1>2 DEF Announced

(* Nothing changes, nothing loosens.                                       *)
LEMMA SameIsAnnounced ==
    ASSUME GovTypes
    PROVE  /\ global' = global =>
                 ~(\/ global'.trade > global.trade
                   \/ global'.market > global.market
                   \/ global'.daily > global.daily \/ global'.net > global.net
                   \/ global'.core # global.core
                   \/ global'.collateral # global.collateral)
           /\ \A a \in Agents :
                 agents'[a] = agents[a] => ~Widens(agents[a], agents'[a])
           /\ prices' = prices =>
                 ~(\/ prices'.buy > prices.buy \/ prices'.sell < prices.sell
                   \/ prices'.impact > prices.impact
                   \/ prices'.slippage > prices.slippage)
<1>1. /\ global.trade \in Int /\ global.market \in Int
      /\ global.daily \in Int /\ global.net \in Int
  BY TreasuryGovAssumption DEF GovTypes
<1>2. /\ prices.buy \in Int /\ prices.sell \in Int
      /\ prices.impact \in Int /\ prices.slippage \in Int
  BY TreasuryGovAssumption DEF GovTypes
<1>3. ASSUME NEW a \in Agents, agents'[a] = agents[a]
      PROVE  ~Widens(agents[a], agents'[a])
  <2>1. agents[a] # NoPending =>
            agents[a].trade \in Int /\ agents[a].daily \in Int
    BY DEF GovTypes, PolicyType
  <2> QED
    BY <1>3, <2>1 DEF Widens
<1> QED
  BY <1>1, <1>2, <1>3

(* A change of caps that may apply at once loosens none of them.           *)
LEMMA TighteningIsTighter ==
    ASSUME NEW pairs, \A p \in pairs : p[1] \in Int /\ p[2] \in Int,
           ClassifyCaps(pairs) # "needs_delay"
    PROVE  \A p \in pairs : ~(p[2] > p[1])
BY DEF ClassifyCaps

LEMMA GovAnnounced == GovInv /\ [GovNext]_govVars => StepAnnounced
<1> SUFFICES ASSUME GovInv, [GovNext]_govVars PROVE StepAnnounced
  OBVIOUS
<1>1. GovTypes
  BY DEF GovInv
<1> DEFINE GlobalOk ==
        \/ global'.trade > global.trade \/ global'.market > global.market
        \/ global'.daily > global.daily \/ global'.net > global.net
        \/ global'.core # global.core
        \/ global'.collateral # global.collateral
        => Announced(pendingConfig, global')
    AgentsOk == \A a \in Agents :
        Widens(agents[a], agents'[a]) => Announced(pendingAgent[a], agents'[a])
    PricesOk ==
        \/ prices'.buy > prices.buy \/ prices'.sell < prices.sell
        \/ prices'.impact > prices.impact
        \/ prices'.slippage > prices.slippage
        => Announced(pendingPrice, prices')
<1>2. /\ global' = global => GlobalOk
      /\ agents' = agents => AgentsOk
      /\ prices' = prices => PricesOk
  BY <1>1, SameIsAnnounced
<1>3. ASSUME NEW c \in Configs, NEW empty, ProposeConfig(c, empty),
             ClassifyGlobal(global, c) = "tighten_only", global' = c
      PROVE  GlobalOk
  <2>1. global'.core = global.core /\ global'.collateral = global.collateral
    BY <1>3 DEF ClassifyGlobal
  <2>2. PICK ps : ps = {<<global.trade, c.trade>>, <<global.market, c.market>>,
                        <<global.daily, c.daily>>, <<global.net, c.net>>}
    OBVIOUS
  <2>3. /\ global.trade \in Int /\ global.market \in Int
        /\ global.daily \in Int /\ global.net \in Int
        /\ c.trade \in Int /\ c.market \in Int
        /\ c.daily \in Int /\ c.net \in Int
    BY <1>1, TreasuryGovAssumption DEF GovTypes
  <2>4. ClassifyCaps(ps) # "needs_delay"
    BY <1>3, <2>2 DEF ClassifyGlobal
  <2>5. \A p \in ps : ~(p[2] > p[1])
    BY <2>2, <2>3, <2>4, TighteningIsTighter
  <2> QED
    BY <1>3, <2>1, <2>2, <2>5
<1>4. ASSUME NEW empty, ExecuteConfig(empty) PROVE GlobalOk
  <2>1. Due(pendingConfig) /\ global' = pendingConfig.value
    BY <1>4 DEF ExecuteConfig
  <2> QED
    BY <1>1, <2>1, DueIsAnnounced DEF GovTypes
<1>5. ASSUME NEW p \in PricePolicies, SetPricePolicy(p),
             ClassifyPrices(prices, p) = "tighten_only", prices' = p
      PROVE  PricesOk
  <2>1. PICK ps : ps = {<<prices.buy, p.buy>>, <<-prices.sell, -p.sell>>,
                        <<prices.impact, p.impact>>,
                        <<prices.slippage, p.slippage>>}
    OBVIOUS
  <2>2. /\ prices.buy \in Int /\ prices.sell \in Int
        /\ prices.impact \in Int /\ prices.slippage \in Int
        /\ p.buy \in Int /\ p.sell \in Int
        /\ p.impact \in Int /\ p.slippage \in Int
    BY <1>1, TreasuryGovAssumption DEF GovTypes
  <2>3. ClassifyCaps(ps) # "needs_delay"
    BY <1>5, <2>1 DEF ClassifyPrices
  <2>4. \A x \in ps : ~(x[2] > x[1])
    BY <2>1, <2>2, <2>3, TighteningIsTighter
  <2> QED
    BY <1>5, <2>1, <2>2, <2>4
<1>6. ASSUME ExecutePricePolicy PROVE PricesOk
  <2>1. Due(pendingPrice) /\ prices' = pendingPrice.value
    BY <1>6 DEF ExecutePricePolicy
  <2> QED
    BY <1>1, <2>1, DueIsAnnounced DEF GovTypes
<1>7. ASSUME NEW a \in Agents, NEW p \in Policies, SetAgent(a, p),
             ClassifyAgent(agents[a], p) = "tighten_only",
             agents' = [agents EXCEPT ![a] = p]
      PROVE  AgentsOk
  <2>1. /\ agents[a] # NoPending /\ agents[a].active
        /\ p.roles \subseteq agents[a].roles
    BY <1>7 DEF ClassifyAgent
  <2>2. PICK ps : ps = {<<agents[a].trade, p.trade>>,
                        <<agents[a].daily, p.daily>>}
    OBVIOUS
  <2>3. /\ agents[a].trade \in Int /\ agents[a].daily \in Int
        /\ p.trade \in Int /\ p.daily \in Int
    BY <1>1, <2>1, TreasuryGovAssumption DEF GovTypes, PolicyType
  <2>4. ClassifyCaps(ps) # "needs_delay"
    BY <1>7, <2>1, <2>2 DEF ClassifyAgent
  <2>5. \A x \in ps : ~(x[2] > x[1])
    BY <2>2, <2>3, <2>4, TighteningIsTighter
  <2>6. ~Widens(agents[a], p)
    BY <2>1, <2>2, <2>5 DEF Widens
  <2>7. \A b \in Agents : agents'[b] = IF b = a THEN p ELSE agents[b]
    BY <1>1, <1>7 DEF GovTypes
  <2> QED
    BY <1>1, <2>6, <2>7, SameIsAnnounced
<1>8. ASSUME NEW a \in Agents, ExecuteAgent(a) PROVE AgentsOk
  <2>1. /\ Due(pendingAgent[a])
        /\ agents' = [agents EXCEPT ![a] = pendingAgent[a].value]
    BY <1>8 DEF ExecuteAgent
  <2>2. pendingAgent[a] \in Proposals(Policies)
    BY <1>1 DEF GovTypes
  <2>3. Announced(pendingAgent[a], pendingAgent[a].value)
    BY <1>1, <2>1, <2>2, DueIsAnnounced
  <2>4. \A b \in Agents :
            agents'[b] = IF b = a THEN pendingAgent[a].value ELSE agents[b]
    BY <1>1, <2>1 DEF GovTypes
  <2> QED
    BY <1>1, <2>3, <2>4, SameIsAnnounced
<1>9. ASSUME NEW a \in Agents, RemoveAgent(a) PROVE AgentsOk
  <2>1. PICK p : p = [agents[a] EXCEPT !.active = FALSE]
    OBVIOUS
  <2>2. ~p.active
    BY <1>1, <1>9, <2>1 DEF RemoveAgent, GovTypes, PolicyType
  <2>3. \A b \in Agents : agents'[b] = IF b = a THEN p ELSE agents[b]
    BY <1>1, <1>9, <2>1 DEF RemoveAgent, GovTypes
  <2>4. ~Widens(agents[a], p)
    BY <2>2 DEF Widens
  <2> QED
    BY <1>1, <2>3, <2>4, SameIsAnnounced
<1>10. ASSUME NEW a \in Agents,
              \/ \E p \in Policies : SetAgent(a, p)
              \/ ExecuteAgent(a) \/ CancelAgent(a) \/ RemoveAgent(a)
       PROVE  AgentsOk /\ UNCHANGED <<global, prices>>
  <2>1. UNCHANGED <<global, prices>>
    BY <1>10 DEF SetAgent, ExecuteAgent, CancelAgent, RemoveAgent
  <2>2. ASSUME NEW p \in Policies, SetAgent(a, p) PROVE AgentsOk
    BY <1>2, <1>7, <2>2 DEF SetAgent
  <2>3. ASSUME CancelAgent(a) PROVE AgentsOk
    BY <1>2, <2>3 DEF CancelAgent
  <2> QED
    BY <1>8, <1>9, <1>10, <2>1, <2>2, <2>3
<1>11. ASSUME NEW empty,
              \/ \E c \in Configs : ProposeConfig(c, empty)
              \/ ExecuteConfig(empty) \/ CancelConfig
              \/ \E d \in Delays : SetConfigDelay(d)
       PROVE  GlobalOk /\ UNCHANGED <<agents, prices>>
  <2>1. UNCHANGED <<agents, prices>>
    BY <1>11 DEF ProposeConfig, ExecuteConfig, CancelConfig, SetConfigDelay
  <2>2. ASSUME NEW c \in Configs, ProposeConfig(c, empty) PROVE GlobalOk
    BY <1>2, <1>3, <2>2 DEF ProposeConfig
  <2>3. ASSUME CancelConfig \/ \E d \in Delays : SetConfigDelay(d)
        PROVE  GlobalOk
    BY <1>2, <2>3 DEF CancelConfig, SetConfigDelay
  <2> QED
    BY <1>4, <1>11, <2>1, <2>2, <2>3
<1>12. ASSUME \/ \E p \in PricePolicies : SetPricePolicy(p)
              \/ ExecutePricePolicy \/ CancelPricePolicy
              \/ \E p \in CreationPolicies : SetCreationPolicy(p)
              \/ Tick
       PROVE  PricesOk /\ UNCHANGED <<agents, global>>
  <2>1. UNCHANGED <<agents, global>>
    BY <1>12 DEF SetPricePolicy, ExecutePricePolicy, CancelPricePolicy,
                 SetCreationPolicy, Tick
  <2>2. ASSUME NEW p \in PricePolicies, SetPricePolicy(p) PROVE PricesOk
    BY <1>2, <1>5, <2>2 DEF SetPricePolicy
  <2>3. ASSUME \/ CancelPricePolicy \/ Tick
               \/ \E p \in CreationPolicies : SetCreationPolicy(p)
        PROVE  PricesOk
    BY <1>2, <2>3 DEF CancelPricePolicy, Tick, SetCreationPolicy
  <2> QED
    BY <1>6, <1>12, <2>1, <2>2, <2>3
<1>13. ASSUME UNCHANGED govVars PROVE UNCHANGED <<global, agents, prices>>
  BY <1>13 DEF govVars
<1>14. GlobalOk /\ AgentsOk /\ PricesOk
  <2> HIDE DEF GlobalOk, AgentsOk, PricesOk
  <2>1. ASSUME NEW empty \in BOOLEAN, GovStep(empty)
        PROVE  GlobalOk /\ AgentsOk /\ PricesOk
    BY <1>2, <1>10, <1>11, <1>12, <2>1 DEF GovStep
  <2> QED
    BY <1>2, <1>12, <1>13, <2>1 DEF GovNext
<1> QED
  BY <1>14 DEF StepAnnounced

-----------------------------------------------------------------------------
(* The treasury implements the governance.                                 *)

LEMMA TreasuryStepsGov == [Next]_vars => [GovNext]_govVars
<1> SUFFICES ASSUME [Next]_vars PROVE [GovNext]_govVars
  OBVIOUS
<1>1. ASSUME ConfigStep PROVE GovNext
  <2>1. Empty \in BOOLEAN
    BY DEF Empty
  <2> QED
    BY <1>1, <2>1 DEF ConfigStep, GovNext
<1>2. ASSUME ShareStep PROVE UNCHANGED govVars
  BY <1>2 DEF ShareStep, Deposit, Donate, RequestWithdraw, EmergencyWithdraw,
              ClaimWithdraw
<1>3. ASSUME CreateStep PROVE UNCHANGED govVars
  BY <1>3 DEF CreateStep, AgentCreateMarket, Spend
<1>4. ASSUME TradeStep PROVE UNCHANGED govVars
  <2>1. PICK a \in Agents, id \in Ids, o \in Outcomes :
            \/ \E n, x, l, short : DoAgentBuy(a, id, o, n, x, l, short)
            \/ \E n, x, l : DoAgentSell(a, id, o, n, x, l)
    BY <1>4 DEF TradeStep, AgentBuy, AgentBuyV2, AgentSell, AgentSellV2
  <2>2. ASSUME NEW n, NEW x, NEW l, NEW short,
               DoAgentBuy(a, id, o, n, x, l, short)
        PROVE  UNCHANGED govVars
    BY <2>2 DEF DoAgentBuy, Spend
  <2>3. ASSUME NEW n, NEW x, NEW l, DoAgentSell(a, id, o, n, x, l)
        PROVE  UNCHANGED govVars
    BY <2>3 DEF DoAgentSell, Return
  <2> QED
    BY <2>1, <2>2, <2>3
<1>5. ASSUME SettleStep PROVE UNCHANGED govVars
  <2>1. ASSUME NEW id \in Ids, SettleMarket(id) PROVE UNCHANGED govVars
    BY <2>1 DEF SettleMarket, Settle, Return
  <2>2. ASSUME NEW id \in Ids, Realize(id) \/ CollectMarketFees(id)
        PROVE  UNCHANGED govVars
    BY <2>2 DEF Realize, CollectMarketFees, Settle, Return
  <2>3. ASSUME NEW a \in Agents, NEW id \in Ids,
               AgentClaimLpFees(a, id) \/ CloseTrade(a, id)
        PROVE  UNCHANGED govVars
    BY <2>3 DEF AgentClaimLpFees, CloseTrade, Settle, Return
  <2>4. ASSUME NEW a \in Agents, NEW id \in Ids,
               Redeem(a, id) \/ ClaimPoolRemainder(a, id)
        PROVE  UNCHANGED govVars
    BY <2>4 DEF Redeem, ClaimPoolRemainder, DoRedeem, DoClaim, Settle, Return
  <2>5. ASSUME NEW a \in Agents, NEW k \in Markets,
               LegacyRedeem(a, k) \/ LegacyClaimPoolRemainder(a, k)
        PROVE  UNCHANGED govVars
    BY <2>5 DEF LegacyRedeem, LegacyClaimPoolRemainder, DoRedeem, DoClaim,
                Settle, Return
  <2> QED
    BY <1>5, <2>1, <2>2, <2>3, <2>4, <2>5 DEF SettleStep
<1>6. ASSUME BatchStep PROVE UNCHANGED govVars
  BY <1>6 DEF BatchStep, RedeemMany, ClaimPoolRemainders, BatchPaid
<1>7. ASSUME StopStep PROVE UNCHANGED govVars
  BY <1>7 DEF StopStep, SetPaused, Unpause, AcknowledgeDrawdown, SetStop,
              ResetPnlWindow, SetDrawdownConfig, ClearResults
<1>8. ASSUME YieldStep \/ MigrateStep PROVE UNCHANGED govVars
  BY <1>8 DEF YieldStep, SetYieldVenue, DisableYield, YieldAccrues,
              AllocateToYield, RecallFromYield, Withdraw, MigrateStep,
              SetSuccessor, MigrateMarket
<1>9. ASSUME OthersStep PROVE UNCHANGED govVars
  BY <1>9 DEF OthersStep, OthersCreate, OthersBuy, Resolved, Gift, ClosedOut,
              SetMarket
<1>10. ASSUME UNCHANGED vars PROVE UNCHANGED govVars
  BY <1>10 DEF vars, govVars
<1> QED
  BY <1>1, <1>2, <1>3, <1>4, <1>5, <1>6, <1>7, <1>8, <1>9, <1>10 DEF Next

(* Whatever shareholders, agents, markets and the venue do, the treasury's *)
(* configuration moves only as its governance allows.                      *)
THEOREM TreasuryIsGoverned == Spec => GovSpec
<1>1. Init => GovInit
  BY DEF Init
<1>2. [Next]_vars => [GovNext]_govVars
  BY TreasuryStepsGov
<1> QED
  BY <1>1, <1>2, PTL DEF Spec, GovSpec

(* Some active agent can always settle, and the list of agents keeps to    *)
(* MAX_AGENTS, however many additions were announced.                      *)
THEOREM AgentsKeepBounds == Spec => []AgentsInBounds
<1>1. GovInv => AgentsInBounds
  BY DEF GovInv
<1> QED
  BY <1>1, GovInvariance, TreasuryIsGoverned, PTL

(* No cap, core, collateral, agent or price band is loosened by a step     *)
(* that was not announced MIN_CONFIG_DELAY before.                         *)
THEOREM EveryLooseningWasAnnounced == Spec => LooseningAnnounced
<1>1. GovInv /\ [GovNext]_govVars => [StepAnnounced]_govVars
  BY GovAnnounced
<1>2. GovSpec => LooseningAnnounced
  BY <1>1, GovInvariance, PTL DEF GovSpec, LooseningAnnounced, StepAnnounced
<1> QED
  BY <1>2, TreasuryIsGoverned

-----------------------------------------------------------------------------
(* Valuation.                                                              *)

LEMMA FloorNat ==
    ASSUME NEW m \in MarketType PROVE FloorValue(m) \in Nat
<1>1. m.pos \in [Outcomes -> Nat] /\ LpPart(m) \in [Outcomes -> Nat]
  BY DEF MarketType, LpPart
<1>2. PICK p \in [Outcomes -> Nat], r \in [Outcomes -> Nat] :
         p = m.pos /\ r = LpPart(m)
  BY <1>1
<1>3. p.yes \in Nat /\ p.no \in Nat /\ r.yes \in Nat /\ r.no \in Nat
  BY DEF Outcomes
<1>4. MinOf(p.yes, p.no) \in Nat /\ MinOf(r.yes, r.no) \in Nat
  BY <1>3 DEF MinOf
<1>5. (p.yes + p.no) \div 2 \in Nat /\ (r.yes + r.no) \div 2 \in Nat
  BY <1>3, Division
<1>6. m.status \in {"none", "open", "yes", "no", "void"}
  BY DEF MarketType
<1>7. /\ TreasurySettleValue(m.status, p) \in Nat
      /\ TreasurySettleValue(m.status, r) \in Nat
  BY <1>3, <1>5, <1>6 DEF TreasurySettleValue
<1> QED
  BY <1>2, <1>4, <1>7 DEF FloorValue

LEMMA HoldingsNat ==
    ASSUME StateTypes PROVE HoldingsValue \in Nat
<1> DEFINE f == [i \in DOMAIN book.at |-> FloorValue(mkt[book.at[i]])]
<1>1. DOMAIN book.at = 1 .. Len(book.at) /\ Len(book.at) \in Nat
  BY DEF StateTypes
<1>2. IsFiniteSet(DOMAIN book.at)
  BY <1>1, FS_Interval
<1>3. \A i \in DOMAIN book.at : mkt[book.at[i]] \in MarketType
  BY DEF StateTypes
<1>4. \A i \in DOMAIN book.at : f[i] \in Nat
  BY <1>3, FloorNat
<1>5. SumFunctionOnSet(f, DOMAIN book.at) \in Nat
  <2> HIDE DEF f
  <2> QED
    BY <1>2, <1>4, SumNat
<1>6. SumFunction(f) = SumFunctionOnSet(f, DOMAIN book.at)
  BY SumDomain
<1> QED
  BY <1>5, <1>6 DEF HoldingsValue

LEMMA NavFacts ==
    ASSUME StateTypes
    PROVE  /\ ComputeNav \in Nat /\ Free \in Nat /\ Free <= ComputeNav
           /\ vault.idle + HoldingsValue - vault.reserved <= ComputeNav
           /\ Covered => ComputeNav
                           = vault.idle + HoldingsValue - vault.reserved
<1>1. vault.idle \in Int /\ vault.reserved \in Int
  BY DEF StateTypes, VaultType
<1> QED
  BY <1>1, HoldingsNat DEF ComputeNav, Free, NonNeg, Covered

-----------------------------------------------------------------------------
(* Shares and the queue.                                                   *)

LEMMA SharesSum ==
    ASSUME NEW s \in [Owners -> Nat]
    PROVE  /\ SumFunction([x \in Owners |-> s[x]]) \in Nat
           /\ (\A o \in Owners : s[o] = 0)
              => SumFunction([x \in Owners |-> s[x]]) = 0
<1> DEFINE f == [x \in Owners |-> s[x]]
<1>1. \A x \in Owners : f[x] \in Nat
  OBVIOUS
<1>2. SumFunction(f) = SumFunctionOnSet(f, Owners)
  BY SumDomain
<1>3. IsFiniteSet(Owners)
  BY TreasuryAssumption
<1>4. SumFunctionOnSet(f, Owners) \in Nat
  <2> HIDE DEF f
  <2> QED
    BY <1>1, <1>3, SumNat
<1>5. (\A o \in Owners : f[o] = 0) => SumFunctionOnSet(f, Owners) = 0
  <2> HIDE DEF f
  <2> QED
    BY <1>3, SumZero
<1> QED
  BY <1>2, <1>4, <1>5

LEMMA SharesSumChange ==
    ASSUME NEW s \in [Owners -> Nat], NEW t \in [Owners -> Nat],
           NEW o \in Owners, NEW d \in Int, t = [s EXCEPT ![o] = @ + d]
    PROVE  SumFunction([x \in Owners |-> t[x]])
               = SumFunction([x \in Owners |-> s[x]]) + d
<1> DEFINE f == [x \in Owners |-> s[x]]
           g == [x \in Owners |-> t[x]]
<1>1. \A x \in Owners : f[x] \in Nat /\ g[x] \in Nat
  OBVIOUS
<1>2. /\ SumFunction(f) = SumFunctionOnSet(f, Owners)
      /\ SumFunction(g) = SumFunctionOnSet(g, Owners)
  BY SumDomain
<1>3. IsFiniteSet(Owners)
  BY TreasuryAssumption
<1>4. /\ \A x \in Owners : x # o => f[x] = g[x]
      /\ g[o] = f[o] + d
  OBVIOUS
<1>5. /\ SumFunctionOnSet(g, Owners)
           = SumFunctionOnSet(f, Owners) - f[o] + g[o]
      /\ SumFunctionOnSet(f, Owners) \in Nat
  <2> HIDE DEF f, g
  <2>1. \A x \in Owners : f[x] \in Int /\ g[x] \in Int
    BY <1>1
  <2>2. SumFunctionOnSet(g, Owners)
          = SumFunctionOnSet(f, Owners) - f[o] + g[o]
    BY <1>3, <1>4, <2>1, SumChange
  <2>3. SumFunctionOnSet(f, Owners) \in Nat
    BY <1>1, <1>3, SumNat
  <2> QED
    BY <2>2, <2>3
<1>6. SumFunctionOnSet(g, Owners) = SumFunctionOnSet(f, Owners) + d
  <2> HIDE DEF f, g
  <2> QED
    BY <1>1, <1>4, <1>5
<1> QED
  BY <1>2, <1>6

(* What the tickets of a queue from h to t - 1 are owed.                   *)
OwedTickets(T, h, t) == SumFunction([i \in h .. t - 1 |-> T[i].remaining])

Queue(T, h, t) ==
    /\ T \in [1 .. MaxTickets -> Tickets \cup {None}]
    /\ h \in Nat /\ t \in Nat /\ h >= 1 /\ h <= t /\ t <= MaxTickets + 1
    /\ \A i \in 1 .. MaxTickets : T[i] # None <=> i \in h .. t - 1

LEMMA QueueMember ==
    ASSUME NEW T, NEW h, NEW t, Queue(T, h, t), NEW i \in h .. t - 1
    PROVE  /\ i \in 1 .. MaxTickets /\ T[i] \in Tickets
           /\ T[i].remaining \in Nat \ {0}
<1>1. MaxTickets \in Nat
  BY TreasuryAssumption
<1>2. i \in 1 .. MaxTickets /\ T[i] \in Tickets
  BY <1>1 DEF Queue
<1> QED
  BY <1>2 DEF Tickets

LEMMA QueueOwed ==
    ASSUME NEW T, NEW h, NEW t, Queue(T, h, t), NEW f, NEW S,
           f = [i \in h .. t - 1 |-> T[i].remaining], S = h .. t - 1
    PROVE  /\ OwedTickets(T, h, t) = SumFunctionOnSet(f, S)
           /\ OwedTickets(T, h, t) \in Nat
<1>1. IsFiniteSet(S)
  BY FS_Interval DEF Queue
<1>2. \A i \in S : f[i] \in Nat
  BY QueueMember
<1>3. SumFunction(f) = SumFunctionOnSet(f, S)
  BY SumDomain
<1>4. SumFunctionOnSet(f, S) \in Nat
  BY <1>1, <1>2, SumNat
<1> QED
  BY <1>3, <1>4 DEF OwedTickets

LEMMA QueuePush ==
    ASSUME NEW T, NEW h, NEW t, Queue(T, h, t), t <= MaxTickets,
           NEW k \in Tickets
    PROVE  /\ Queue([T EXCEPT ![t] = k], h, t + 1)
           /\ OwedTickets([T EXCEPT ![t] = k], h, t + 1)
                = OwedTickets(T, h, t) + k.remaining
<1> DEFINE U == [T EXCEPT ![t] = k]
           n == t + 1
<1>1. MaxTickets \in Nat /\ None \notin Tickets
  BY TreasuryAssumption
<1>2. Queue(U, h, n)
  BY <1>1 DEF Queue
<1> DEFINE f == [i \in h .. t - 1 |-> T[i].remaining]
           g == [i \in h .. n - 1 |-> U[i].remaining]
           S == h .. t - 1
           R == h .. n - 1
<1>3. h \in Nat /\ t \in Nat /\ h >= 1 /\ h <= t
  BY DEF Queue
<1>4. R \ {t} = S /\ t \in R /\ t \notin S
  BY <1>3
<1>5. \A i \in S : i \in 1 .. MaxTickets /\ T[i] \in Tickets
  BY QueueMember
<1>6. \A i \in S : g[i] = f[i] /\ f[i] \in Nat /\ f[i] = T[i].remaining
  <2> SUFFICES ASSUME NEW i \in S PROVE g[i] = f[i] /\ f[i] \in Nat
    OBVIOUS
  <2>1. U[i] = T[i]
    BY <1>3, <1>5 DEF Queue
  <2> QED
    BY <1>3, <1>5, <2>1 DEF Tickets
<1>7. g[t] = k.remaining /\ k.remaining \in Nat
  <2>1. U[t] = k
    BY <1>1, <1>3 DEF Queue
  <2> QED
    BY <1>3, <2>1 DEF Tickets
<1>8. SumFunctionOnSet(g, R) = g[t] + SumFunctionOnSet(g, S)
  <2>1. IsFiniteSet(R)
    BY <1>3, FS_Interval
  <2> HIDE DEF U, n, f, g, S, R
  <2>2. \A i \in R : g[i] \in Int
    BY <1>4, <1>6, <1>7
  <2>3. SumFunctionOnSet(g, R) = g[t] + SumFunctionOnSet(g, R \ {t})
    BY <1>4, <2>1, <2>2, SumTake
  <2> QED
    BY <1>4, <2>3
<1>9. SumFunctionOnSet(g, S) = SumFunctionOnSet(f, S)
  <2>1. IsFiniteSet(S)
    BY <1>3, FS_Interval
  <2> HIDE DEF U, n, f, g, S, R
  <2>2. \A i \in S : g[i] \in Int /\ g[i] = f[i]
    BY <1>6
  <2> QED
    BY <2>1, <2>2, SumSame
<1>10. OwedTickets(U, h, n) = SumFunctionOnSet(g, R)
  <2>1. g = [i \in h .. n - 1 |-> U[i].remaining] /\ R = h .. n - 1
    OBVIOUS
  <2> HIDE DEF U, n, f, g, S, R
  <2> QED
    BY <1>2, <2>1, QueueOwed
<1>11. OwedTickets(T, h, t) = SumFunctionOnSet(f, S)
       /\ OwedTickets(T, h, t) \in Nat
  BY QueueOwed
<1>13. OwedTickets(U, h, n) = OwedTickets(T, h, t) + k.remaining
  <2> HIDE DEF U, n, f, g, S, R
  <2> QED
    BY <1>7, <1>8, <1>9, <1>10, <1>11
<1> QED
  BY <1>2, <1>13

LEMMA QueuePart ==
    ASSUME NEW T, NEW h, NEW t, Queue(T, h, t), h < t,
           NEW a \in Nat, a < T[h].remaining
    PROVE  /\ Queue([T EXCEPT ![h].remaining = @ - a], h, t)
           /\ OwedTickets([T EXCEPT ![h].remaining = @ - a], h, t)
                = OwedTickets(T, h, t) - a
<1> DEFINE U == [T EXCEPT ![h].remaining = @ - a]
<1>1. MaxTickets \in Nat /\ None \notin Tickets
  BY TreasuryAssumption
<1>2. h \in Nat /\ t \in Nat /\ h >= 1 /\ h \in 1 .. MaxTickets
      /\ T[h] \in Tickets
  <2>1. h \in Nat /\ t \in Nat /\ h >= 1 /\ h \in h .. t - 1
    BY DEF Queue
  <2> QED
    BY <2>1, QueueMember
<1>3. /\ U[h] = [T[h] EXCEPT !.remaining = @ - a]
      /\ \A i \in 1 .. MaxTickets : i # h => U[i] = T[i]
      /\ DOMAIN U = 1 .. MaxTickets
  BY <1>2 DEF Queue
<1>4. U[h] \in Tickets /\ U[h].remaining = T[h].remaining - a
  BY <1>2, <1>3 DEF Tickets
<1>5. Queue(U, h, t)
  <2>1. U \in [1 .. MaxTickets -> Tickets \cup {None}]
    <3>1. \A i \in 1 .. MaxTickets : U[i] \in Tickets \cup {None}
      BY <1>3, <1>4 DEF Queue
    <3>2. U = [i \in 1 .. MaxTickets |-> U[i]]
      BY <1>2 DEF Queue
    <3> QED
      BY <3>1, <3>2
  <2>2. \A i \in 1 .. MaxTickets : U[i] # None <=> T[i] # None
    BY <1>1, <1>2, <1>3, <1>4
  <2> QED
    BY <2>1, <2>2 DEF Queue
<1> DEFINE f == [i \in h .. t - 1 |-> T[i].remaining]
           g == [i \in h .. t - 1 |-> U[i].remaining]
           S == h .. t - 1
<1>6. \A i \in S : f[i] = T[i].remaining /\ f[i] \in Int
  <2>1. \A i \in S : T[i].remaining \in Nat
    BY QueueMember
  <2> QED
    BY <2>1
<1>7. \A i \in S : g[i] = U[i].remaining /\ g[i] \in Int
  <2>1. \A i \in S : U[i].remaining \in Nat
    BY <1>5, QueueMember
  <2> QED
    BY <2>1
<1>8. h \in S /\ \A i \in S : i # h => f[i] = g[i]
  <2>1. \A i \in S : i \in 1 .. MaxTickets
    BY QueueMember
  <2> QED
    BY <1>2, <1>3, <1>6, <1>7, <2>1
<1>9. SumFunctionOnSet(g, S) = SumFunctionOnSet(f, S) - f[h] + g[h]
  <2>1. IsFiniteSet(S)
    BY <1>2, FS_Interval
  <2> HIDE DEF U, f, g, S
  <2>2. \A i \in S : f[i] \in Int /\ g[i] \in Int
    BY <1>6, <1>7
  <2> QED
    BY <1>8, <2>1, <2>2, SumChange
<1>10. OwedTickets(U, h, t) = SumFunctionOnSet(g, S)
  <2>1. g = [i \in h .. t - 1 |-> U[i].remaining] /\ S = h .. t - 1
    OBVIOUS
  <2> HIDE DEF U, f, g, S
  <2> QED
    BY <1>5, <2>1, QueueOwed
<1>11. OwedTickets(T, h, t) = SumFunctionOnSet(f, S)
       /\ OwedTickets(T, h, t) \in Nat
  BY QueueOwed
<1>12. f[h] \in Int /\ g[h] = f[h] - a
  BY <1>4, <1>6, <1>7, <1>8
<1>13. OwedTickets(U, h, t) = OwedTickets(T, h, t) - a
  <2> HIDE DEF U, f, g, S
  <2> QED
    BY <1>9, <1>10, <1>11, <1>12
<1> QED
  BY <1>5, <1>13

LEMMA QueuePop ==
    ASSUME NEW T, NEW h, NEW t, Queue(T, h, t), h < t
    PROVE  /\ Queue([T EXCEPT ![h] = None], h + 1, t)
           /\ OwedTickets([T EXCEPT ![h] = None], h + 1, t)
                = OwedTickets(T, h, t) - T[h].remaining
<1> DEFINE U == [T EXCEPT ![h] = None]
<1>1. MaxTickets \in Nat /\ None \notin Tickets
  BY TreasuryAssumption
<1>2. h \in Nat /\ t \in Nat /\ h >= 1
  BY DEF Queue
<1>3. Queue(U, h + 1, t)
  BY <1>1 DEF Queue
<1> DEFINE f == [i \in h .. t - 1 |-> T[i].remaining]
           g == [i \in h + 1 .. t - 1 |-> U[i].remaining]
           S == h .. t - 1
           R == h + 1 .. t - 1
<1>4. S \ {h} = R /\ h \in S /\ R \subseteq S /\ h \notin R
  BY <1>2
<1>5. \A i \in S : f[i] = T[i].remaining /\ f[i] \in Int
  <2>1. \A i \in S : T[i].remaining \in Nat
    BY QueueMember
  <2> QED
    BY <2>1
<1>6. \A i \in R : g[i] = U[i].remaining /\ g[i] \in Int
  <2>1. \A i \in R : U[i].remaining \in Nat
    BY <1>3, QueueMember
  <2> QED
    BY <2>1
<1>7. \A i \in R : f[i] = g[i]
  <2> SUFFICES ASSUME NEW i \in R PROVE f[i] = g[i]
    OBVIOUS
  <2>1. i \in 1 .. MaxTickets /\ i # h
    BY <1>4, QueueMember
  <2>2. U[i] = T[i]
    BY <2>1 DEF Queue
  <2> QED
    BY <1>4, <1>5, <1>6, <2>2
<1>8. SumFunctionOnSet(f, S) = f[h] + SumFunctionOnSet(f, R)
  <2>1. IsFiniteSet(S)
    BY <1>2, FS_Interval
  <2> HIDE DEF U, f, g, S, R
  <2>2. SumFunctionOnSet(f, S) = f[h] + SumFunctionOnSet(f, S \ {h})
    BY <1>4, <1>5, <2>1, SumTake
  <2> QED
    BY <1>4, <2>2
<1>9. SumFunctionOnSet(f, R) = SumFunctionOnSet(g, R)
  <2>1. IsFiniteSet(R)
    BY <1>2, FS_Interval
  <2> HIDE DEF U, f, g, S, R
  <2>2. \A i \in R : f[i] \in Int /\ f[i] = g[i]
    BY <1>4, <1>5, <1>7
  <2> QED
    BY <2>1, <2>2, SumSame
<1>10. OwedTickets(U, h + 1, t) = SumFunctionOnSet(g, R)
       /\ OwedTickets(U, h + 1, t) \in Nat
  <2>1. g = [i \in h + 1 .. t - 1 |-> U[i].remaining] /\ R = h + 1 .. t - 1
    OBVIOUS
  <2> HIDE DEF U, f, g, S, R
  <2> QED
    BY <1>3, <2>1, QueueOwed
<1>11. OwedTickets(T, h, t) = SumFunctionOnSet(f, S)
  BY QueueOwed
<1>12. f[h] \in Int /\ f[h] = T[h].remaining
  BY <1>4, <1>5
<1>13. OwedTickets(U, h + 1, t) = OwedTickets(T, h, t) - T[h].remaining
  <2> HIDE DEF U, f, g, S, R
  <2> QED
    BY <1>8, <1>9, <1>10, <1>11, <1>12
<1> QED
  BY <1>3, <1>13

SharesBacked(s, supply) ==
    \/ supply = 0 /\ \A o \in Owners : s[o] = 0
    \/ supply = VirtualShares + SumFunction([x \in Owners |-> s[x]])

(* VaultInv with the types it needs, of the vault as a value.              *)
VaultShape(v) ==
    /\ v \in VaultType
    /\ Queue(v.ticket, v.head, v.tail)
    /\ v.reserved = OwedTickets(v.ticket, v.head, v.tail)
    /\ SharesBacked(v.shares, v.supply)

LEMMA ShapeIsInv ==
    /\ VaultShape(vault) <=> vault \in VaultType /\ VaultInv
    /\ VaultShape(vault') <=> (vault \in VaultType /\ VaultInv)'
<1>1. VirtualShares \in Nat \ {0}
  BY TreasuryMathAssumption
<1>2. ASSUME NEW s \in [Owners -> Nat]
      PROVE  SumFunction([x \in Owners |-> s[x]]) \in Nat
  BY <1>2, SharesSum
<1>3. VaultShape(vault) <=> vault \in VaultType /\ VaultInv
  <2> SUFFICES ASSUME vault \in VaultType PROVE VaultShape(vault) <=> VaultInv
    BY DEF VaultShape
  <2>1. SharesBacked(vault.shares, vault.supply)
        <=> /\ TotalShares > 0 => TotalShares = VirtualShares
                     + SumFunction([o \in Owners |-> SharesOf(o)])
            /\ TotalShares = 0 => \A o \in Owners : SharesOf(o) = 0
    BY <1>1, <1>2 DEF SharesBacked, TotalShares, SharesOf, VaultType
  <2>2. vault.reserved = OwedTickets(vault.ticket, vault.head, vault.tail)
        <=> QueueReserved = SumFunction([i \in QueueBounds
                                            |-> WithdrawTicket(i).remaining])
    BY DEF OwedTickets, QueueReserved, QueueBounds, WithdrawTicket
  <2>3. Queue(vault.ticket, vault.head, vault.tail)
        <=> /\ vault.head >= 1 /\ vault.head <= vault.tail
            /\ vault.tail <= MaxTickets + 1
            /\ \A i \in 1 .. MaxTickets :
                  WithdrawTicket(i) # None <=> i \in QueueBounds
    BY DEF Queue, VaultType, WithdrawTicket, QueueBounds
  <2> QED
    BY <2>1, <2>2, <2>3 DEF VaultShape, VaultInv, VaultBooks
<1>4. VaultShape(vault') <=> (vault \in VaultType /\ VaultInv)'
  <2> SUFFICES ASSUME vault' \in VaultType
               PROVE  VaultShape(vault') <=> VaultInv'
    BY DEF VaultShape
  <2>1. SharesBacked(vault'.shares, vault'.supply)
        <=> /\ TotalShares' > 0 => TotalShares' = VirtualShares
                     + SumFunction([o \in Owners |-> SharesOf(o)])'
            /\ TotalShares' = 0 => \A o \in Owners : SharesOf(o)' = 0
    BY <1>1, <1>2 DEF SharesBacked, TotalShares, SharesOf, VaultType
  <2>2. vault'.reserved = OwedTickets(vault'.ticket, vault'.head, vault'.tail)
        <=> (QueueReserved = SumFunction([i \in QueueBounds
                                            |-> WithdrawTicket(i).remaining]))'
    BY DEF OwedTickets, QueueReserved, QueueBounds, WithdrawTicket
  <2>3. Queue(vault'.ticket, vault'.head, vault'.tail)
        <=> /\ vault'.head >= 1 /\ vault'.head <= vault'.tail
            /\ vault'.tail <= MaxTickets + 1
            /\ \A i \in 1 .. MaxTickets :
                  WithdrawTicket(i)' # None <=> i \in QueueBounds'
    BY DEF Queue, VaultType, WithdrawTicket, QueueBounds
  <2> QED
    BY <2>1, <2>2, <2>3 DEF VaultShape, VaultInv, VaultBooks
<1> QED
  BY <1>3, <1>4

(* Collateral moves without touching shares or queue.                      *)
LEMMA ShapeCash ==
    ASSUME NEW v, VaultShape(v), NEW i \in Int, NEW w \in [Owners -> Int]
    PROVE  VaultShape([v EXCEPT !.idle = i, !.wallet = w])
<1> DEFINE u == [v EXCEPT !.idle = i, !.wallet = w]
<1>1. /\ u \in VaultType /\ u.ticket = v.ticket /\ u.head = v.head
      /\ u.tail = v.tail /\ u.reserved = v.reserved /\ u.shares = v.shares
      /\ u.supply = v.supply
  BY DEF VaultShape, VaultType
<1> HIDE DEF u
<1>2. VaultShape(u)
  BY <1>1 DEF VaultShape
<1> QED
  BY <1>2 DEF u

(* c of the m shares minted go to o, all but the dead ones.                *)
LEMMA ShapeMint ==
    ASSUME NEW v, VaultShape(v), NEW o \in Owners, NEW m \in Nat, NEW c \in Nat,
           c = m - (IF v.supply = 0 THEN VirtualShares ELSE 0)
    PROVE  VaultShape([v EXCEPT !.shares[o] = @ + c, !.supply = @ + m])
<1> DEFINE u == [v EXCEPT !.shares[o] = @ + c, !.supply = @ + m]
           T(s) == SumFunction([x \in Owners |-> s[x]])
<1>1. VirtualShares \in Nat \ {0}
  BY TreasuryMathAssumption
<1>2. v.shares \in [Owners -> Nat] /\ v.supply \in Nat
  BY DEF VaultShape, VaultType
<1>3. /\ u \in VaultType /\ u.ticket = v.ticket /\ u.head = v.head
      /\ u.tail = v.tail /\ u.reserved = v.reserved
      /\ u.shares = [v.shares EXCEPT ![o] = @ + c]
      /\ u.supply = v.supply + m
  <2> DEFINE s == [v.shares EXCEPT ![o] = @ + c]
             n == v.supply + m
  <2>1. s \in [Owners -> Nat] /\ n \in Nat
    BY <1>2
  <2>2. u = [v EXCEPT !.shares = s, !.supply = n]
    BY <1>2 DEF VaultShape, VaultType
  <2> HIDE DEF u, s, n
  <2>3. /\ u \in VaultType /\ u.ticket = v.ticket /\ u.head = v.head
        /\ u.tail = v.tail /\ u.reserved = v.reserved
        /\ u.shares = s /\ u.supply = n
    BY <2>1, <2>2 DEF VaultShape, VaultType
  <2> QED
    BY <2>3 DEF s, n
<1>4. u.shares \in [Owners -> Nat]
  BY <1>3 DEF VaultType
<1> HIDE DEF u
<1>5. /\ T(u.shares) = T(v.shares) + c /\ T(v.shares) \in Nat
      /\ (\A x \in Owners : v.shares[x] = 0) => T(v.shares) = 0
  <2>1. T(u.shares) = T(v.shares) + c
    BY <1>2, <1>3, <1>4, SharesSumChange
  <2> QED
    BY <1>2, <2>1, SharesSum
<1>6. SharesBacked(u.shares, u.supply)
  <2>1. \/ v.supply = 0 /\ \A x \in Owners : v.shares[x] = 0
        \/ v.supply = VirtualShares + T(v.shares)
    BY DEF VaultShape, SharesBacked
  <2> HIDE DEF T
  <2>2. u.supply = VirtualShares + T(u.shares)
    BY <1>1, <1>2, <1>3, <1>5, <2>1
  <2> QED
    BY <2>2 DEF SharesBacked, T
<1>7. VaultShape(u)
  BY <1>3, <1>6 DEF VaultShape
<1> QED
  BY <1>7 DEF u

LEMMA ShapeBurn ==
    ASSUME NEW v, VaultShape(v), NEW o \in Owners, NEW n \in Nat, n > 0,
           n <= v.shares[o]
    PROVE  VaultShape(BurnShares(v, o, n)) /\ n < v.supply
<1> DEFINE u == BurnShares(v, o, n)
           T(s) == SumFunction([x \in Owners |-> s[x]])
<1>1. VirtualShares \in Nat \ {0}
  BY TreasuryMathAssumption
<1>2. v.shares \in [Owners -> Nat] /\ v.supply \in Nat
  BY DEF VaultShape, VaultType
<1> DEFINE d == -n
           s == [v.shares EXCEPT ![o] = @ + d]
<1>3. s \in [Owners -> Nat] /\ d \in Int
  BY <1>2
<1>4. T(s) = T(v.shares) + d
  <2> HIDE DEF s, d
  <2>1. s = [v.shares EXCEPT ![o] = @ + d]
    BY DEF s
  <2> QED
    BY <1>2, <1>3, <2>1, SharesSumChange
<1>5. T(s) \in Nat /\ T(v.shares) \in Nat
  <2> HIDE DEF s, d
  <2> QED
    BY <1>2, <1>3, SharesSum
<1>6. v.supply = VirtualShares + T(v.shares)
  <2>1. v.shares[o] # 0
    BY <1>2
  <2> QED
    BY <2>1 DEF VaultShape, SharesBacked
<1>7. v.supply - n \in Nat /\ n < v.supply
      /\ v.supply - n = VirtualShares + T(s)
  <2> HIDE DEF T, s
  <2> QED
    BY <1>1, <1>2, <1>4, <1>5, <1>6
<1>8. u = [v EXCEPT !.shares = s, !.supply = v.supply - n]
  BY <1>2 DEF BurnShares, VaultShape, VaultType
<1>9. /\ u \in VaultType /\ u.ticket = v.ticket /\ u.head = v.head
      /\ u.tail = v.tail /\ u.reserved = v.reserved
      /\ u.shares = s /\ u.supply = v.supply - n
  <2> HIDE DEF u, s, T
  <2> QED
    BY <1>3, <1>7, <1>8 DEF VaultShape, VaultType
<1> HIDE DEF u, s
<1>10. SharesBacked(u.shares, u.supply)
  BY <1>7, <1>9 DEF SharesBacked
<1>11. VaultShape(u)
  BY <1>9, <1>10 DEF VaultShape
<1> QED
  BY <1>7, <1>11 DEF u

LEMMA ShapeQueue ==
    ASSUME NEW v, VaultShape(v), NEW T, NEW h, NEW t, Queue(T, h, t),
           NEW r \in Int, r = OwedTickets(T, h, t)
    PROVE  VaultShape([v EXCEPT !.ticket = T, !.head = h, !.tail = t,
                                !.reserved = r])
<1> DEFINE u == [v EXCEPT !.ticket = T, !.head = h, !.tail = t,
                          !.reserved = r]
<1>1. h \in Nat /\ t \in Nat /\ T \in [1 .. MaxTickets -> Tickets \cup {None}]
  BY DEF Queue
<1>2. /\ u \in VaultType /\ u.ticket = T /\ u.head = h
      /\ u.tail = t /\ u.reserved = r /\ u.shares = v.shares
      /\ u.supply = v.supply
  BY <1>1 DEF VaultShape, VaultType
<1> HIDE DEF u
<1>3. VaultShape(u)
  BY <1>2 DEF VaultShape
<1> QED
  BY <1>3 DEF u

(* Every step that moves collateral only.                                  *)
CashStep ==
    \E i \in Int, w \in [Owners -> Int] :
        vault' = [vault EXCEPT !.idle = i, !.wallet = w]

LEMMA CashKeepsShape ==
    ASSUME VaultShape(vault), CashStep
    PROVE  /\ VaultShape(vault')
           /\ vault'.supply = vault.supply /\ vault'.reserved = vault.reserved
<1>1. PICK i \in Int, w \in [Owners -> Int] :
         vault' = [vault EXCEPT !.idle = i, !.wallet = w]
  BY DEF CashStep
<1>2. VaultShape([vault EXCEPT !.idle = i, !.wallet = w])
  BY ShapeCash
<1> QED
  BY <1>1, <1>2 DEF VaultShape, VaultType

LEMMA IdleIsCash ==
    ASSUME vault \in VaultType, NEW i \in Int,
           vault' = [vault EXCEPT !.idle = i]
    PROVE  CashStep
<1>1. vault.wallet \in [Owners -> Int]
  BY DEF VaultType
<1>2. vault' = [vault EXCEPT !.idle = i, !.wallet = vault.wallet]
  BY DEF VaultType
<1> QED
  BY <1>1, <1>2 DEF CashStep

LEMMA WalletIsCash ==
    ASSUME vault \in VaultType, NEW i \in Int, NEW o \in Owners, NEW d \in Int,
           vault' = [vault EXCEPT !.idle = i, !.wallet[o] = @ + d]
    PROVE  CashStep
<1>1. vault.wallet \in [Owners -> Int]
  BY DEF VaultType
<1>2. [vault.wallet EXCEPT ![o] = @ + d] \in [Owners -> Int]
  BY <1>1
<1>3. vault' = [vault EXCEPT !.idle = i,
                             !.wallet = [vault.wallet EXCEPT ![o] = @ + d]]
  BY DEF VaultType
<1> QED
  BY <1>2, <1>3 DEF CashStep

LEMMA SameIsCash ==
    ASSUME vault \in VaultType, vault' = vault PROVE CashStep
<1>1. vault.wallet \in [Owners -> Int] /\ vault.idle \in Int
  BY DEF VaultType
<1>2. vault' = [vault EXCEPT !.idle = vault.idle, !.wallet = vault.wallet]
  BY DEF VaultType
<1> QED
  BY <1>1, <1>2 DEF CashStep

LEMMA RecallInt ==
    ASSUME vault \in VaultType, NEW n \in Int, NEW short \in 0 .. 1
    PROVE  /\ Recalled(n) \in Int /\ vault.idle \in Int
           /\ vault.idle + Recalled(n) - short - n \in Int
<1>1. vault.idle \in Int
  BY DEF VaultType
<1> QED
  BY <1>1 DEF Recalled

LEMMA DepositShape ==
    ASSUME StateTypes, VaultShape(vault), NEW o \in Owners, NEW n \in Nat,
           Deposit(o, n)
    PROVE  /\ VaultShape(vault')
           /\ vault'.reserved = vault.reserved
           /\ vault'.idle = vault.idle + n
           /\ vault'.supply = vault.supply + Minted(n, ComputeNav)
<1>1. PICK m : m = Minted(n, ComputeNav)
  OBVIOUS
<1>2. PICK c : c = Credited(n, ComputeNav)
  OBVIOUS
<1>3. /\ vault.supply \in Nat /\ vault.idle \in Int
      /\ vault.wallet \in [Owners -> Int]
      /\ vault.shares \in [Owners -> Nat]
  BY DEF VaultShape, VaultType
<1>4. m \in Nat
  <2>1. /\ vault.supply + VirtualShares \in Nat
        /\ ComputeNav + VirtualAssets \in Nat
        /\ ComputeNav + VirtualAssets > 0
    BY <1>3, NavFacts, TreasuryMathAssumption
  <2> QED
    BY <1>1, <2>1, FloorBound DEF Minted, SharesForDeposit
<1>5. c \in Nat /\ c = m - (IF vault.supply = 0 THEN VirtualShares ELSE 0)
  <2>1. c > 0 /\ c = m - (IF vault.supply = 0 THEN VirtualShares ELSE 0)
    BY <1>1, <1>2 DEF Deposit, Credited
  <2> QED
    BY <1>4, <2>1, TreasuryMathAssumption
<1> DEFINE u == [vault EXCEPT !.shares[o] = @ + c, !.supply = @ + m]
           w == [vault.wallet EXCEPT ![o] = @ - n]
           i == vault.idle + n
<1>6. VaultShape(u)
  BY <1>4, <1>5, ShapeMint
<1>7. w \in [Owners -> Int] /\ i \in Int
  BY <1>3
<1>8. VaultShape([u EXCEPT !.idle = i, !.wallet = w])
  <2> HIDE DEF u, i, w
  <2> QED
    BY <1>6, <1>7, ShapeCash
<1>9. vault' = [vault EXCEPT !.idle = @ + n, !.wallet[o] = @ - n,
                             !.shares[o] = @ + c, !.supply = @ + m]
  BY <1>1, <1>2 DEF Deposit
<1>10. vault' = [u EXCEPT !.idle = i, !.wallet = w]
  BY <1>9 DEF VaultShape, VaultType
<1>11. /\ vault'.reserved = vault.reserved /\ vault'.idle = vault.idle + n
       /\ vault'.supply = vault.supply + m
  BY <1>9 DEF VaultShape, VaultType
<1> QED
  BY <1>1, <1>8, <1>10, <1>11

LEMMA ShapePay ==
    ASSUME NEW v, VaultShape(v), NEW o \in Owners, NEW a \in Int
    PROVE  /\ VaultShape(Pay(v, o, a))
           /\ Pay(v, o, a).idle = v.idle - a
           /\ Pay(v, o, a).supply = v.supply
           /\ Pay(v, o, a).reserved = v.reserved
           /\ Pay(v, o, a).ticket = v.ticket
           /\ Pay(v, o, a).head = v.head /\ Pay(v, o, a).tail = v.tail
<1> DEFINE w == [v.wallet EXCEPT ![o] = @ + a]
           i == v.idle - a
<1>1. w \in [Owners -> Int] /\ i \in Int
  BY DEF VaultShape, VaultType
<1>2. Pay(v, o, a) = [v EXCEPT !.idle = i, !.wallet = w]
  BY DEF Pay, VaultShape, VaultType
<1>3. VaultShape([v EXCEPT !.idle = i, !.wallet = w])
  <2> HIDE DEF i, w
  <2> QED
    BY <1>1, ShapeCash
<1>4. /\ Pay(v, o, a).idle = i
      /\ Pay(v, o, a).supply = v.supply
      /\ Pay(v, o, a).reserved = v.reserved
      /\ Pay(v, o, a).ticket = v.ticket
      /\ Pay(v, o, a).head = v.head /\ Pay(v, o, a).tail = v.tail
  <2> HIDE DEF i, w
  <2> QED
    BY <1>2 DEF VaultShape, VaultType
<1> QED
  BY <1>2, <1>3, <1>4

LEMMA BurnFields ==
    ASSUME NEW v \in VaultType, NEW o, NEW n
    PROVE  /\ BurnShares(v, o, n).idle = v.idle
           /\ BurnShares(v, o, n).supply = v.supply - n
           /\ BurnShares(v, o, n).reserved = v.reserved
           /\ BurnShares(v, o, n).ticket = v.ticket
           /\ BurnShares(v, o, n).head = v.head
           /\ BurnShares(v, o, n).tail = v.tail
BY DEF BurnShares, VaultType

(* The assets of a request and the part of them that is paid at once.      *)
LEMMA AssetsNat ==
    ASSUME StateTypes, NEW s \in Nat
    PROVE  LET a == AssetsForShares(s, ComputeNav, vault.supply) IN
           /\ a \in Nat /\ PaidNow(a) \in Nat /\ PaidNow(a) <= a
           /\ a * (vault.supply + VirtualShares)
                <= s * (ComputeNav + VirtualAssets)
<1> DEFINE a == AssetsForShares(s, ComputeNav, vault.supply)
           x == ComputeNav + VirtualAssets
           c == vault.supply + VirtualShares
<1>1. vault.supply \in Nat
  BY DEF StateTypes, VaultType
<1>2. x \in Nat /\ c \in Nat /\ c > 0
  BY <1>1, NavFacts, TreasuryMathAssumption
<1>3. a = MulDivFloor(s, x, c)
  BY DEF AssetsForShares
<1>4. a \in Nat /\ c * a <= s * x
  <2> HIDE DEF a, x, c
  <2> QED
    BY <1>2, <1>3, FloorBound
<1>5. c * a = a * c
  <2> HIDE DEF a, x, c
  <2> QED
    BY <1>2, <1>4
<1>6. PaidNow(a) \in Nat /\ PaidNow(a) <= a
  <2> HIDE DEF a
  <2> QED
    BY <1>4, NavFacts DEF PaidNow, MinOf
<1> QED
  BY <1>4, <1>5, <1>6

LEMMA RequestShape ==
    ASSUME StateTypes, VaultShape(vault), NEW o \in Owners, NEW s \in Nat,
           RequestWithdraw(o, s)
    PROVE  /\ VaultShape(vault') /\ s < vault.supply
           /\ vault'.supply = vault.supply - s
           /\ vault'.idle - vault'.reserved
                = vault.idle - vault.reserved
                    - AssetsForShares(s, ComputeNav, vault.supply)
<1>1. PICK a : a = AssetsForShares(s, ComputeNav, vault.supply)
  OBVIOUS
<1>2. PICK p : p = PaidNow(a)
  OBVIOUS
<1>3. a \in Nat /\ p \in Nat /\ p <= a
  BY <1>1, <1>2, AssetsNat
<1> DEFINE b == BurnShares(vault, o, s)
           v == Pay(b, o, p)
           k == [owner |-> o, remaining |-> a - p]
<1>4. s > 0 /\ s <= vault.shares[o]
  BY DEF RequestWithdraw
<1>5. VaultShape(b) /\ s < vault.supply
  BY <1>4, ShapeBurn
<1>6. vault \in VaultType
  BY DEF VaultShape
<1>7. /\ VaultShape(v) /\ v.idle = vault.idle - p
      /\ v.supply = vault.supply - s /\ v.reserved = vault.reserved
      /\ v.ticket = vault.ticket /\ v.head = vault.head
      /\ v.tail = vault.tail
  <2>1. /\ b.idle = vault.idle /\ b.supply = vault.supply - s
        /\ b.reserved = vault.reserved /\ b.ticket = vault.ticket
        /\ b.head = vault.head /\ b.tail = vault.tail
    BY <1>6, BurnFields
  <2> HIDE DEF b
  <2> QED
    BY <1>3, <1>5, <2>1, ShapePay
<1>8. vault.idle \in Int /\ vault.reserved \in Int
  BY <1>6 DEF VaultType
<1>9. CASE a - p = 0 /\ vault' = v
  <2> HIDE DEF v
  <2> QED
    BY <1>1, <1>3, <1>5, <1>7, <1>8, <1>9
<1>10. CASE /\ a - p > 0 /\ vault.tail <= MaxTickets
            /\ vault' = [v EXCEPT !.ticket[vault.tail] = k,
                                  !.tail = @ + 1, !.reserved = @ + (a - p)]
  <2>1. k \in Tickets /\ k.remaining = a - p
    BY <1>3, <1>10 DEF Tickets
  <2> DEFINE T == [vault.ticket EXCEPT ![vault.tail] = k]
             t == vault.tail + 1
             r == vault.reserved + (a - p)
  <2>2. Queue(vault.ticket, vault.head, vault.tail)
        /\ vault.reserved = OwedTickets(vault.ticket, vault.head, vault.tail)
    BY DEF VaultShape
  <2>3. /\ Queue(T, vault.head, t)
        /\ OwedTickets(T, vault.head, t)
             = OwedTickets(vault.ticket, vault.head, vault.tail) + k.remaining
    <3> HIDE DEF k
    <3> QED
      BY <1>10, <2>1, <2>2, QueuePush
  <2>4. r \in Int /\ r = OwedTickets(T, vault.head, t)
    <3> HIDE DEF k, T
    <3> QED
      BY <1>3, <1>8, <2>1, <2>2, <2>3
  <2>5. vault' = [v EXCEPT !.ticket = T, !.head = vault.head, !.tail = t,
                           !.reserved = r]
    <3>1. v \in VaultType
      BY <1>7 DEF VaultShape
    <3> HIDE DEF v, k
    <3> QED
      BY <1>7, <1>10, <3>1 DEF VaultType
  <2>6. VaultShape(vault')
    <3> HIDE DEF v, k, T, t, r
    <3> QED
      BY <1>7, <2>3, <2>4, <2>5, ShapeQueue
  <2>7. /\ vault'.idle = v.idle /\ vault'.supply = v.supply
        /\ vault'.reserved = r
    <3>1. v \in VaultType
      BY <1>7 DEF VaultShape
    <3> HIDE DEF v, k, T, t, r
    <3> QED
      BY <2>5, <3>1 DEF VaultType
  <2> QED
    <3> HIDE DEF v, k, T, t
    <3> QED
      BY <1>1, <1>3, <1>5, <1>7, <1>8, <2>6, <2>7
<1> QED
  BY <1>1, <1>2, <1>3, <1>9, <1>10 DEF RequestWithdraw

LEMMA ClaimShape ==
    ASSUME StateTypes, VaultShape(vault), NEW i \in 1 .. MaxTickets,
           ClaimWithdraw(i)
    PROVE  /\ VaultShape(vault') /\ vault'.supply = vault.supply
           /\ vault'.idle - vault'.reserved = vault.idle - vault.reserved
<1>1. PICK t : t = vault.ticket[i]
  OBVIOUS
<1>2. PICK a : a = MinOf(t.remaining, vault.idle)
  OBVIOUS
<1>3. vault \in VaultType /\ Queue(vault.ticket, vault.head, vault.tail)
      /\ vault.reserved = OwedTickets(vault.ticket, vault.head, vault.tail)
  BY DEF VaultShape
<1>4. /\ vault.idle \in Int /\ vault.reserved \in Int
      /\ vault.head \in Nat /\ vault.tail \in Nat
      /\ vault.ticket \in [1 .. MaxTickets -> Tickets \cup {None}]
  BY <1>3 DEF VaultType
<1>5. t # None /\ i = vault.head /\ a > 0
  BY <1>1, <1>2 DEF ClaimWithdraw
<1>6. t \in Tickets /\ t.remaining \in Nat /\ t.owner \in Owners
  BY <1>1, <1>4, <1>5 DEF Tickets
<1>7. a \in Nat /\ a <= t.remaining
  BY <1>2, <1>4, <1>5, <1>6 DEF MinOf
<1>8. vault.head < vault.tail
  BY <1>1, <1>3, <1>4, <1>5 DEF Queue
<1> DEFINE p == Pay(vault, t.owner, a)
<1>9. /\ VaultShape(p) /\ p.idle = vault.idle - a /\ p.supply = vault.supply
      /\ p.reserved = vault.reserved /\ p.ticket = vault.ticket
      /\ p.head = vault.head /\ p.tail = vault.tail /\ p \in VaultType
  <2>1. a \in Int
    BY <1>7
  <2>2. VaultShape(p)
    BY <1>6, <2>1, ShapePay
  <2>3. p \in VaultType
    BY <2>2 DEF VaultShape
  <2> QED
    BY <1>6, <2>1, <2>2, <2>3, ShapePay
<1> DEFINE r == vault.reserved - a
<1>10. CASE t.remaining = a
  <2> DEFINE T == [vault.ticket EXCEPT ![vault.head] = None]
             h == vault.head + 1
  <2>1. /\ Queue(T, h, vault.tail)
        /\ OwedTickets(T, h, vault.tail)
             = OwedTickets(vault.ticket, vault.head, vault.tail)
                 - vault.ticket[vault.head].remaining
    BY <1>3, <1>8, QueuePop
  <2>2. r \in Int /\ r = OwedTickets(T, h, vault.tail)
    <3> HIDE DEF T, h
    <3> QED
      BY <1>1, <1>3, <1>4, <1>5, <1>7, <1>10, <2>1
  <2>3. vault' = [[p EXCEPT !.reserved = @ - a] EXCEPT !.ticket[i] = None,
                                                        !.head = @ + 1]
    BY <1>1, <1>2, <1>10 DEF ClaimWithdraw
  <2>4. vault' = [p EXCEPT !.ticket = T, !.head = h, !.tail = vault.tail,
                           !.reserved = r]
    <3> HIDE DEF p
    <3> QED
      BY <1>5, <1>9, <2>3 DEF VaultType
  <2>5. VaultShape(vault')
    <3> HIDE DEF p, T, h, r
    <3> QED
      BY <1>9, <2>1, <2>2, <2>4, ShapeQueue
  <2>6. vault'.idle = p.idle /\ vault'.supply = p.supply
        /\ vault'.reserved = r
    <3> HIDE DEF p, T, h, r
    <3> QED
      BY <1>9, <2>4 DEF VaultType
  <2> QED
    <3> HIDE DEF p
    <3> QED
      BY <1>4, <1>7, <1>9, <2>5, <2>6
<1>11. CASE t.remaining # a
  <2> DEFINE T == [vault.ticket EXCEPT ![vault.head].remaining = @ - a]
  <2>1. a < vault.ticket[vault.head].remaining
    BY <1>1, <1>5, <1>6, <1>7, <1>11
  <2>2. /\ Queue(T, vault.head, vault.tail)
        /\ OwedTickets(T, vault.head, vault.tail)
             = OwedTickets(vault.ticket, vault.head, vault.tail) - a
    BY <1>3, <1>7, <1>8, <2>1, QueuePart
  <2>3. r \in Int /\ r = OwedTickets(T, vault.head, vault.tail)
    <3> HIDE DEF T
    <3> QED
      BY <1>3, <1>4, <1>7, <2>2
  <2>4. vault' = [[p EXCEPT !.reserved = @ - a]
                     EXCEPT !.ticket[i].remaining = @ - a]
    BY <1>1, <1>2, <1>11 DEF ClaimWithdraw
  <2>5. vault' = [p EXCEPT !.ticket = T, !.head = vault.head,
                           !.tail = vault.tail, !.reserved = r]
    <3> HIDE DEF p
    <3> QED
      BY <1>5, <1>9, <2>4 DEF VaultType
  <2>6. VaultShape(vault')
    <3> HIDE DEF p, T, r
    <3> QED
      BY <1>9, <2>2, <2>3, <2>5, ShapeQueue
  <2>7. vault'.idle = p.idle /\ vault'.supply = p.supply
        /\ vault'.reserved = r
    <3> HIDE DEF p, T, r
    <3> QED
      BY <1>9, <2>5 DEF VaultType
  <2> QED
    <3> HIDE DEF p
    <3> QED
      BY <1>4, <1>7, <1>9, <2>6, <2>7
<1> QED
  BY <1>10, <1>11

LEMMA EmergencyShape ==
    ASSUME StateTypes, VaultShape(vault), NEW o \in Owners, NEW s \in Nat,
           EmergencyWithdraw(o, s)
    PROVE  /\ VaultShape(vault') /\ s < vault.supply
           /\ vault'.supply = vault.supply - s
           /\ vault'.reserved = vault.reserved
           /\ \E a \in Nat :
                 /\ a * (vault.supply + VirtualShares)
                      <= s * (ComputeNav + VirtualAssets)
                 /\ vault'.idle = vault.idle - a
<1> DEFINE c == vault.supply + VirtualShares
           x == ComputeNav + VirtualAssets
<1>1. PICK a : a = MulDivFloor(s, Free, c)
  OBVIOUS
<1>2. vault \in VaultType /\ vault.supply \in Nat
  BY DEF VaultShape, VaultType
<1>3. c \in Nat /\ c > 0 /\ x \in Nat /\ Free \in Nat /\ Free <= x
  BY <1>2, NavFacts, TreasuryMathAssumption
<1>4. a \in Nat /\ c * a <= s * Free
  <2> HIDE DEF c, x
  <2> QED
    BY <1>1, <1>3, FloorBound
<1>5. a * c <= s * x
  <2> HIDE DEF c, x
  <2>1. s * Free <= s * x
    <3>1. PICK d \in Nat : x = Free + d
      <4>1. x - Free \in Nat /\ x = Free + (x - Free)
        BY <1>3
      <4> QED
        BY <4>1
    <3>2. s * (Free + d) = s * Free + s * d /\ s * d \in Nat
          /\ s * Free \in Nat
      BY <1>3
    <3> QED
      BY <1>3, <3>1, <3>2
  <2>2. a * c = c * a /\ a * c \in Nat /\ s * Free \in Nat /\ s * x \in Nat
    BY <1>3, <1>4
  <2> QED
    BY <1>4, <2>1, <2>2
<1> DEFINE b == BurnShares(vault, o, s)
<1>6. s > 0 /\ s <= vault.shares[o] /\ vault' = Pay(b, o, a)
  BY <1>1 DEF EmergencyWithdraw
<1>7. VaultShape(b) /\ s < vault.supply
  BY <1>6, ShapeBurn
<1>8. /\ b.idle = vault.idle /\ b.supply = vault.supply - s
      /\ b.reserved = vault.reserved
  BY <1>2, BurnFields
<1>9. /\ VaultShape(vault') /\ vault'.idle = vault.idle - a
      /\ vault'.supply = vault.supply - s /\ vault'.reserved = vault.reserved
  <2>1. a \in Int
    BY <1>4
  <2> HIDE DEF b
  <2> QED
    BY <1>6, <1>7, <1>8, <2>1, ShapePay
<1> QED
  BY <1>4, <1>5, <1>7, <1>9

LEMMA MintMath ==
    ASSUME NEW x \in Nat, NEW c \in Nat, NEW n \in Nat, NEW m \in Nat,
           m * x <= n * c
    PROVE  (x + n) * c >= x * (c + m)
<1>1. (x + n) * c = x * c + n * c /\ x * (c + m) = x * c + m * x
  OBVIOUS
<1>2. x * c \in Nat /\ n * c \in Nat /\ m * x \in Nat
  OBVIOUS
<1> QED
  BY <1>1, <1>2

LEMMA BurnMath ==
    ASSUME NEW x \in Nat, NEW c \in Nat, NEW a \in Nat, NEW s \in Nat,
           NEW y \in Int, a * c <= s * x, y >= x - a
    PROVE  y * c >= x * (c - s)
<1>1. PICK d \in Nat : y = x - a + d
  <2>1. y - (x - a) \in Nat /\ y = x - a + (y - (x - a))
    OBVIOUS
  <2> QED
    BY <2>1
<1>2. y * c = x * c - a * c + d * c /\ x * (c - s) = x * c - s * x
  BY <1>1
<1>3. x * c \in Nat /\ a * c \in Nat /\ s * x \in Nat /\ d * c \in Nat
  OBVIOUS
<1> QED
  BY <1>2, <1>3

(* One step of SharePriceNeverFalls.                                       *)
PriceKept ==
    /\ Covered
    /\ \/ vault'.supply # vault.supply \/ vault'.reserved # vault.reserved
    => (ComputeNav' + VirtualAssets) * (vault.supply + VirtualShares)
         >= (ComputeNav + VirtualAssets) * (vault'.supply + VirtualShares)

LEMMA SameHoldings ==
    ASSUME mkt' = mkt, book' = book PROVE HoldingsValue' = HoldingsValue
BY DEF HoldingsValue

LEMMA DepositPrice ==
    ASSUME StateTypes, VaultShape(vault), NEW o \in Owners, NEW n \in Nat,
           Deposit(o, n)
    PROVE  PriceKept
<1> SUFFICES ASSUME Covered
             PROVE  (ComputeNav' + VirtualAssets)
                        * (vault.supply + VirtualShares)
                    >= (ComputeNav + VirtualAssets)
                        * (vault'.supply + VirtualShares)
  BY DEF PriceKept
<1>1. PICK x : x = ComputeNav + VirtualAssets
  OBVIOUS
<1>2. PICK c : c = vault.supply + VirtualShares
  OBVIOUS
<1>3. PICK m : m = Minted(n, ComputeNav)
  OBVIOUS
<1>4. /\ vault.supply \in Nat /\ vault.idle \in Int /\ vault.reserved \in Int
  BY DEF VaultShape, VaultType
<1>5. x \in Nat /\ x > 0 /\ c \in Nat /\ VirtualShares \in Nat
      /\ VirtualAssets \in Nat
  BY <1>1, <1>2, <1>4, NavFacts, TreasuryMathAssumption
<1>6. m \in Nat /\ m * x <= n * c
  <2>1. m = MulDivFloor(n, c, x)
    BY <1>1, <1>2, <1>3 DEF Minted, SharesForDeposit
  <2>2. m \in Nat /\ x * m <= n * c
    BY <1>5, <2>1, FloorBound
  <2>3. x * m = m * x
    BY <1>5, <2>2
  <2> QED
    BY <2>2, <2>3
<1>7. (x + n) * c >= x * (c + m)
  BY <1>5, <1>6, MintMath
<1>8. vault'.supply + VirtualShares = c + m
  BY <1>2, <1>3, <1>4, <1>5, <1>6, DepositShape
<1>9. ComputeNav' + VirtualAssets = x + n
  <2>1. mkt' = mkt /\ book' = book
    BY DEF Deposit
  <2>2. HoldingsValue' = HoldingsValue /\ HoldingsValue \in Nat
    BY <2>1, SameHoldings, HoldingsNat
  <2>3. vault'.idle = vault.idle + n /\ vault'.reserved = vault.reserved
    BY DepositShape
  <2>4. ComputeNav' = NonNeg(vault'.idle + HoldingsValue' - vault'.reserved)
    BY DEF ComputeNav, NonNeg
  <2>5. ComputeNav = vault.idle + HoldingsValue - vault.reserved
        /\ ComputeNav \in Nat
    BY NavFacts
  <2>6. ComputeNav' = ComputeNav + n
    BY <1>4, <2>2, <2>3, <2>4, <2>5 DEF NonNeg
  <2> QED
    BY <1>1, <1>5, <2>5, <2>6
<1> QED
  BY <1>1, <1>2, <1>7, <1>8, <1>9

(* s shares are burnt for at most their part of the net asset value.       *)
LEMMA ExitPrice ==
    ASSUME StateTypes, NEW s \in Nat, NEW a \in Nat,
           a * (vault.supply + VirtualShares)
             <= s * (ComputeNav + VirtualAssets),
           vault'.supply = vault.supply - s,
           vault'.idle \in Int, vault'.reserved \in Int,
           vault'.idle - vault'.reserved = vault.idle - vault.reserved - a,
           mkt' = mkt, book' = book
    PROVE  PriceKept
<1> SUFFICES ASSUME Covered
             PROVE  (ComputeNav' + VirtualAssets)
                        * (vault.supply + VirtualShares)
                    >= (ComputeNav + VirtualAssets)
                        * (vault'.supply + VirtualShares)
  BY DEF PriceKept
<1>1. PICK x : x = ComputeNav + VirtualAssets
  OBVIOUS
<1>2. PICK c : c = vault.supply + VirtualShares
  OBVIOUS
<1>3. PICK y : y = ComputeNav' + VirtualAssets
  OBVIOUS
<1>4. /\ vault.supply \in Nat /\ vault.idle \in Int /\ vault.reserved \in Int
  BY DEF StateTypes, VaultType
<1>5. x \in Nat /\ c \in Nat /\ VirtualShares \in Nat /\ VirtualAssets \in Nat
  BY <1>1, <1>2, <1>4, NavFacts, TreasuryMathAssumption
<1>6. y \in Int /\ y >= x - a
  <2>1. HoldingsValue' = HoldingsValue /\ HoldingsValue \in Nat
    BY SameHoldings, HoldingsNat
  <2>2. ComputeNav' = NonNeg(vault'.idle + HoldingsValue' - vault'.reserved)
    BY DEF ComputeNav, NonNeg
  <2>3. ComputeNav = vault.idle + HoldingsValue - vault.reserved
        /\ ComputeNav \in Nat
    BY NavFacts
  <2>4. vault'.idle + HoldingsValue' - vault'.reserved = ComputeNav - a
    BY <1>4, <2>1, <2>3
  <2>5. ComputeNav' \in Int /\ ComputeNav' >= ComputeNav - a
    BY <2>2, <2>3, <2>4 DEF NonNeg
  <2> QED
    BY <1>1, <1>3, <1>5, <2>3, <2>5
<1>7. y * c >= x * (c - s)
  <2>1. a * c <= s * x
    BY <1>1, <1>2
  <2> QED
    BY <1>5, <1>6, <2>1, BurnMath
<1>8. vault'.supply + VirtualShares = c - s
  BY <1>2, <1>4, <1>5
<1> QED
  BY <1>1, <1>2, <1>3, <1>7, <1>8

(* Shares, queue and share price, through every entrypoint for owners.     *)
LEMMA ShareStepVault ==
    ASSUME StateTypes, VaultShape(vault), ShareStep
    PROVE  VaultShape(vault') /\ PriceKept
<1>1. vault \in VaultType /\ vault.idle \in Int
  BY DEF VaultShape, VaultType
<1>2. ASSUME NEW o \in Owners, NEW n \in DepositChoices, Deposit(o, n)
      PROVE  VaultShape(vault') /\ PriceKept
  <2>1. n \in Nat
    BY TreasuryAssumption
  <2> QED
    BY <1>2, <2>1, DepositShape, DepositPrice
<1>3. ASSUME NEW o \in Owners, NEW n \in DepositChoices, Donate(o, n)
      PROVE  VaultShape(vault') /\ PriceKept
  <2>1. n \in Nat
    BY TreasuryAssumption
  <2> DEFINE i == vault.idle + n
             d == -n
  <2>2. vault' = [vault EXCEPT !.idle = i, !.wallet[o] = @ + d]
    BY <1>1, <1>3, <2>1 DEF Donate, VaultType
  <2>3. i \in Int /\ d \in Int
    BY <1>1, <2>1
  <2>4. CashStep
    <3> HIDE DEF i, d
    <3> QED
      BY <1>1, <2>2, <2>3, WalletIsCash
  <2> QED
    BY <2>4, CashKeepsShape DEF PriceKept
<1>4. ASSUME NEW o \in Owners, NEW s \in BurnChoices, RequestWithdraw(o, s)
      PROVE  VaultShape(vault') /\ PriceKept
  <2>1. s \in Nat /\ mkt' = mkt /\ book' = book
    BY <1>4, TreasuryAssumption DEF RequestWithdraw
  <2>2. PICK a : a = AssetsForShares(s, ComputeNav, vault.supply)
    OBVIOUS
  <2>3. a \in Nat /\ a * (vault.supply + VirtualShares)
                       <= s * (ComputeNav + VirtualAssets)
    BY <2>1, <2>2, AssetsNat
  <2>4. /\ VaultShape(vault') /\ vault'.supply = vault.supply - s
        /\ vault'.idle - vault'.reserved = vault.idle - vault.reserved - a
    BY <1>4, <2>1, <2>2, RequestShape
  <2>5. vault'.idle \in Int /\ vault'.reserved \in Int
    BY <2>4 DEF VaultShape, VaultType
  <2> QED
    BY <2>1, <2>3, <2>4, <2>5, ExitPrice
<1>5. ASSUME NEW o \in Owners, NEW s \in BurnChoices, EmergencyWithdraw(o, s)
      PROVE  VaultShape(vault') /\ PriceKept
  <2>1. s \in Nat /\ mkt' = mkt /\ book' = book
    BY <1>5, TreasuryAssumption DEF EmergencyWithdraw
  <2>2. /\ VaultShape(vault') /\ vault'.supply = vault.supply - s
        /\ vault'.reserved = vault.reserved
    BY <1>5, <2>1, EmergencyShape
  <2>3. PICK a \in Nat :
           /\ a * (vault.supply + VirtualShares)
                <= s * (ComputeNav + VirtualAssets)
           /\ vault'.idle = vault.idle - a
    BY <1>5, <2>1, EmergencyShape
  <2>4. vault'.idle \in Int /\ vault'.reserved \in Int
        /\ vault.reserved \in Int
    BY <1>1, <2>2 DEF VaultShape, VaultType
  <2>5. vault'.idle - vault'.reserved = vault.idle - vault.reserved - a
    BY <1>1, <2>2, <2>3, <2>4
  <2> QED
    BY <2>1, <2>2, <2>3, <2>4, <2>5, ExitPrice
<1>6. ASSUME NEW i \in 1 .. MaxTickets, ClaimWithdraw(i)
      PROVE  VaultShape(vault') /\ PriceKept
  <2>1. /\ VaultShape(vault') /\ vault'.supply = vault.supply
        /\ vault'.idle - vault'.reserved = vault.idle - vault.reserved
    BY <1>6, ClaimShape
  <2>2. vault'.idle \in Int /\ vault'.reserved \in Int
        /\ vault.reserved \in Int /\ vault.supply \in Nat
    BY <1>1, <2>1 DEF VaultShape, VaultType
  <2>3. mkt' = mkt /\ book' = book
    BY <1>6 DEF ClaimWithdraw
  <2>4. /\ vault'.supply = vault.supply - 0
        /\ vault'.idle - vault'.reserved = vault.idle - vault.reserved - 0
    BY <1>1, <2>1, <2>2
  <2>5. 0 * (vault.supply + VirtualShares) <= 0 * (ComputeNav + VirtualAssets)
    BY <2>2, NavFacts, TreasuryMathAssumption
  <2> QED
    BY <2>1, <2>2, <2>3, <2>4, <2>5, ExitPrice
<1> QED
  BY <1>2, <1>3, <1>4, <1>5, <1>6 DEF ShareStep

-----------------------------------------------------------------------------
(* Markets as market-core leaves them.                                     *)

LEMMA ZeroPair == Zero \in [Outcomes -> Nat]
BY DEF Zero

LEMMA CreatedType ==
    ASSUME NEW mine \in BOOLEAN, NEW close \in Nat, NEW seed \in Nat,
           NEW prob \in Nat, SeedOk(seed, prob)
    PROVE  /\ Created(mine, close, seed, prob) \in MarketType
           /\ ~mine => ~Holds(Created(mine, close, seed, prob))
<1>1. /\ SeedReserves(seed, prob) \in [Outcomes -> Nat]
      /\ CreatorShares(seed, prob) \in [Outcomes -> Nat]
  BY SeedFacts
<1>2. PICK r \in [Outcomes -> Nat], p \in [Outcomes -> Nat] :
         r = SeedReserves(seed, prob) /\ p = CreatorShares(seed, prob)
  BY <1>1
<1>3. (IF mine THEN p ELSE Zero) \in [Outcomes -> Nat]
  BY ZeroPair
<1> QED
  BY <1>2, <1>3 DEF Created, MarketType, Holds

LEMMA TradedType ==
    ASSUME NEW m \in MarketType, NEW o \in Outcomes,
           NEW r \in [Outcomes -> Nat], NEW fee \in Nat, NEW n \in Int,
           m.pos[o] + n >= 0
    PROVE  LET t == Traded(m, o, r, fee, FeeShare, n) IN
           /\ t \in MarketType
           /\ n = 0 => (Holds(t) <=> Holds(m))
           /\ n < 0 => Holds(m)
<1> DEFINE p == [m.pos EXCEPT ![o] = @ + n]
           f == m.fees + ProtocolFee(fee, FeeShare)
           l == m.lpFees + LpFee(fee, FeeShare)
<1>1. m.pos \in [Outcomes -> Nat] /\ m.fees \in Nat /\ m.lpFees \in Nat
  BY DEF MarketType
<1>2. p \in [Outcomes -> Nat]
  BY <1>1
<1>3. f \in Nat /\ l \in Nat
  <2>1. FeeShare \in 0 .. BPS
    BY TreasuryAssumption
  <2>2. ProtocolFee(fee, FeeShare) \in Nat /\ LpFee(fee, FeeShare) \in Nat
    BY <2>1, FeeSplit
  <2> QED
    BY <1>1, <2>2
<1>4. Traded(m, o, r, fee, FeeShare, n)
        = [m EXCEPT !.reserve = r, !.pos = p, !.fees = f, !.lpFees = l]
  BY DEF Traded, MarketType
<1> DEFINE t == [m EXCEPT !.reserve = r, !.pos = p, !.fees = f, !.lpFees = l]
<1>5. t \in MarketType /\ t.pos = p /\ t.lp = m.lp /\ t.claimed = m.claimed
  <2> HIDE DEF p, f, l
  <2> QED
    BY <1>2, <1>3 DEF MarketType
<1>6. n = 0 => p = m.pos
  BY <1>1
<1>7. n < 0 => m.pos # Zero
  BY <1>1 DEF Zero
<1> QED
  <2>1. Traded(m, o, r, fee, FeeShare, n) = t
    BY <1>4
  <2>2. t \in MarketType /\ (n = 0 => (Holds(t) <=> Holds(m)))
        /\ (n < 0 => Holds(m))
    <3> HIDE DEF p, t
    <3> QED
      BY <1>5, <1>6, <1>7 DEF Holds
  <2> QED
    BY <2>1, <2>2

LEMMA ReservesType ==
    ASSUME NEW o, NEW a \in Nat, NEW b \in Nat
    PROVE  ReservesWith(o, a, b) \in [Outcomes -> Nat]
BY DEF ReservesWith

LEMMA OtherOutcome ==
    ASSUME NEW o \in Outcomes PROVE Other(o) \in Outcomes
BY DEF Other, Outcomes

LEMMA BoughtType ==
    ASSUME NEW m \in MarketType, NEW o \in Outcomes, NEW n \in Nat,
           BuyOk(m.reserve[o], m.reserve[Other(o)], n, FeeBps), NEW q,
           q = CalcBuy(m.reserve[o], m.reserve[Other(o)], n, FeeBps)
    PROVE  /\ q.shares \in Nat /\ q.fee \in Nat
           /\ ReservesWith(o, q.newBought, q.newOther) \in [Outcomes -> Nat]
<1>1. m.reserve[o] \in Nat /\ m.reserve[Other(o)] \in Nat
  BY OtherOutcome DEF MarketType
<1>2. FeeBps \in FeeRange
  BY TreasuryAssumption
<1>3. BuyPost(q, m.reserve[o], m.reserve[Other(o)], n)
  BY <1>1, <1>2, BuyFacts
<1> QED
  BY <1>3, ReservesType DEF BuyPost

LEMMA SoldType ==
    ASSUME NEW m \in MarketType, NEW o \in Outcomes, NEW n \in Nat,
           SellOk(m.reserve[o], m.reserve[Other(o)], n, FeeBps), NEW q,
           q = CalcSell(m.reserve[o], m.reserve[Other(o)], n, FeeBps)
    PROVE  /\ q.shares \in Nat /\ q.shares > 0 /\ q.fee \in Nat
           /\ ReservesWith(o, q.newSold, q.newOther) \in [Outcomes -> Nat]
<1>1. m.reserve[o] \in Nat /\ m.reserve[Other(o)] \in Nat
  BY OtherOutcome DEF MarketType
<1>2. FeeBps \in FeeRange
  BY TreasuryAssumption
<1>3. SellPost(q, m.reserve[o], m.reserve[Other(o)], n)
  BY <1>1, <1>2, SellFacts
<1>4. q.shares > 0
  BY DEF SellOk
<1> QED
  BY <1>3, <1>4, ReservesType DEF SellPost

LEMMA SettleNat ==
    ASSUME NEW s \in {"yes", "no", "void"}, NEW p \in [Outcomes -> Nat]
    PROVE  SettleValue(s, p) \in Nat
<1>1. p.yes \in Nat /\ p.no \in Nat
  BY DEF Outcomes
<1>2. (p.yes + p.no) \div 2 \in Nat
  BY <1>1, Division
<1> QED
  BY <1>1, <1>2 DEF SettleValue

LEMMA SettledTypes ==
    ASSUME NEW m \in MarketType
    PROVE  /\ Redeemed(m) \in MarketType /\ Claimed(m) \in MarketType
           /\ Holds(Redeemed(m)) => Holds(m)
           /\ Holds(Claimed(m)) => Holds(m)
           /\ Final(m) => RedeemPayout(m) \in Nat /\ ClaimPayout(m) \in Nat
           /\ Redeemed(m).lp = m.lp /\ Redeemed(m).claimed = m.claimed
           /\ Redeemed(m).status = m.status
           /\ Claimed(m).pos = m.pos
<1>1. /\ Redeemed(m) \in MarketType /\ Redeemed(m).pos = Zero
      /\ Redeemed(m).lp = m.lp /\ Redeemed(m).claimed = m.claimed
      /\ Redeemed(m).status = m.status
  BY ZeroPair DEF Redeemed, MarketType
<1>2. /\ Claimed(m) \in MarketType /\ Claimed(m).pos = m.pos
      /\ Claimed(m).lp = m.lp /\ Claimed(m).claimed
  BY ZeroPair DEF Claimed, MarketType
<1>3. Final(m) => RedeemPayout(m) \in Nat /\ ClaimPayout(m) \in Nat
  <2> SUFFICES ASSUME Final(m)
               PROVE  RedeemPayout(m) \in Nat /\ ClaimPayout(m) \in Nat
    OBVIOUS
  <2>1. /\ m.status \in {"yes", "no", "void"} /\ m.lpFees \in Nat
        /\ m.pos \in [Outcomes -> Nat] /\ m.reserve \in [Outcomes -> Nat]
    BY DEF Final, MarketType
  <2>2. SettleValue(m.status, m.pos) \in Nat
        /\ SettleValue(m.status, m.reserve) \in Nat
    BY <2>1, SettleNat
  <2> QED
    BY <2>1, <2>2 DEF RedeemPayout, ClaimPayout
<1> QED
  BY <1>1, <1>2, <1>3 DEF Holds

-----------------------------------------------------------------------------
(* The open-market index.                                                  *)

(* The part of IndexCoversHoldings about the book alone, with its types.   *)
IndexShape(b) ==
    /\ {"at", "slot"} \subseteq DOMAIN b
    /\ b.at \in Seq(Markets) /\ b.slot \in [Markets -> Nat]
    /\ \A k \in Markets : b.slot[k] # 0 => /\ b.slot[k] \in 1 .. Len(b.at)
                                           /\ b.at[b.slot[k]] = k
    /\ \A i \in 1 .. Len(b.at) : b.slot[b.at[i]] = i
    /\ Len(b.at) <= MaxOpenMarkets

(* c lists what b lists.                                                   *)
SameIndex(b, c) ==
    {"at", "slot"} \subseteq DOMAIN c /\ c.at = b.at /\ c.slot = b.slot

LEMMA SameShape ==
    ASSUME NEW b, NEW c, IndexShape(b), SameIndex(b, c)
    PROVE  IndexShape(c)
BY DEF IndexShape, SameIndex

LEMMA AddShape ==
    ASSUME NEW b, IndexShape(b), NEW k \in Markets, IndexAddOk(b, k)
    PROVE  LET c == IndexAdd(b, k) IN
           /\ IndexShape(c) /\ c.slot[k] # 0
           /\ \A j \in Markets : j # k => c.slot[j] = b.slot[j]
<1> DEFINE c == IndexAdd(b, k)
<1>1. CASE b.slot[k] # 0
  BY <1>1 DEF IndexAdd
<1>2. CASE b.slot[k] = 0
  <2>1. /\ b.at \in Seq(Markets) /\ b.slot \in [Markets -> Nat]
        /\ Len(b.at) \in Nat /\ MaxOpenMarkets \in Nat
        /\ Len(b.at) < MaxOpenMarkets
    BY <1>2, TreasuryAssumption DEF IndexShape, IndexAddOk
  <2>2. PICK A \in Seq(Markets) : A = Append(b.at, k)
    <3>1. Append(b.at, k) \in Seq(Markets)
      BY <2>1
    <3> QED
      BY <3>1
  <2>3. /\ Len(A) = Len(b.at) + 1 /\ A[Len(b.at) + 1] = k
        /\ \A i \in 1 .. Len(b.at) : A[i] = b.at[i]
    BY <2>1, <2>2
  <2>4. PICK S \in [Markets -> Nat] :
           S = [b.slot EXCEPT ![k] = Len(b.at) + 1]
    <3>1. [b.slot EXCEPT ![k] = Len(b.at) + 1] \in [Markets -> Nat]
      BY <2>1
    <3> QED
      BY <3>1
  <2>5. c.at = A /\ c.slot = S /\ {"at", "slot"} \subseteq DOMAIN c
    BY <1>2, <2>2, <2>4 DEF IndexAdd, IndexShape
  <2>6. /\ S[k] = Len(b.at) + 1
        /\ \A j \in Markets : j # k => S[j] = b.slot[j]
    BY <2>1, <2>4
  <2>7. ASSUME NEW j \in Markets, S[j] # 0
        PROVE  S[j] \in 1 .. Len(A) /\ A[S[j]] = j
    <3>1. CASE j = k
      BY <2>1, <2>3, <2>6, <3>1
    <3>2. CASE j # k
      <4>1. S[j] = b.slot[j] /\ b.slot[j] \in 1 .. Len(b.at)
            /\ b.at[b.slot[j]] = j
        BY <2>6, <2>7, <3>2 DEF IndexShape
      <4>2. PICK i \in 1 .. Len(b.at) : i = S[j] /\ b.at[i] = j
        BY <4>1
      <4>3. A[i] = b.at[i]
        BY <2>3
      <4>4. i \in 1 .. Len(A)
        BY <2>1, <2>3
      <4> QED
        BY <4>2, <4>3, <4>4
    <3> QED
      BY <3>1, <3>2
  <2>8. \A i \in 1 .. Len(A) : S[A[i]] = i
    <3> SUFFICES ASSUME NEW i \in 1 .. Len(A) PROVE S[A[i]] = i
      OBVIOUS
    <3>1. CASE i = Len(b.at) + 1
      BY <2>3, <2>6, <3>1
    <3>2. CASE i # Len(b.at) + 1
      <4>1. i \in 1 .. Len(b.at)
        BY <2>1, <2>3, <3>2
      <4>2. b.at[i] \in Markets /\ b.slot[b.at[i]] = i
        BY <2>1, <4>1 DEF IndexShape
      <4>3. b.at[i] # k
        BY <1>2, <4>1, <4>2
      <4> QED
        BY <2>3, <2>6, <4>1, <4>2, <4>3
    <3> QED
      BY <3>1, <3>2
  <2> HIDE DEF c
  <2>9. Len(A) <= MaxOpenMarkets
    BY <2>1, <2>3
  <2>10. IndexShape(c)
    BY <2>5, <2>7, <2>8, <2>9 DEF IndexShape
  <2> QED
    BY <2>1, <2>5, <2>6, <2>10 DEF c
<1> QED
  BY <1>1, <1>2

LEMMA RemoveShape ==
    ASSUME NEW b, IndexShape(b), NEW k \in Markets
    PROVE  LET c == IndexRemove(b, k) IN
           /\ IndexShape(c) /\ c.slot[k] = 0
           /\ \A j \in Markets : j # k => (c.slot[j] # 0 <=> b.slot[j] # 0)
<1> DEFINE c == IndexRemove(b, k)
<1>1. CASE b.slot[k] = 0
  BY <1>1 DEF IndexRemove
<1>2. CASE b.slot[k] # 0
  <2>1. PICK n : n = Len(b.at)
    OBVIOUS
  <2>2. PICK s : s = b.slot[k]
    OBVIOUS
  <2>3. /\ b.at \in Seq(Markets) /\ b.slot \in [Markets -> Nat]
        /\ n \in Nat /\ s \in 1 .. n /\ b.at[s] = k /\ n <= MaxOpenMarkets
        /\ MaxOpenMarkets \in Nat
    BY <1>2, <2>1, <2>2, TreasuryAssumption DEF IndexShape
  <2>4. \A i \in 1 .. n : b.at[i] \in Markets /\ b.slot[b.at[i]] = i
    BY <2>1, <2>3 DEF IndexShape
  <2>5. PICK moved \in Markets : moved = b.at[n] /\ b.slot[moved] = n
    BY <2>3, <2>4
  <2>6. PICK R \in Seq(Markets) : R = [b.at EXCEPT ![s] = moved]
    <3>1. [b.at EXCEPT ![s] = moved] \in Seq(Markets)
      BY <2>1, <2>3
    <3> QED
      BY <3>1
  <2>7. Len(R) = n /\ R[s] = moved /\ \A i \in 1 .. n : i # s => R[i] = b.at[i]
    BY <2>1, <2>3, <2>6
  <2>8. PICK A \in Seq(Markets) : A = SubSeq(R, 1, n - 1)
    <3>1. SubSeq(R, 1, n - 1) \in Seq(Markets)
      BY <2>3, <2>7
    <3> QED
      BY <3>1
  <2>9. Len(A) = n - 1 /\ \A i \in 1 .. n - 1 : A[i] = R[i]
    BY <2>3, <2>7, <2>8
  <2>10. PICK S \in [Markets -> Nat] :
            S = [b.slot EXCEPT ![moved] = s, ![k] = 0]
    <3>1. [b.slot EXCEPT ![moved] = s, ![k] = 0] \in [Markets -> Nat]
      <4>1. s \in Nat
        BY <2>3
      <4>2. [b.slot EXCEPT ![moved] = s] \in [Markets -> Nat]
        BY <2>3, <4>1
      <4> QED
        BY <4>2
    <3> QED
      BY <3>1
  <2>11. c.at = A /\ c.slot = S /\ {"at", "slot"} \subseteq DOMAIN c
    BY <1>2, <2>1, <2>2, <2>5, <2>6, <2>8, <2>10 DEF IndexRemove, IndexShape
  <2>12. /\ S[k] = 0 /\ (moved # k => S[moved] = s)
         /\ \A j \in Markets : j # k /\ j # moved => S[j] = b.slot[j]
    BY <2>3, <2>10
  <2>13. ASSUME NEW j \in Markets, S[j] # 0
         PROVE  S[j] \in 1 .. Len(A) /\ A[S[j]] = j
    <3>1. j # k
      BY <2>12, <2>13
    <3>2. CASE j = moved
      <4>1. S[j] = s /\ s # n
        BY <2>3, <2>5, <2>12, <3>1, <3>2
      <4>2. s \in 1 .. n - 1
        BY <2>3, <4>1
      <4>3. A[s] = R[s]
        BY <2>9, <4>2
      <4> QED
        BY <2>3, <2>7, <2>9, <3>2, <4>1, <4>2, <4>3
    <3>3. CASE j # moved
      <4>1. S[j] = b.slot[j]
        BY <2>12, <3>1, <3>3
      <4>2. S[j] \in 1 .. n /\ b.at[S[j]] = j
        BY <2>1, <2>13, <4>1 DEF IndexShape
      <4>3. S[j] # n /\ S[j] # s
        BY <2>3, <2>5, <3>1, <3>3, <4>2
      <4> DEFINE i == S[j]
      <4> HIDE DEF i
      <4>4. i = S[j] /\ i # s /\ i \in 1 .. n /\ i \in 1 .. n - 1
        <5>1. n \in Nat /\ i = S[j] /\ i \in 1 .. n /\ i # n /\ i # s
          BY <2>3, <4>2, <4>3 DEF i
        <5> QED BY <5>1
      <4>5. A[i] = R[i] /\ R[i] = b.at[i]
        BY <2>7, <2>9, <4>4
      <4>6. A[S[j]] = j
        BY <4>2, <4>4, <4>5
      <4>7. S[j] \in 1 .. Len(A)
        BY <2>9, <4>4
      <4> QED
        BY <4>6, <4>7
    <3> QED
      BY <3>2, <3>3
  <2>14. ASSUME NEW i \in 1 .. Len(A) PROVE S[A[i]] = i
    <3>1. i \in 1 .. n - 1 /\ i \in 1 .. n /\ i # n
      BY <2>3, <2>9
    <3>2. CASE i = s
      <4>1. A[i] = moved /\ moved # k
        BY <2>2, <2>5, <2>7, <2>9, <3>1, <3>2
      <4> QED
        BY <2>12, <3>2, <4>1
    <3>3. CASE i # s
      <4>1. A[i] = b.at[i] /\ b.at[i] \in Markets /\ b.slot[b.at[i]] = i
        BY <2>4, <2>7, <2>9, <3>1, <3>3
      <4>2. A[i] # k /\ A[i] # moved
        BY <2>2, <2>5, <3>1, <3>3, <4>1
      <4> QED
        BY <2>12, <4>1, <4>2
    <3> QED
      BY <3>2, <3>3
  <2>15. ASSUME NEW j \in Markets, j # k
         PROVE  S[j] # 0 <=> b.slot[j] # 0
    BY <2>3, <2>5, <2>12, <2>15
  <2> HIDE DEF c
  <2>16. Len(A) <= MaxOpenMarkets
    BY <2>3, <2>9
  <2>17. IndexShape(c)
    BY <2>11, <2>13, <2>14, <2>16 DEF IndexShape
  <2> QED
    BY <2>11, <2>12, <2>15, <2>17 DEF c
<1> QED
  BY <1>1, <1>2

(* What leaves the index alone.                                            *)
LEMMA AccountsKeepIndex ==
    ASSUME NEW b, {"at", "slot"} \subseteq DOMAIN b, NEW k, NEW x
    PROVE  /\ SameIndex(b, SaveNet(b, k, x))
           /\ SameIndex(b, RecordReturn(b, k, x))
           /\ SameIndex(b, RecordCost(b, k, x))
           /\ SameIndex(b, RecordProceeds(b, k, x))
           /\ SameIndex(b, CloseMarketExposure(b, k))
<1>1. SameIndex(b, SaveNet(b, k, x))
  BY DEF SameIndex, SaveNet
<1>2. SameIndex(b, RecordReturn(b, k, x))
  BY DEF SameIndex, RecordReturn, SaveNet
<1>3. SameIndex(b, RecordCost(b, k, x))
  BY DEF SameIndex, RecordCost
<1>4. SameIndex(b, RecordProceeds(b, k, x))
  BY DEF SameIndex, RecordProceeds
<1>5. SameIndex(b, CloseMarketExposure(b, k))
  BY DEF SameIndex, CloseMarketExposure
<1> QED
  BY <1>1, <1>2, <1>3, <1>4, <1>5

LEMMA SameIndexTrans ==
    ASSUME NEW b, NEW c, NEW d, SameIndex(b, c), SameIndex(c, d)
    PROVE  SameIndex(b, d)
BY DEF SameIndex

LEMMA ReceivedIndex ==
    ASSUME NEW b, {"at", "slot"} \subseteq DOMAIN b, NEW k, NEW x
    PROVE  SameIndex(b, Received(b, k, x))
<1>1. PICK c : c = RecordReturn(b, k, x)
  OBVIOUS
<1>2. SameIndex(b, c)
  BY <1>1, AccountsKeepIndex
<1>3. SameIndex(c, RecordProceeds(c, k, x))
  BY <1>2, AccountsKeepIndex DEF SameIndex
<1> QED
  BY <1>1, <1>2, <1>3, SameIndexTrans DEF Received

LEMMA RealizeIndex ==
    ASSUME NEW b, {"at", "slot"} \subseteq DOMAIN b, NEW k, NEW m, NEW t, NEW n
    PROVE  SameIndex(b, TryRealize(b, k, m, t, n))
BY DEF SameIndex, TryRealize

LEMMA SpentIndex ==
    ASSUME NEW b, IndexShape(b), NEW a, NEW k \in Markets, NEW x,
           IndexAddOk(b, k)
    PROVE  LET c == Spent(b, a, k, x) IN
           /\ IndexShape(c) /\ c.slot[k] # 0
           /\ \A j \in Markets : j # k => c.slot[j] = b.slot[j]
<1>1. PICK c1 : c1 = IndexAdd(b, k)
  OBVIOUS
<1>2. /\ IndexShape(c1) /\ c1.slot[k] # 0
      /\ \A j \in Markets : j # k => c1.slot[j] = b.slot[j]
  BY <1>1, AddShape
<1>3. PICK c2 : c2 = ReserveCapacity(b, a, k, x, now)
  OBVIOUS
<1>4. SameIndex(c1, c2)
  BY <1>1, <1>2, <1>3 DEF ReserveCapacity, SameIndex, IndexShape
<1>5. PICK c3 : c3 = ReserveNet(c2, k, x)
  OBVIOUS
<1>6. SameIndex(c2, c3)
  BY <1>4, <1>5, AccountsKeepIndex DEF ReserveNet, SameIndex
<1>7. PICK c4 : c4 = RecordCost(c3, k, x)
  OBVIOUS
<1>8. SameIndex(c3, c4)
  BY <1>6, <1>7, AccountsKeepIndex DEF SameIndex
<1>9. SameIndex(c1, c4)
  BY <1>4, <1>6, <1>8 DEF SameIndex
<1>10. IndexShape(c4) /\ c4.slot = c1.slot
  BY <1>2, <1>9, SameShape DEF SameIndex
<1>11. Spent(b, a, k, x) = c4
  BY <1>3, <1>5, <1>7 DEF Spent
<1> QED
  BY <1>2, <1>10, <1>11

LEMMA SettledIndex ==
    ASSUME NEW b, IndexShape(b), NEW k \in Markets, NEW m, NEW x, NEW y,
           NEW t, NEW n
    PROVE  LET c == Settled(b, k, m, x, y, t, n) IN
           /\ IndexShape(c)
           /\ \A j \in Markets : j # k => (c.slot[j] # 0 <=> b.slot[j] # 0)
           /\ Holds(m) => c.slot = b.slot
           /\ c.slot[k] # 0 => b.slot[k] # 0
<1>1. PICK done : done = (b.realized[k[2]].settled \/ ~Holds(m))
  OBVIOUS
<1>2. PICK b1 : b1 = [b EXCEPT !.realized[k[2]] =
                  [position |-> @.position + x, lp |-> @.lp + y,
                   settled |-> done]]
  OBVIOUS
<1>3. SameIndex(b, b1)
  BY <1>2 DEF SameIndex, IndexShape
<1>4. PICK b2 : b2 = IF Holds(m) THEN b1 ELSE CloseMarketExposure(b1, k)
  OBVIOUS
<1>5. SameIndex(b1, b2)
  BY <1>3, <1>4, AccountsKeepIndex DEF SameIndex
<1>6. IndexShape(b2) /\ b2.slot = b.slot
  <2>1. SameIndex(b, b2)
    BY <1>3, <1>5 DEF SameIndex
  <2> QED
    BY <2>1, SameShape DEF SameIndex
<1>7. PICK b3 : b3 = PruneIfSettled(b2, k, m)
  OBVIOUS
<1>8. /\ IndexShape(b3)
      /\ \A j \in Markets : j # k => (b3.slot[j] # 0 <=> b.slot[j] # 0)
      /\ Holds(m) => b3.slot = b.slot
      /\ b3.slot[k] # 0 => b.slot[k] # 0
  <2>1. CASE Holds(m)
    BY <1>6, <1>7, <2>1 DEF PruneIfSettled
  <2>2. CASE ~Holds(m)
    <3>1. b3 = IndexRemove(b2, k)
      BY <1>7, <2>2 DEF PruneIfSettled
    <3>2. /\ IndexShape(b3) /\ b3.slot[k] = 0
          /\ \A j \in Markets : j # k => (b3.slot[j] # 0 <=> b2.slot[j] # 0)
      BY <1>6, <3>1, RemoveShape
    <3> QED
      BY <1>6, <2>2, <3>2
  <2> QED
    BY <2>1, <2>2
<1>9. PICK c : c = IF done THEN TryRealize(b3, k, m, t, n) ELSE b3
  OBVIOUS
<1>10. SameIndex(b3, c)
  <2>1. {"at", "slot"} \subseteq DOMAIN b3
    BY <1>8 DEF IndexShape
  <2>2. SameIndex(b3, TryRealize(b3, k, m, t, n))
    BY <2>1, RealizeIndex
  <2> QED
    BY <1>9, <2>1, <2>2 DEF SameIndex
<1>11. IndexShape(c) /\ c.slot = b3.slot
  BY <1>8, <1>10, SameShape DEF SameIndex
<1>12. Settled(b, k, m, x, y, t, n) = c
  BY <1>1, <1>2, <1>4, <1>7, <1>9 DEF Settled
<1> QED
  BY <1>8, <1>11, <1>12

(* IndexCoversHoldings with the types it needs.                            *)
Covers ==
    /\ IndexShape(book)
    /\ \A k \in Markets : book.slot[k] # 0 => k[1] \in legacy \cup {global.core}
    /\ \A k \in Markets :
          Holds(mkt[k]) /\ k \notin hist.gifts => book.slot[k] # 0

IndexTypes ==
    /\ {"at", "slot"} \subseteq DOMAIN book
    /\ book.at \in Seq(Markets) /\ book.slot \in [Markets -> Nat]

LEMMA CoversIsInv ==
    /\ Covers <=> IndexTypes /\ IndexCoversHoldings
    /\ Covers' <=> (IndexTypes /\ IndexCoversHoldings)'
<1>1. Covers <=> IndexTypes /\ IndexCoversHoldings
  BY DEF Covers, IndexShape, IndexTypes, IndexCoversHoldings, OpenMarketCount,
         OpenMarketAt
<1>2. Covers' <=> (IndexTypes /\ IndexCoversHoldings)'
  BY DEF Covers, IndexShape, IndexTypes, IndexCoversHoldings, OpenMarketCount,
         OpenMarketAt
<1> QED
  BY <1>1, <1>2

(* What every step but a shareholder's preserves.                          *)
Sound ==
    /\ GovInv /\ mkt \in [Markets -> MarketType] /\ VaultShape(vault)
    /\ Covers /\ "gifts" \in DOMAIN hist

Kept ==
    /\ mkt' \in [Markets -> MarketType] /\ CashStep /\ Covers'
    /\ "gifts" \in DOMAIN hist'

LEMMA CoreMarket ==
    ASSUME GovInv, NEW id \in Ids
    PROVE  Core(id) \in Markets /\ Core(id)[1] = global.core
<1>1. global.core \in Cores
  BY TreasuryAssumption DEF GovInv, GovTypes
<1> QED
  BY <1>1 DEF Core, Markets

LEMMA OneMarketStep ==
    ASSUME Sound, NEW k \in Markets, NEW m \in MarketType,
           mkt' = [mkt EXCEPT ![k] = m], IndexShape(book'),
           \A j \in Markets : j # k => (book'.slot[j] # 0 => book.slot[j] # 0),
           \A j \in Markets : j # k => (book.slot[j] # 0 => book'.slot[j] # 0),
           Holds(m) /\ k \notin hist'.gifts => book'.slot[k] # 0,
           book'.slot[k] # 0 => book.slot[k] # 0 \/ k[1] = global.core,
           hist.gifts \subseteq hist'.gifts, UNCHANGED <<legacy, global>>
    PROVE  mkt' \in [Markets -> MarketType] /\ Covers'
<1>1. mkt' \in [Markets -> MarketType]
  BY DEF Sound
<1>2. mkt'[k] = m /\ \A j \in Markets : j # k => mkt'[j] = mkt[j]
  BY DEF Sound
<1>3. ASSUME NEW j \in Markets, book'.slot[j] # 0
      PROVE  j[1] \in legacy' \cup {global'.core}
  <2>1. CASE j = k
    BY <1>3, <2>1 DEF Sound, Covers
  <2>2. CASE j # k
    BY <1>3, <2>2 DEF Sound, Covers
  <2> QED
    BY <2>1, <2>2
<1>4. ASSUME NEW j \in Markets, Holds(mkt'[j]), j \notin hist'.gifts
      PROVE  book'.slot[j] # 0
  <2>1. CASE j = k
    BY <1>2, <1>4, <2>1
  <2>2. CASE j # k
    <3>1. Holds(mkt[j]) /\ j \notin hist.gifts
      BY <1>2, <1>4, <2>2
    <3> QED
      BY <2>2, <3>1 DEF Sound, Covers
  <2> QED
    BY <2>1, <2>2
<1>5. Covers'
  BY <1>3, <1>4 DEF Covers
<1> QED
  BY <1>1, <1>5

(* The index stays, and nothing new is held.                               *)
LEMMA QuietMarketStep ==
    ASSUME Sound, NEW k \in Markets, NEW m \in MarketType,
           mkt' = [mkt EXCEPT ![k] = m], SameIndex(book, book'),
           Holds(m) /\ k \notin hist'.gifts => Holds(mkt[k]),
           hist.gifts \subseteq hist'.gifts, UNCHANGED <<legacy, global>>
    PROVE  mkt' \in [Markets -> MarketType] /\ Covers'
<1>1. IndexShape(book') /\ book'.slot = book.slot
  BY SameShape DEF SameIndex, Sound, Covers
<1>2. Holds(m) /\ k \notin hist'.gifts => book'.slot[k] # 0
  BY <1>1 DEF Sound, Covers
<1> QED
  BY <1>1, <1>2, OneMarketStep

(* Nothing the index or a market knows of moves.                           *)
LEMMA QuietStep ==
    ASSUME Sound, mkt' = mkt, SameIndex(book, book'),
           hist'.gifts = hist.gifts, UNCHANGED <<legacy, global>>
    PROVE  mkt' \in [Markets -> MarketType] /\ Covers'
<1>1. IndexShape(book') /\ book'.slot = book.slot
  BY SameShape DEF SameIndex, Sound, Covers
<1>2. mkt' \in [Markets -> MarketType]
  BY DEF Sound
<1>3. Covers'
  BY <1>1 DEF Sound, Covers
<1> QED
  BY <1>2, <1>3

LEMMA SpendKeeps ==
    ASSUME Sound, NEW a, NEW k \in Markets, k[1] = global.core,
           NEW m \in MarketType, NEW b, SameIndex(book, b), NEW n \in Nat,
           NEW short \in 0 .. 1, SpendOk(a, k, n), Spend(a, k, m, b, n, short)
    PROVE  Kept
<1>1. /\ mkt' = [mkt EXCEPT ![k] = m] /\ book' = Spent(b, a, k, n)
      /\ vault' = [vault EXCEPT !.idle = @ + Recalled(n) - short - n]
      /\ UNCHANGED <<legacy, global>>
  BY DEF Spend, govVars
<1>2. hist'.gifts = hist.gifts /\ "gifts" \in DOMAIN hist'
  BY DEF Spend, Sound
<1>3. IndexShape(b) /\ b.slot = book.slot /\ IndexAddOk(b, k)
  <2>1. IndexShape(b) /\ b.slot = book.slot
    BY SameShape DEF Sound, Covers, SameIndex
  <2>2. IndexAddOk(book, k)
    BY DEF SpendOk, ReserveCapacityOk
  <2> QED
    BY <2>1, <2>2 DEF IndexAddOk, SameIndex
<1>4. /\ IndexShape(book') /\ book'.slot[k] # 0
      /\ \A j \in Markets : j # k => book'.slot[j] = book.slot[j]
  BY <1>1, <1>3, SpentIndex
<1>5. mkt' \in [Markets -> MarketType] /\ Covers'
  BY <1>1, <1>2, <1>4, OneMarketStep
<1>6. CashStep
  <2>1. vault \in VaultType
    BY DEF Sound, VaultShape
  <2>2. PICK i \in Int : i = vault.idle + Recalled(n) - short - n
    BY <2>1, RecallInt
  <2>3. vault' = [vault EXCEPT !.idle = i]
    BY <1>1, <2>2
  <2> QED
    BY <2>1, <2>3, IdleIsCash
<1> QED
  BY <1>2, <1>5, <1>6 DEF Kept

LEMMA IdleCash ==
    ASSUME Sound, NEW n \in Int, vault' = [vault EXCEPT !.idle = @ + n]
    PROVE  CashStep
<1>1. vault \in VaultType /\ vault.idle \in Int
  BY DEF Sound, VaultShape, VaultType
<1>2. PICK i \in Int : i = vault.idle + n
  BY <1>1
<1>3. vault' = [vault EXCEPT !.idle = i]
  BY <1>2
<1> QED
  BY <1>1, <1>3, IdleIsCash

(* What a settling call adds to the history leaves the gifts as they are.  *)
LEMMA SettleGifts ==
    ASSUME "gifts" \in DOMAIN hist, NEW k, NEW m, NEW b, NEW n,
           Settle(k, m, b, n)
    PROVE  hist'.gifts = hist.gifts /\ "gifts" \in DOMAIN hist'
<1>1. hist' = IF Ends(k, m) THEN Ended(k, n)
              ELSE [hist EXCEPT !.out[k] = @ + n]
  BY DEF Settle
<1>2. CASE ~Ends(k, m)
  <2>1. PICK f : f = [hist.out EXCEPT ![k] = @ + n]
    OBVIOUS
  <2>2. hist' = [hist EXCEPT !.out = f]
    BY <1>1, <1>2, <2>1
  <2> QED
    BY <2>2
<1>3. CASE Ends(k, m)
  <2>1. PICK f, q, e, z : Ended(k, n) = [hist EXCEPT !.out = f, !.results = q,
                                                     !.ended = e, !.blurred = z]
    BY Zenon DEF Ended
  <2> QED
    BY <1>1, <1>3, <2>1
<1> QED
  BY <1>2, <1>3

LEMMA SettleKeeps ==
    ASSUME Sound, NEW k \in Markets, NEW m \in MarketType, NEW b,
           SameIndex(book, b), NEW x, NEW y, NEW n \in Nat,
           Holds(m) => Holds(mkt[k]),
           Settle(k, m, Settled(b, k, m, x, y, now, stop.days), n)
    PROVE  Kept
<1>1. /\ mkt' = [mkt EXCEPT ![k] = m]
      /\ book' = Settled(b, k, m, x, y, now, stop.days)
      /\ vault' = [vault EXCEPT !.idle = @ + n]
      /\ UNCHANGED <<legacy, global>>
  BY DEF Settle, Return, govVars
<1>2. hist'.gifts = hist.gifts /\ "gifts" \in DOMAIN hist'
  BY SettleGifts DEF Sound
<1>3. IndexShape(b) /\ b.slot = book.slot
  BY SameShape DEF Sound, Covers, SameIndex
<1>4. /\ IndexShape(book')
      /\ \A j \in Markets : j # k => (book'.slot[j] # 0 <=> book.slot[j] # 0)
      /\ Holds(m) => book'.slot = book.slot
      /\ book'.slot[k] # 0 => book.slot[k] # 0
  BY <1>1, <1>3, SettledIndex
<1>5. Holds(m) /\ k \notin hist'.gifts => book'.slot[k] # 0
  BY <1>2, <1>4 DEF Sound, Covers
<1>6. mkt' \in [Markets -> MarketType] /\ Covers'
  BY <1>1, <1>2, <1>4, <1>5, OneMarketStep
<1>7. CashStep
  BY <1>1, IdleCash
<1> QED
  BY <1>2, <1>6, <1>7 DEF Kept

(* The least free id of a core is an id.                                   *)
LEMMA NextIdIn ==
    ASSUME NEW core, CanCreate(core)
    PROVE  NextId(core) \in Ids
<1> DEFINE F == {id \in Ids : mkt[<<core, id>>].status = "none"}
<1>1. F # {} /\ F \subseteq Nat /\ F \subseteq Ids
  BY TreasuryAssumption DEF CanCreate
<1>2. PICK id \in F : \A j \in F : ~(<<j, id>> \in OpToRel(<, Nat))
  <2> HIDE DEF F
  <2> QED
    BY <1>1, NatLessThanWellFounded, WFMin
<1>3. \A j \in F : j >= id
  <2> SUFFICES ASSUME NEW j \in F PROVE j >= id
    OBVIOUS
  <2>1. j \in Nat /\ id \in Nat /\ ~(j < id)
    BY <1>1, <1>2 DEF OpToRel
  <2> QED
    BY <2>1
<1>4. \E i \in Ids : /\ mkt[<<core, i>>].status = "none"
                     /\ \A j \in Ids : mkt[<<core, j>>].status = "none"
                                       => j >= i
  BY <1>1, <1>2, <1>3
<1> QED
  BY <1>4 DEF NextId

LEMMA CreateKeeps ==
    ASSUME Sound, CreateStep PROVE Kept
<1>1. PICK a \in Agents, seed \in SeedChoices, prob \in ProbChoices,
           close \in CloseChoices, c \in Categories, short \in 0 .. 1 :
         AgentCreateMarket(a, close, seed, prob, c, short)
  BY DEF CreateStep
<1>2. seed \in Nat /\ prob \in Nat /\ close \in Nat
  BY TreasuryAssumption
<1>3. PICK k : k = Core(NextId(global.core))
  OBVIOUS
<1>4. k \in Markets /\ k[1] = global.core
  <2>1. CanCreate(global.core)
    BY <1>1 DEF AgentCreateMarket
  <2>2. PICK id \in Ids : id = NextId(global.core)
    BY <2>1, NextIdIn
  <2> QED
    BY <1>3, <2>2, CoreMarket DEF Sound
<1>5. PICK b : b = [book EXCEPT !.creations = RecordCreation(@,
                                                creation.window, now)]
  OBVIOUS
<1>6. SameIndex(book, b)
  BY <1>5 DEF SameIndex, Sound, Covers, IndexShape
<1>7. /\ SeedOk(seed, prob) /\ SpendOk(a, k, seed)
      /\ Spend(a, k, Created(TRUE, close, seed, prob), b, seed, short)
  BY <1>1, <1>3, <1>5 DEF AgentCreateMarket
<1>8. Created(TRUE, close, seed, prob) \in MarketType
  BY <1>2, <1>7, CreatedType
<1> QED
  BY <1>2, <1>4, <1>6, <1>7, <1>8, SpendKeeps

LEMMA BuyKeeps ==
    ASSUME Sound, NEW a \in Agents, NEW id \in Ids, NEW o \in Outcomes,
           NEW n \in Nat, NEW x, NEW l, NEW short \in 0 .. 1,
           DoAgentBuy(a, id, o, n, x, l, short)
    PROVE  Kept
<1>1. PICK k \in Markets : k = Core(id) /\ k[1] = global.core
  BY CoreMarket DEF Sound
<1>2. PICK m \in MarketType : m = mkt[k]
  BY DEF Sound
<1>3. PICK q : q = CalcBuy(m.reserve[o], m.reserve[Other(o)], n, FeeBps)
  OBVIOUS
<1>4. PICK r : r = ReservesWith(o, q.newBought, q.newOther)
  OBVIOUS
<1>5. /\ BuyOk(m.reserve[o], m.reserve[Other(o)], n, FeeBps)
      /\ SpendOk(a, k, n)
      /\ Spend(a, k, Traded(m, o, r, q.fee, FeeShare, q.shares), book, n,
               short)
  BY <1>1, <1>2, <1>3, <1>4 DEF DoAgentBuy
<1>6. q.shares \in Nat /\ q.fee \in Nat /\ r \in [Outcomes -> Nat]
  BY <1>3, <1>4, <1>5, BoughtType
<1>7. Traded(m, o, r, q.fee, FeeShare, q.shares) \in MarketType
  <2>1. m.pos[o] + q.shares >= 0 /\ q.shares \in Int
    BY <1>6 DEF MarketType
  <2> QED
    BY <1>6, <2>1, TradedType
<1>8. SameIndex(book, book)
  BY DEF SameIndex, Sound, Covers, IndexShape
<1> QED
  BY <1>1, <1>5, <1>7, <1>8, SpendKeeps

LEMMA SellKeeps ==
    ASSUME Sound, NEW a \in Agents, NEW id \in Ids, NEW o \in Outcomes,
           NEW n \in Nat, NEW x, NEW l, DoAgentSell(a, id, o, n, x, l)
    PROVE  Kept
<1>1. PICK k \in Markets : k = Core(id)
  BY CoreMarket DEF Sound
<1>2. PICK m \in MarketType : m = mkt[k]
  BY DEF Sound
<1>3. PICK q : q = CalcSell(m.reserve[o], m.reserve[Other(o)], n, FeeBps)
  OBVIOUS
<1>4. PICK r : r = ReservesWith(o, q.newSold, q.newOther)
  OBVIOUS
<1>5. PICK t : t = Traded(m, o, r, q.fee, FeeShare, -q.shares)
  OBVIOUS
<1>6. /\ SellOk(m.reserve[o], m.reserve[Other(o)], n, FeeBps)
      /\ q.shares <= m.pos[o]
      /\ mkt' = [mkt EXCEPT ![k] = t] /\ book' = Received(book, k, n)
      /\ vault' = [vault EXCEPT !.idle = @ + n]
      /\ UNCHANGED <<legacy, global>>
  BY <1>1, <1>2, <1>3, <1>4, <1>5 DEF DoAgentSell, Return, govVars
<1>7. hist'.gifts = hist.gifts /\ "gifts" \in DOMAIN hist'
  BY DEF DoAgentSell, Sound
<1>8. /\ q.shares \in Nat /\ q.shares > 0 /\ q.fee \in Nat
      /\ r \in [Outcomes -> Nat]
  BY <1>3, <1>4, <1>6, SoldType
<1>9. t \in MarketType /\ Holds(m)
  <2>1. m.pos[o] + (-q.shares) >= 0 /\ -q.shares \in Int /\ -q.shares < 0
    BY <1>6, <1>8 DEF MarketType
  <2> QED
    BY <1>5, <1>8, <2>1, TradedType
<1>10. SameIndex(book, book')
  BY <1>6, ReceivedIndex DEF Sound, Covers, IndexShape
<1>11. mkt' \in [Markets -> MarketType] /\ Covers'
  BY <1>2, <1>6, <1>7, <1>9, <1>10, QuietMarketStep
<1>12. CashStep
  BY <1>6, IdleCash
<1> QED
  BY <1>7, <1>11, <1>12 DEF Kept

LEMMA TradeKeeps ==
    ASSUME Sound, TradeStep PROVE Kept
<1>1. PICK a \in Agents, id \in Ids, o \in Outcomes, limit \in LimitChoices :
        \/ \E n \in BuyChoices, short \in 0 .. 1 :
              \/ AgentBuy(a, id, o, n, 0, short)
              \/ AgentBuyV2(a, id, o, n, 1, limit, now, short)
        \/ \E n \in SellChoices :
              \/ AgentSell(a, id, o, n, 2 * n)
              \/ AgentSellV2(a, id, o, n, 2 * n, limit, now)
  BY DEF TradeStep
<1>2. BuyChoices \subseteq Nat /\ SellChoices \subseteq Nat
  BY TreasuryAssumption
<1>3. ASSUME NEW n \in BuyChoices, NEW short \in 0 .. 1,
             \/ AgentBuy(a, id, o, n, 0, short)
             \/ AgentBuyV2(a, id, o, n, 1, limit, now, short)
      PROVE  Kept
  BY <1>2, <1>3, BuyKeeps DEF AgentBuy, AgentBuyV2
<1>4. ASSUME NEW n \in SellChoices,
             \/ AgentSell(a, id, o, n, 2 * n)
             \/ AgentSellV2(a, id, o, n, 2 * n, limit, now)
      PROVE  Kept
  BY <1>2, <1>4, SellKeeps DEF AgentSell, AgentSellV2
<1> QED
  BY <1>1, <1>3, <1>4

LEMMA RedeemKeeps ==
    ASSUME Sound, NEW k \in Markets, DoRedeem(k) PROVE Kept
<1>1. PICK m \in MarketType : m = mkt[k]
  BY DEF Sound
<1>2. PICK paid : paid = RedeemPayout(m)
  OBVIOUS
<1>3. PICK b : b = Received(book, k, paid)
  OBVIOUS
<1>4. PICK t : t = Redeemed(m)
  OBVIOUS
<1>5. /\ Final(m)
      /\ Settle(k, t, Settled(b, k, t, paid, 0, now, stop.days), paid)
  BY <1>1, <1>2, <1>3, <1>4 DEF DoRedeem
<1>6. paid \in Nat /\ t \in MarketType /\ (Holds(t) => Holds(m))
  BY <1>2, <1>4, <1>5, SettledTypes
<1>7. SameIndex(book, b)
  BY <1>3, ReceivedIndex DEF Sound, Covers, IndexShape
<1> QED
  BY <1>1, <1>5, <1>6, <1>7, SettleKeeps

LEMMA ClaimKeeps ==
    ASSUME Sound, NEW k \in Markets, DoClaim(k) PROVE Kept
<1>1. PICK m \in MarketType : m = mkt[k]
  BY DEF Sound
<1>2. PICK paid : paid = ClaimPayout(m)
  OBVIOUS
<1>3. PICK b : b = Received(book, k, paid)
  OBVIOUS
<1>4. PICK t : t = Claimed(m)
  OBVIOUS
<1>5. /\ Final(m)
      /\ Settle(k, t, Settled(b, k, t, 0, paid, now, stop.days), paid)
  BY <1>1, <1>2, <1>3, <1>4 DEF DoClaim
<1>6. paid \in Nat /\ t \in MarketType /\ (Holds(t) => Holds(m))
  BY <1>2, <1>4, <1>5, SettledTypes
<1>7. SameIndex(book, b)
  BY <1>3, ReceivedIndex DEF Sound, Covers, IndexShape
<1> QED
  BY <1>1, <1>5, <1>6, <1>7, SettleKeeps

LEMMA SettleMarketKeeps ==
    ASSUME Sound, NEW id \in Ids, SettleMarket(id) PROVE Kept
<1>1. PICK k \in Markets : k = Core(id)
  BY CoreMarket DEF Sound
<1>2. PICK m \in MarketType : m = mkt[k]
  BY DEF Sound
<1>3. PICK m1 \in MarketType : m1 = Redeemed(m) /\ (Holds(m1) => Holds(m))
  BY SettledTypes
<1>4. PICK lp : lp = (m.lp /\ ~m.claimed)
  OBVIOUS
<1>5. PICK m2 \in MarketType :
         m2 = (IF lp THEN Claimed(m1) ELSE m1) /\ (Holds(m2) => Holds(m))
  <2>1. Claimed(m1) \in MarketType /\ (Holds(Claimed(m1)) => Holds(m1))
    BY SettledTypes
  <2> QED
    BY <1>3, <2>1
<1>6. PICK x : x = RedeemPayout(m)
  OBVIOUS
<1>7. PICK y : y = IF lp THEN ClaimPayout(m) ELSE 0
  OBVIOUS
<1>8. PICK b1 : b1 = Received(book, k, x)
  OBVIOUS
<1>9. PICK b : b = Received(b1, k, y)
  OBVIOUS
<1>10. /\ Final(m)
       /\ Settle(k, m2, Settled(b, k, m2, x, y, now, stop.days), x + y)
  BY <1>1, <1>2, <1>3, <1>4, <1>5, <1>6, <1>7, <1>8, <1>9 DEF SettleMarket
<1>11. x \in Nat /\ y \in Nat
  BY <1>6, <1>7, <1>10, SettledTypes
<1>12. SameIndex(book, b)
  <2>1. SameIndex(book, b1)
    BY <1>8, ReceivedIndex DEF Sound, Covers, IndexShape
  <2>2. SameIndex(b1, b)
    BY <1>9, <2>1, ReceivedIndex DEF SameIndex
  <2> QED
    BY <2>1, <2>2, SameIndexTrans
<1>13. x + y \in Nat
  BY <1>11
<1> QED
  BY <1>2, <1>5, <1>10, <1>12, <1>13, SettleKeeps

(* realize(), the fees, and close_trade(): the index is not involved.      *)
LEMMA RealizeKeeps ==
    ASSUME Sound, NEW id \in Ids, Realize(id) PROVE Kept
<1>1. PICK k \in Markets : k = Core(id)
  BY CoreMarket DEF Sound
<1>2. PICK m \in MarketType : m = mkt[k]
  BY DEF Sound
<1>3. /\ mkt' = [mkt EXCEPT ![k] = m]
      /\ book' = TryRealize(book, k, m, now, stop.days)
      /\ vault' = [vault EXCEPT !.idle = @ + 0]
      /\ UNCHANGED <<legacy, global>>
  BY <1>1, <1>2 DEF Realize, Settle, Return, govVars
<1>4. hist'.gifts = hist.gifts /\ "gifts" \in DOMAIN hist'
  BY <1>1, SettleGifts DEF Realize, Sound
<1>5. SameIndex(book, book')
  BY <1>3, RealizeIndex DEF Sound, Covers, IndexShape
<1>6. mkt' \in [Markets -> MarketType] /\ Covers'
  BY <1>2, <1>3, <1>4, <1>5, QuietMarketStep
<1>7. CashStep
  <2>1. 0 \in Int
    OBVIOUS
  <2> QED
    BY <1>3, <2>1, IdleCash
<1> QED
  BY <1>4, <1>6, <1>7 DEF Kept

LEMMA FeesKeep ==
    ASSUME Sound, NEW a \in Agents, NEW id \in Ids,
           AgentClaimLpFees(a, id) \/ CollectMarketFees(id)
    PROVE  Kept
<1>1. PICK k \in Markets : k = Core(id)
  BY CoreMarket DEF Sound
<1>2. PICK m \in MarketType : m = mkt[k]
  BY DEF Sound
<1>3. hist'.gifts = hist.gifts /\ "gifts" \in DOMAIN hist'
  BY DEF AgentClaimLpFees, CollectMarketFees, Sound
<1>4. {"at", "slot"} \subseteq DOMAIN book
  BY DEF Sound, Covers, IndexShape
<1>5. PICK t \in MarketType, n \in Nat :
         /\ mkt' = [mkt EXCEPT ![k] = t] /\ SameIndex(book, book')
         /\ vault' = [vault EXCEPT !.idle = @ + n]
         /\ Holds(t) => Holds(m)
         /\ UNCHANGED <<legacy, global>>
  <2>1. CASE AgentClaimLpFees(a, id)
    <3>1. /\ [m EXCEPT !.lpFees = 0] \in MarketType /\ m.lpFees \in Nat
          /\ Holds([m EXCEPT !.lpFees = 0]) => Holds(m)
      BY DEF MarketType, Holds
    <3>2. /\ mkt' = [mkt EXCEPT ![k] = [m EXCEPT !.lpFees = 0]]
          /\ book' = RecordReturn(book, k, m.lpFees)
          /\ vault' = [vault EXCEPT !.idle = @ + m.lpFees]
          /\ UNCHANGED <<legacy, global>>
      BY <1>1, <1>2, <2>1 DEF AgentClaimLpFees, Return, govVars
    <3>3. SameIndex(book, book')
      BY <1>4, <3>2, AccountsKeepIndex
    <3> QED
      BY <3>1, <3>2, <3>3
  <2>2. CASE CollectMarketFees(id)
    <3>1. /\ [m EXCEPT !.fees = 0] \in MarketType /\ m.fees \in Nat
          /\ Holds([m EXCEPT !.fees = 0]) => Holds(m)
      BY DEF MarketType, Holds
    <3>2. /\ mkt' = [mkt EXCEPT ![k] = [m EXCEPT !.fees = 0]]
          /\ book' = book
          /\ vault' = [vault EXCEPT !.idle = @ + m.fees]
          /\ UNCHANGED <<legacy, global>>
      BY <1>1, <1>2, <2>2 DEF CollectMarketFees, Return, govVars
    <3>3. SameIndex(book, book')
      BY <1>4, <3>2 DEF SameIndex
    <3> QED
      BY <3>1, <3>2, <3>3
  <2> QED
    BY <2>1, <2>2
<1>6. mkt' \in [Markets -> MarketType] /\ Covers'
  BY <1>2, <1>3, <1>5, QuietMarketStep
<1>7. CashStep
  BY <1>5, IdleCash
<1> QED
  BY <1>3, <1>6, <1>7 DEF Kept

LEMMA SettleStepKeeps ==
    ASSUME Sound, SettleStep PROVE Kept
<1>1. ASSUME NEW id \in Ids, SettleMarket(id) \/ Realize(id) PROVE Kept
  BY <1>1, SettleMarketKeeps, RealizeKeeps
<1>2. ASSUME NEW id \in Ids, CollectMarketFees(id) PROVE Kept
  <2>1. FirstAgent \in Agents
    BY TreasuryGovAssumption
  <2> QED
    BY <1>2, <2>1, FeesKeep
<1>3. ASSUME NEW a \in Agents, NEW id \in Ids,
             Redeem(a, id) \/ ClaimPoolRemainder(a, id)
      PROVE  Kept
  <2>1. Core(id) \in Markets
    BY CoreMarket DEF Sound
  <2> QED
    BY <1>3, <2>1, RedeemKeeps, ClaimKeeps DEF Redeem, ClaimPoolRemainder
<1>4. ASSUME NEW a \in Agents, NEW id \in Ids, AgentClaimLpFees(a, id)
      PROVE  Kept
  BY <1>4, FeesKeep
<1>5. ASSUME NEW a \in Agents, NEW id \in Ids, CloseTrade(a, id)
      PROVE  Kept
  <2>1. /\ mkt' = mkt /\ vault' = vault /\ hist' = hist
        /\ book' = CloseMarketExposure(book, Core(id))
        /\ UNCHANGED <<legacy, global>>
    BY <1>5 DEF CloseTrade, govVars
  <2>2. SameIndex(book, book')
    BY <2>1, AccountsKeepIndex DEF Sound, Covers, IndexShape
  <2>3. mkt' \in [Markets -> MarketType] /\ Covers'
    BY <2>1, <2>2, QuietStep
  <2>4. CashStep
    BY <2>1, SameIsCash DEF Sound, VaultShape
  <2> QED
    BY <2>1, <2>3, <2>4 DEF Kept, Sound
<1>6. ASSUME NEW a \in Agents, NEW k \in Markets,
             LegacyRedeem(a, k) \/ LegacyClaimPoolRemainder(a, k)
      PROVE  Kept
  BY <1>6, RedeemKeeps, ClaimKeeps DEF LegacyRedeem, LegacyClaimPoolRemainder
<1> QED
  BY <1>1, <1>2, <1>3, <1>4, <1>5, <1>6 DEF SettleStep

LEMMA BatchKeeps ==
    ASSUME Sound, NEW ks \in SUBSET Markets, IsFiniteSet(ks), NEW after,
           NEW pay, DOMAIN pay = ks,
           \A k \in ks : /\ after[k] \in MarketType /\ pay[k] \in Nat
                         /\ Holds(after[k]) => Holds(mkt[k]),
           BatchPaid(ks, after, pay)
    PROVE  Kept
<1>1. /\ mkt' = [k \in Markets |-> IF k \in ks THEN after[k] ELSE mkt[k]]
      /\ vault' = [vault EXCEPT !.idle = @ + SumFunction(pay)]
      /\ book' = book /\ UNCHANGED <<legacy, global>>
  BY DEF BatchPaid, govVars
<1>2. hist'.gifts = hist.gifts /\ "gifts" \in DOMAIN hist'
  BY DEF BatchPaid, Sound
<1>3. mkt' \in [Markets -> MarketType]
  BY <1>1 DEF Sound
<1>4. \A k \in Markets : Holds(mkt'[k]) => Holds(mkt[k])
  BY <1>1
<1>5. Covers'
  BY <1>1, <1>2, <1>4 DEF Sound, Covers
<1>6. SumFunction(pay) \in Int
  <2>1. SumFunctionOnSet(pay, ks) \in Nat
    BY SumNat
  <2> QED
    BY <2>1, SumDomain
<1>7. CashStep
  BY <1>1, <1>6, IdleCash
<1> QED
  BY <1>2, <1>3, <1>5, <1>7 DEF Kept

LEMMA BatchStepKeeps ==
    ASSUME Sound, BatchStep PROVE Kept
<1>1. PICK a \in Agents, ids \in SUBSET Ids :
         RedeemMany(a, ids) \/ ClaimPoolRemainders(a, ids)
  BY DEF BatchStep
<1>2. IsFiniteSet(Markets)
  BY FS_Product, TreasuryAssumption DEF Markets
<1> DEFINE ks == {Core(id) : id \in ids}
<1>3. IsFiniteSet(ks) /\ ks \subseteq Markets
  <2>1. ks \subseteq Markets
    BY CoreMarket DEF Sound
  <2> QED
    BY <1>2, <2>1, FS_Subset
<1>4. \A k \in ks : mkt[k] \in MarketType
  BY <1>3 DEF Sound
<1>5. CASE RedeemMany(a, ids)
  <2> DEFINE P == {k \in ks : Final(mkt[k]) /\ ~mkt[k].closed
                              /\ mkt[k].pos # Zero}
             after == [k \in P |-> Redeemed(mkt[k])]
             pay == [k \in P |-> RedeemPayout(mkt[k])]
  <2>1. IsFiniteSet(P) /\ P \in SUBSET Markets
    BY <1>3, FS_Subset
  <2>2. BatchPaid(P, after, pay)
    BY <1>5 DEF RedeemMany
  <2>3. ASSUME NEW k \in P
        PROVE  /\ after[k] \in MarketType /\ pay[k] \in Nat
               /\ Holds(after[k]) => Holds(mkt[k])
    <3>1. mkt[k] \in MarketType /\ Final(mkt[k])
      BY <1>4
    <3> QED
      BY <3>1, SettledTypes
  <2>4. DOMAIN pay = P
    OBVIOUS
  <2> HIDE DEF P, after, pay
  <2> QED
    BY <2>1, <2>2, <2>3, <2>4, BatchKeeps
<1>6. CASE ClaimPoolRemainders(a, ids)
  <2> DEFINE P == {k \in ks : Final(mkt[k]) /\ ~mkt[k].closed
                              /\ mkt[k].lp /\ ~mkt[k].claimed}
             after == [k \in P |-> Claimed(mkt[k])]
             pay == [k \in P |-> ClaimPayout(mkt[k])]
  <2>1. IsFiniteSet(P) /\ P \in SUBSET Markets
    BY <1>3, FS_Subset
  <2>2. BatchPaid(P, after, pay)
    BY <1>6 DEF ClaimPoolRemainders
  <2>3. ASSUME NEW k \in P
        PROVE  /\ after[k] \in MarketType /\ pay[k] \in Nat
               /\ Holds(after[k]) => Holds(mkt[k])
    <3>1. mkt[k] \in MarketType /\ Final(mkt[k])
      BY <1>4
    <3> QED
      BY <3>1, SettledTypes
  <2>4. DOMAIN pay = P
    OBVIOUS
  <2> HIDE DEF P, after, pay
  <2> QED
    BY <2>1, <2>2, <2>3, <2>4, BatchKeeps
<1> QED
  BY <1>1, <1>5, <1>6

LEMMA StopKeeps ==
    ASSUME Sound, StopStep PROVE Kept
<1>1. /\ mkt' = mkt /\ vault' = vault /\ UNCHANGED <<legacy, global>>
      /\ hist'.gifts = hist.gifts /\ "gifts" \in DOMAIN hist'
  BY DEF StopStep, SetPaused, Unpause, AcknowledgeDrawdown, SetStop,
         ResetPnlWindow, SetDrawdownConfig, ClearResults, govVars, Sound
<1>2. SameIndex(book, book')
  BY DEF StopStep, SetPaused, Unpause, AcknowledgeDrawdown, SetStop,
         ResetPnlWindow, SetDrawdownConfig, ClearResults, SameIndex, Sound,
         Covers, IndexShape
<1>3. mkt' \in [Markets -> MarketType] /\ Covers'
  BY <1>1, <1>2, QuietStep
<1>4. CashStep
  BY <1>1, SameIsCash DEF Sound, VaultShape
<1> QED
  BY <1>1, <1>3, <1>4 DEF Kept

LEMMA YieldKeeps ==
    ASSUME Sound, YieldStep PROVE Kept
<1>1. mkt' = mkt /\ book' = book /\ hist' = hist /\ UNCHANGED <<legacy, global>>
  BY DEF YieldStep, SetYieldVenue, DisableYield, YieldAccrues,
         AllocateToYield, RecallFromYield, Withdraw, govVars
<1>2. SameIndex(book, book')
  BY <1>1 DEF SameIndex, Sound, Covers, IndexShape
<1>3. mkt' \in [Markets -> MarketType] /\ Covers'
  BY <1>1, <1>2, QuietStep
<1>4. vault \in VaultType /\ vault.idle \in Int
  BY DEF Sound, VaultShape, VaultType
<1>5. YieldAmounts \subseteq Nat /\ PayChoices \subseteq Nat
  BY TreasuryAssumption
<1>6. CASE vault' = vault
  BY <1>1, <1>3, <1>4, <1>6, SameIsCash DEF Kept, Sound
<1>7. ASSUME NEW n \in YieldAmounts, AllocateToYield(n) \/ RecallFromYield(n)
      PROVE  CashStep
  <2>1. n \in Int /\ -n \in Int
    BY <1>5
  <2>2. CASE AllocateToYield(n)
    <3>1. vault' = [vault EXCEPT !.idle = @ + (-n)]
      BY <1>4, <2>1, <2>2 DEF AllocateToYield
    <3> QED
      BY <2>1, <3>1, IdleCash
  <2>3. CASE RecallFromYield(n)
    <3>1. vault' = [vault EXCEPT !.idle = @ + n]
      BY <2>3 DEF RecallFromYield
    <3> QED
      BY <2>1, <3>1, IdleCash
  <2> QED
    BY <1>7, <2>2, <2>3
<1>8. ASSUME NEW o \in Owners, NEW n \in PayChoices, NEW short \in 0 .. 1,
             Withdraw(o, n, short)
      PROVE  CashStep
  <2>1. n \in Int
    BY <1>5
  <2>2. PICK i \in Int : i = vault.idle + Recalled(n) - short - n
    BY <1>4, <2>1, RecallInt
  <2>3. vault' = [vault EXCEPT !.idle = i, !.wallet[o] = @ + n]
    BY <1>8, <2>2 DEF Withdraw
  <2> QED
    BY <1>4, <2>1, <2>3, WalletIsCash
<1>9. vault' = vault \/ CashStep
  BY <1>7, <1>8 DEF YieldStep, SetYieldVenue, DisableYield, YieldAccrues
<1> QED
  BY <1>1, <1>3, <1>6, <1>9 DEF Kept, Sound

LEMMA MigrateKeeps ==
    ASSUME Sound, MigrateStep PROVE Kept
<1>1. vault' = vault /\ UNCHANGED <<legacy, global>>
      /\ hist'.gifts = hist.gifts /\ "gifts" \in DOMAIN hist'
  BY DEF MigrateStep, SetSuccessor, MigrateMarket, govVars, Sound
<1>2. CashStep
  BY <1>1, SameIsCash DEF Sound, VaultShape
<1>3. ASSUME SetSuccessor PROVE mkt' \in [Markets -> MarketType] /\ Covers'
  <2>1. mkt' = mkt /\ book' = book
    BY <1>3 DEF SetSuccessor
  <2>2. SameIndex(book, book')
    BY <2>1 DEF SameIndex, Sound, Covers, IndexShape
  <2> QED
    BY <1>1, <2>1, <2>2, QuietStep
<1>4. ASSUME NEW id \in Ids, MigrateMarket(id)
      PROVE  mkt' \in [Markets -> MarketType] /\ Covers'
  <2>1. PICK k \in Markets : k = Core(id)
    BY CoreMarket DEF Sound
  <2>2. PICK m \in MarketType : m = mkt[k]
    BY DEF Sound
  <2>3. PICK t : t = [m EXCEPT !.pos = Zero, !.lp = @ /\ m.claimed]
    OBVIOUS
  <2>4. PICK b : b = ClearNet(CloseMarketExposure(book, k), k)
    OBVIOUS
  <2>5. mkt' = [mkt EXCEPT ![k] = t] /\ book' = IndexRemove(b, k)
    BY <1>4, <2>1, <2>2, <2>3, <2>4 DEF MigrateMarket
  <2>6. t \in MarketType /\ ~Holds(t)
    <3>1. (m.lp /\ m.claimed) \in BOOLEAN
      OBVIOUS
    <3>2. /\ t \in MarketType /\ t.pos = Zero
          /\ t.lp = (m.lp /\ m.claimed) /\ t.claimed = m.claimed
      BY <2>3, <3>1, ZeroPair DEF MarketType
    <3> QED
      BY <3>2 DEF Holds
  <2>7. IndexShape(b) /\ b.slot = book.slot
    <3>1. PICK c : c = CloseMarketExposure(book, k)
      OBVIOUS
    <3>2. SameIndex(book, c)
      BY <3>1, AccountsKeepIndex DEF Sound, Covers, IndexShape
    <3>3. SameIndex(c, b)
      BY <2>4, <3>1, <3>2, AccountsKeepIndex DEF ClearNet, SameIndex
    <3>4. SameIndex(book, b)
      BY <3>2, <3>3, SameIndexTrans
    <3> QED
      BY <3>4, SameShape DEF Sound, Covers, SameIndex
  <2>8. /\ IndexShape(book') /\ book'.slot[k] = 0
        /\ \A j \in Markets : j # k => (book'.slot[j] # 0 <=> book.slot[j] # 0)
    BY <2>5, <2>7, RemoveShape
  <2> QED
    BY <1>1, <2>5, <2>6, <2>8, OneMarketStep
<1> QED
  BY <1>1, <1>2, <1>3, <1>4 DEF MigrateStep, Kept

LEMMA SetMarketKeeps ==
    ASSUME Sound, NEW k \in Markets, NEW m \in MarketType,
           Holds(m) => Holds(mkt[k]), SetMarket(k, m)
    PROVE  Kept
<1>1. /\ mkt' = [mkt EXCEPT ![k] = m] /\ book' = book /\ vault' = vault
      /\ hist' = hist /\ UNCHANGED <<legacy, global>>
  BY DEF SetMarket, govVars
<1>2. SameIndex(book, book')
  BY <1>1 DEF SameIndex, Sound, Covers, IndexShape
<1>3. mkt' \in [Markets -> MarketType] /\ Covers'
  BY <1>1, <1>2, QuietMarketStep
<1>4. CashStep
  BY <1>1, SameIsCash DEF Sound, VaultShape
<1> QED
  BY <1>1, <1>3, <1>4 DEF Kept, Sound

LEMMA OthersKeep ==
    ASSUME Sound, OthersStep PROVE Kept
<1>1. ASSUME NEW core \in Cores, NEW seed \in SeedChoices,
             NEW prob \in ProbChoices, NEW close \in CloseChoices,
             OthersCreate(core, close, seed, prob)
      PROVE  Kept
  <2>1. seed \in Nat /\ prob \in Nat /\ close \in Nat
    BY TreasuryAssumption
  <2>2. PICK id \in Ids : id = NextId(core)
    BY <1>1, NextIdIn DEF OthersCreate
  <2>3. <<core, id>> \in Markets
    BY DEF Markets
  <2>4. PICK m : m = Created(FALSE, close, seed, prob)
    OBVIOUS
  <2>5. SeedOk(seed, prob) /\ SetMarket(<<core, id>>, m)
    BY <1>1, <2>2, <2>4 DEF OthersCreate
  <2>6. m \in MarketType /\ ~Holds(m)
    BY <2>1, <2>4, <2>5, CreatedType
  <2> QED
    BY <2>3, <2>5, <2>6, SetMarketKeeps
<1>2. ASSUME NEW k \in Markets, NEW o \in Outcomes, NEW n \in OtherTrades,
             OthersBuy(k, o, n)
      PROVE  Kept
  <2>1. n \in Nat
    BY TreasuryAssumption
  <2>2. PICK m \in MarketType : m = mkt[k]
    BY DEF Sound
  <2>3. PICK q : q = CalcBuy(m.reserve[o], m.reserve[Other(o)], n, FeeBps)
    OBVIOUS
  <2>4. PICK r : r = ReservesWith(o, q.newBought, q.newOther)
    OBVIOUS
  <2>5. PICK t : t = Traded(m, o, r, q.fee, FeeShare, 0)
    OBVIOUS
  <2>6. /\ BuyOk(m.reserve[o], m.reserve[Other(o)], n, FeeBps)
        /\ SetMarket(k, t)
    BY <1>2, <2>2, <2>3, <2>4, <2>5 DEF OthersBuy
  <2>7. q.fee \in Nat /\ r \in [Outcomes -> Nat]
    BY <2>1, <2>3, <2>4, <2>6, BoughtType
  <2>8. m.pos[o] + 0 >= 0 /\ 0 \in Int
    BY DEF MarketType
  <2>9. t \in MarketType /\ (Holds(t) => Holds(m))
    BY <2>5, <2>7, <2>8, TradedType
  <2> QED
    BY <2>2, <2>6, <2>9, SetMarketKeeps
<1>3. ASSUME NEW k \in Markets, NEW kind \in {"yes", "no", "void"},
             Resolved(k, kind)
      PROVE  Kept
  <2>1. mkt[k] \in MarketType
    BY DEF Sound
  <2>2. PICK t : t = [mkt[k] EXCEPT !.status = kind]
    OBVIOUS
  <2>3. t \in MarketType /\ (Holds(t) => Holds(mkt[k]))
    BY <2>1, <2>2 DEF MarketType, Holds
  <2>4. SetMarket(k, t)
    BY <1>3, <2>2 DEF Resolved
  <2> QED
    BY <2>3, <2>4, SetMarketKeeps
<1>4. ASSUME NEW k \in Markets, NEW o \in Outcomes, Gift(k, o) PROVE Kept
  <2>1. PICK m \in MarketType : m = mkt[k]
    BY DEF Sound
  <2>2. PICK p \in [Outcomes -> Nat] : p = [m.pos EXCEPT ![o] = @ + 1]
    <3>1. [m.pos EXCEPT ![o] = @ + 1] \in [Outcomes -> Nat]
      BY DEF MarketType
    <3> QED
      BY <3>1
  <2>3. PICK t \in MarketType : t = [m EXCEPT !.pos = p]
    <3>1. [m EXCEPT !.pos = p] \in MarketType
      BY DEF MarketType
    <3> QED
      BY <3>1
  <2>4. mkt' = [mkt EXCEPT ![k] = t]
    BY <1>4, <2>1, <2>2, <2>3 DEF Gift, Sound, MarketType
  <2>5. /\ hist'.gifts = hist.gifts \cup {k} /\ "gifts" \in DOMAIN hist'
        /\ book' = book /\ vault' = vault /\ UNCHANGED <<legacy, global>>
    BY <1>4 DEF Gift, govVars, Sound
  <2>6. SameIndex(book, book')
    BY <2>5 DEF SameIndex, Sound, Covers, IndexShape
  <2>7. mkt' \in [Markets -> MarketType] /\ Covers'
    BY <2>4, <2>5, <2>6, QuietMarketStep
  <2>8. CashStep
    BY <2>5, SameIsCash DEF Sound, VaultShape
  <2> QED
    BY <2>5, <2>7, <2>8 DEF Kept
<1>5. ASSUME NEW k \in Markets, ClosedOut(k) PROVE Kept
  <2>1. mkt[k] \in MarketType
    BY DEF Sound
  <2>2. PICK t : t = [mkt[k] EXCEPT !.reserve = Zero, !.claimed = TRUE,
                                    !.fees = 0, !.lpFees = 0, !.closed = TRUE]
    OBVIOUS
  <2>3. t \in MarketType /\ (Holds(t) => Holds(mkt[k]))
    BY <2>1, <2>2, ZeroPair DEF MarketType, Holds
  <2>4. SetMarket(k, t)
    BY <1>5, <2>2 DEF ClosedOut
  <2> QED
    BY <2>3, <2>4, SetMarketKeeps
<1> QED
  BY <1>1, <1>2, <1>3, <1>4, <1>5 DEF OthersStep

(* The core that is replaced joins the legacy ones.                        *)
LEMMA CoresStayReachable ==
    ASSUME [GovNext]_govVars
    PROVE  legacy \cup {global.core} \subseteq legacy' \cup {global'.core}
<1>1. ASSUME NEW empty, NEW c \in Configs, ProposeConfig(c, empty)
      PROVE  legacy' = legacy /\ global'.core = global.core
  <2>1. ASSUME ClassifyGlobal(global, c) = "tighten_only", global' = c
        PROVE  global'.core = global.core
    BY <2>1 DEF ClassifyGlobal
  <2> QED
    BY <1>1, <2>1 DEF ProposeConfig
<1>2. ASSUME NEW empty, ExecuteConfig(empty)
      PROVE  legacy \cup {global.core} \subseteq legacy' \cup {global'.core}
  BY <1>2 DEF ExecuteConfig
<1>3. ASSUME NEW empty, GovStep(empty), ~ExecuteConfig(empty),
             ~\E c \in Configs : ProposeConfig(c, empty)
      PROVE  UNCHANGED <<legacy, global>>
  BY <1>3 DEF GovStep, SetAgent, ExecuteAgent, CancelAgent, RemoveAgent,
              CancelConfig, SetConfigDelay, SetPricePolicy,
              ExecutePricePolicy, CancelPricePolicy, SetCreationPolicy
<1>4. ASSUME Tick \/ UNCHANGED govVars PROVE UNCHANGED <<legacy, global>>
  BY <1>4 DEF Tick, govVars
<1> QED
  BY <1>1, <1>2, <1>3, <1>4 DEF GovNext

-----------------------------------------------------------------------------
(* The invariant of the treasury.                                          *)

LEMMA SoundIsInv ==
    /\ Sound <=> TreasuryInv
    /\ Sound' <=> TreasuryInv'
<1>1. StateTypes <=> /\ mkt \in [Markets -> MarketType] /\ vault \in VaultType
                     /\ IndexTypes /\ "gifts" \in DOMAIN hist
  BY DEF StateTypes, IndexTypes
<1>2. StateTypes' <=> /\ mkt' \in [Markets -> MarketType]
                      /\ vault' \in VaultType
                      /\ IndexTypes' /\ "gifts" \in DOMAIN hist'
  BY DEF StateTypes, IndexTypes
<1>3. Sound <=> TreasuryInv
  BY <1>1, ShapeIsInv, CoversIsInv DEF Sound, TreasuryInv
<1>4. Sound' <=> TreasuryInv'
  <2>1. Sound' <=> /\ GovInv' /\ mkt' \in [Markets -> MarketType]
                   /\ VaultShape(vault') /\ Covers' /\ "gifts" \in DOMAIN hist'
    BY DEF Sound, VaultShape
  <2>2. TreasuryInv' <=> GovInv' /\ StateTypes' /\ VaultInv'
                         /\ IndexCoversHoldings'
    BY DEF TreasuryInv
  <2>3. VaultShape(vault') <=> vault' \in VaultType /\ VaultInv'
    BY ShapeIsInv
  <2>4. Covers' <=> IndexTypes' /\ IndexCoversHoldings'
    BY CoversIsInv
  <2> QED
    BY <1>2, <2>1, <2>2, <2>3, <2>4
<1> QED
  BY <1>3, <1>4

LEMMA EmptyQueue ==
    ASSUME NEW T, T = [i \in 1 .. MaxTickets |-> None]
    PROVE  Queue(T, 1, 1) /\ OwedTickets(T, 1, 1) = 0
<1>1. MaxTickets \in Nat \ {0}
  BY TreasuryAssumption
<1>2. Queue(T, 1, 1)
  BY <1>1 DEF Queue
<1> DEFINE f == [i \in 1 .. 1 - 1 |-> T[i].remaining]
           S == 1 .. 1 - 1
<1>3. S = {}
  OBVIOUS
<1>4. SumFunction(f) = SumFunctionOnSet(f, S)
  BY SumDomain
<1>5. SumFunctionOnSet(f, {}) = 0
  <2> HIDE DEF f
  <2> QED
    BY SumEmpty
<1> QED
  BY <1>2, <1>3, <1>4, <1>5 DEF OwedTickets

LEMMA InitShares ==
    ASSUME NEW n \in Nat
    PROVE  /\ [o \in Owners |-> IF o = Admin THEN n ELSE 0] \in [Owners -> Nat]
           /\ SumFunction([x \in Owners |->
                 [o \in Owners |-> IF o = Admin THEN n ELSE 0][x]]) = n
<1>1. Admin \in Owners
  BY TreasuryAssumption
<1> DEFINE z == [o \in Owners |-> 0]
           s == [o \in Owners |-> IF o = Admin THEN n ELSE 0]
<1>2. z \in [Owners -> Nat] /\ s \in [Owners -> Nat]
  OBVIOUS
<1>3. s = [z EXCEPT ![Admin] = @ + n] /\ \A o \in Owners : z[o] = 0
  BY <1>1
<1> HIDE DEF s, z
<1>4. SumFunction([x \in Owners |-> z[x]]) = 0
  BY <1>2, <1>3, SharesSum
<1>5. SumFunction([x \in Owners |-> s[x]])
        = SumFunction([x \in Owners |-> z[x]]) + n
  <2>1. n \in Int
    OBVIOUS
  <2> QED
    BY <1>1, <1>2, <1>3, <2>1, SharesSumChange
<1> QED
  BY <1>2, <1>4, <1>5 DEF s

LEMMA InitSound == Init => Sound
<1> SUFFICES ASSUME Init PROVE Sound
  OBVIOUS
<1>1. GovInv
  BY GovInitInv DEF Init
<1>2. NoMarket \in MarketType /\ ~Holds(NoMarket)
  BY ZeroPair DEF NoMarket, MarketType, Holds
<1>3. mkt \in [Markets -> MarketType] /\ \A k \in Markets : ~Holds(mkt[k])
  <2>1. mkt = [k \in Markets |-> NoMarket]
    BY DEF Init
  <2> QED
    BY <1>2, <2>1
<1>4. "gifts" \in DOMAIN hist
  BY DEF Init
<1>5. Covers
  <2>1. /\ {"at", "slot"} \subseteq DOMAIN book /\ book.at = <<>>
        /\ book.slot = [k \in Markets |-> 0]
    BY DEF Init, EmptyBook
  <2>2. MaxOpenMarkets \in Nat
    BY TreasuryAssumption
  <2>3. IndexShape(book)
    BY <2>1, <2>2 DEF IndexShape
  <2> QED
    BY <1>3, <2>1, <2>3 DEF Covers
<1>6. VaultShape(vault)
  <2>1. PICK minted : minted = IF InitialIdle = 0 THEN 0
                               ELSE SharesForDeposit(InitialIdle, 0, 0)
    OBVIOUS
  <2>2. PICK dead : dead = IF InitialIdle = 0 THEN 0 ELSE VirtualShares
    OBVIOUS
  <2>3. PICK T : T = [i \in 1 .. MaxTickets |-> None]
    OBVIOUS
  <2>4. PICK n : n = minted - dead
    OBVIOUS
  <2>5. PICK s : s = [o \in Owners |-> IF o = Admin THEN n ELSE 0]
    OBVIOUS
  <2>6. /\ vault = [idle |-> InitialIdle, supply |-> minted, shares |-> s,
                    wallet |-> [o \in Owners |-> Wallet], reserved |-> 0,
                    head |-> 1, tail |-> 1, ticket |-> T]
        /\ InitialIdle > 0 => minted > dead
    BY <2>1, <2>2, <2>3, <2>4, <2>5 DEF Init
  <2>7. /\ InitialIdle \in Nat /\ Wallet \in Nat /\ VirtualShares \in Nat \ {0}
        /\ VirtualAssets \in Nat \ {0}
    BY TreasuryAssumption, TreasuryMathAssumption
  <2>8. minted \in Nat /\ dead \in Nat
    <3>1. SharesForDeposit(InitialIdle, 0, 0) \in Nat
      <4>1. 0 + VirtualShares \in Nat /\ 0 + VirtualAssets \in Nat
            /\ 0 + VirtualAssets > 0
        BY <2>7
      <4> QED
        BY <2>7, <4>1, FloorBound DEF SharesForDeposit
    <3> QED
      BY <2>1, <2>2, <2>7, <3>1
  <2>9. n \in Nat
    BY <2>1, <2>2, <2>4, <2>6, <2>7, <2>8
  <2>10. s \in [Owners -> Nat] /\ SumFunction([x \in Owners |-> s[x]]) = n
    BY <2>5, <2>9, InitShares
  <2>11. SharesBacked(s, minted)
    <3>1. CASE InitialIdle = 0
      <4>1. minted = 0 /\ n = 0
        BY <2>1, <2>2, <2>4, <3>1
      <4> QED
        BY <2>5, <4>1 DEF SharesBacked
    <3>2. CASE InitialIdle # 0
      BY <2>2, <2>4, <2>7, <2>8, <2>10, <3>2 DEF SharesBacked
    <3> QED
      BY <3>1, <3>2
  <2>12. Queue(T, 1, 1) /\ OwedTickets(T, 1, 1) = 0
    BY <2>3, EmptyQueue
  <2>13. T \in [1 .. MaxTickets -> Tickets \cup {None}]
    BY <2>3
  <2>14. vault \in VaultType
    BY <2>6, <2>7, <2>8, <2>10, <2>13 DEF VaultType
  <2> QED
    BY <2>6, <2>11, <2>12, <2>14 DEF VaultShape
<1> QED
  BY <1>1, <1>3, <1>4, <1>5, <1>6 DEF Sound

(* Every step keeps the invariant, and the price of a share.               *)
LEMMA NextSound ==
    ASSUME Sound, [Next]_vars PROVE Sound' /\ PriceKept
<1>1. GovInv' /\ [GovNext]_govVars
  BY TreasuryStepsGov, GovNextInv DEF Sound
<1>2. ASSUME Kept PROVE Sound' /\ PriceKept
  <2>1. /\ VaultShape(vault')
        /\ vault'.supply = vault.supply /\ vault'.reserved = vault.reserved
    BY <1>2, CashKeepsShape DEF Kept, Sound
  <2>2. PriceKept
    BY <2>1 DEF PriceKept
  <2>3. VaultShape(vault)'
    BY <2>1
  <2> QED
    BY <1>1, <1>2, <2>2, <2>3 DEF Kept, Sound
<1>3. ASSUME ConfigStep \/ UNCHANGED vars PROVE Kept
  <2>1. UNCHANGED vaultVars
    BY <1>3 DEF ConfigStep, vars
  <2>2. mkt' = mkt /\ vault' = vault /\ book' = book /\ hist' = hist
    BY <2>1 DEF vaultVars
  <2>3. legacy \cup {global.core} \subseteq legacy' \cup {global'.core}
    BY <1>1, CoresStayReachable
  <2>4. Covers'
    BY <2>2, <2>3 DEF Sound, Covers
  <2>5. CashStep
    BY <2>2, SameIsCash DEF Sound, VaultShape
  <2> QED
    BY <2>2, <2>4, <2>5 DEF Kept, Sound
<1>4. ASSUME ShareStep PROVE Sound' /\ PriceKept
  <2>1. StateTypes /\ VaultShape(vault)
    BY SoundIsInv DEF TreasuryInv, Sound
  <2>2. VaultShape(vault') /\ PriceKept
    BY <1>4, <2>1, ShareStepVault
  <2>3. mkt' = mkt /\ book' = book /\ hist' = hist /\ UNCHANGED <<legacy, global>>
    <3> DEFINE Rest == /\ mkt' = mkt /\ book' = book /\ hist' = hist
                       /\ UNCHANGED <<legacy, global>>
    <3>1. ASSUME NEW o \in Owners, NEW n \in DepositChoices,
                 Deposit(o, n) \/ Donate(o, n)
          PROVE  Rest
      BY <3>1 DEF Deposit, Donate, govVars
    <3>2. ASSUME NEW o \in Owners, NEW n \in BurnChoices,
                 RequestWithdraw(o, n) \/ EmergencyWithdraw(o, n)
          PROVE  Rest
      BY <3>2 DEF RequestWithdraw, EmergencyWithdraw, govVars
    <3>3. ASSUME NEW i \in 1 .. MaxTickets, ClaimWithdraw(i) PROVE Rest
      BY <3>3 DEF ClaimWithdraw, govVars
    <3> HIDE DEF Rest
    <3>4. Rest
      BY <1>4, <3>1, <3>2, <3>3 DEF ShareStep
    <3> QED
      BY <3>4 DEF Rest
  <2>4. Covers' /\ mkt' \in [Markets -> MarketType] /\ "gifts" \in DOMAIN hist'
    BY <2>3 DEF Sound, Covers
  <2>5. VaultShape(vault)'
    BY <2>2
  <2> QED
    BY <1>1, <2>2, <2>4, <2>5 DEF Sound
<1> QED
  BY <1>2, <1>3, <1>4, CreateKeeps, TradeKeeps, SettleStepKeeps,
     BatchStepKeeps, StopKeeps, YieldKeeps, MigrateKeeps, OthersKeep DEF Next

(* The invariant TLC checks is inductive: the configuration is as the      *)
(* governance leaves it, the vault's shares and queue add up, the index    *)
(* covers the holdings.                                                    *)
THEOREM TreasuryInvariance == Spec => []TreasuryInv
<1>1. Init => Sound
  BY InitSound
<1>2. Sound /\ [Next]_vars => Sound'
  BY NextSound
<1>3. Sound => TreasuryInv
  BY SoundIsInv
<1> QED
  BY <1>1, <1>2, <1>3, PTL DEF Spec

(* nav() never misses a market the treasury put money into: create, trade, *)
(* settlement, batches, migration and the swap-remove of a settled entry   *)
(* keep index, reverse map and holdings in agreement, across every change  *)
(* of market-core.                                                         *)
THEOREM NavCoversHoldings == Spec => []IndexCoversHoldings
<1>1. TreasuryInv => IndexCoversHoldings
  BY DEF TreasuryInv
<1> QED
  BY <1>1, TreasuryInvariance, PTL

(* Shares and queue add up: every share but the dead ones has an owner,    *)
(* and the collateral reserved is what the open tickets are owed, whatever *)
(* the order of deposits, requests, claims and emergency exits.            *)
THEOREM VaultAddsUp == Spec => []VaultBooks
<1>1. TreasuryInv => VaultBooks
  BY DEF TreasuryInv, VaultInv
<1> QED
  BY <1>1, TreasuryInvariance, PTL

(* Nobody dilutes the others: no deposit, request, claim or emergency exit *)
(* of any size lowers what a share is worth while the queue is covered.    *)
THEOREM NobodyDilutes == Spec => SharePriceNeverFalls
<1>1. Init => Sound
  BY InitSound
<1>2. Sound /\ [Next]_vars => Sound' /\ PriceKept
  BY NextSound
<1> QED
  BY <1>1, <1>2, PTL DEF Spec, SharePriceNeverFalls, PriceKept
=============================================================================
