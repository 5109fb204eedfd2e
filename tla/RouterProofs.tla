---------------------------- MODULE RouterProofs ----------------------------
(***************************************************************************)
(* The promises of the commitment flows, the reasoning registry and the    *)
(* router, for any rules, envelopes, agents, keys and number of traces.    *)
(***************************************************************************)
EXTENDS Router, MathProofs, SequenceTheorems

-----------------------------------------------------------------------------
(* Increasing sequences and the indexes made of them.                      *)

(* A number above all the listed ones goes to the end.                     *)
LEMMA ListsAppend ==
    ASSUME NEW n \in Nat, NEW s \in Seq(Nat), NEW S, Lists(s, S),
           \A x \in S : x < n
    PROVE  Append(s, n) \in Seq(Nat) /\ Lists(Append(s, n), S \cup {n})
<1> DEFINE t == Append(s, n)
<1>1. /\ t \in Seq(Nat) /\ Len(t) = Len(s) + 1 /\ DOMAIN t = 1 .. Len(s) + 1
      /\ t[Len(s) + 1] = n /\ \A i \in 1 .. Len(s) : t[i] = s[i]
  OBVIOUS
<1>2. DOMAIN s = 1 .. Len(s) /\ Len(s) \in Nat
  OBVIOUS
<1> HIDE DEF t
<1>3. \A i \in DOMAIN s : s[i] \in S /\ s[i] < n /\ s[i] \in Nat
  BY <1>2 DEF Lists
<1>4. {t[i] : i \in DOMAIN t} = S \cup {n}
  <2>1. ASSUME NEW x \in S PROVE \E i \in DOMAIN t : t[i] = x
    <3>1. PICK i \in DOMAIN s : s[i] = x
      BY DEF Lists
    <3> QED
      BY <1>1, <1>2, <3>1
  <2>2. ASSUME NEW i \in DOMAIN t PROVE t[i] \in S \cup {n}
    <3>1. CASE i \in 1 .. Len(s)
      BY <1>1, <1>2, <1>3, <3>1
    <3>2. CASE i = Len(s) + 1
      BY <1>1, <3>2
    <3> QED
      BY <1>1, <1>2, <3>1, <3>2
  <2>3. Len(s) + 1 \in DOMAIN t
    BY <1>1, <1>2
  <2> QED
    BY <1>1, <2>1, <2>2, <2>3
<1>5. ASSUME NEW i \in DOMAIN t, NEW j \in DOMAIN t, i < j PROVE t[i] < t[j]
  <2>1. i \in 1 .. Len(s)
    BY <1>1, <1>2, <1>5
  <2>2. CASE j \in 1 .. Len(s)
    BY <1>1, <1>2, <1>5, <2>1, <2>2 DEF Lists
  <2>3. CASE j = Len(s) + 1
    BY <1>1, <1>2, <1>3, <2>1, <2>3
  <2> QED
    BY <1>1, <1>2, <2>2, <2>3
<1> QED
  BY <1>1, <1>4, <1>5 DEF Lists, t

LEMMA EmptyLists ==
    ASSUME NEW s, s = << >> PROVE Lists(s, {}) /\ s \in Seq(Nat)
<1>1. s \in Seq(Nat) /\ Len(s) = 0
  OBVIOUS
<1>2. DOMAIN s = 1 .. 0
  BY <1>1
<1>3. \A i : i \notin 1 .. 0
  OBVIOUS
<1> QED
  BY <1>1, <1>2, <1>3 DEF Lists

(* write_trace appends the new id under its key: the index of the longer   *)
(* list of traces.                                                         *)
LEMMA IndexGrows ==
    ASSUME NEW n \in Nat, NEW index, NEW key, DOMAIN key = 1 .. n,
           Indexes(index, key),
           NEW key2, DOMAIN key2 = 1 .. n + 1,
           \A i \in 1 .. n : key2[i] = key[i]
    PROVE  Indexes(Indexed(index, key2[n + 1], n + 1), key2)
<1> DEFINE k == key2[n + 1]
           J == Indexed(index, k, n + 1)
           Had(x) == {i \in DOMAIN key : key[i] = x}
           Has(x) == {i \in DOMAIN key2 : key2[i] = x}
<1>1. DOMAIN J = DOMAIN index \cup {k}
  BY DEF Indexed
<1>2. J[k] = Append(At(index, k), n + 1)
      /\ \A x \in DOMAIN index : x # k => J[x] = index[x]
  BY DEF Indexed
<1>3. At(index, k) \in Seq(Nat) /\ Lists(At(index, k), Had(k))
  <2>1. CASE k \in DOMAIN index
    BY <2>1 DEF Indexes, At
  <2>2. CASE k \notin DOMAIN index
    <3>1. At(index, k) = << >> /\ Had(k) = {}
      BY <2>2 DEF Indexes, At
    <3> QED
      BY <3>1, EmptyLists
  <2> QED
    BY <2>1, <2>2
<1>4. Has(k) = Had(k) \cup {n + 1} /\ \A x \in Had(k) : x < n + 1
  OBVIOUS
<1>5. \A x : x # k => Has(x) = Had(x)
  OBVIOUS
<1> HIDE DEF Had, Has, J, k
<1>6. J[k] \in Seq(Nat) /\ Lists(J[k], Has(k))
  BY <1>2, <1>3, <1>4, ListsAppend
<1>7. ASSUME NEW x \in DOMAIN index, x # k
      PROVE  J[x] \in Seq(Nat) /\ Lists(J[x], Has(x))
  BY <1>2, <1>5, <1>7 DEF Indexes, Had
<1>8. ASSUME NEW i \in DOMAIN key2 PROVE key2[i] \in DOMAIN J
  BY <1>1 DEF Indexes, k
<1> QED
  BY <1>1, <1>6, <1>7, <1>8 DEF Indexes, Has, J, k

-----------------------------------------------------------------------------
(* The commitment flows.                                                   *)

LEMMA CommitInitial == CommitInit => CommitInv
<1> SUFFICES ASSUME CommitInit PROVE CommitInv
  OBVIOUS
<1>1. markets \in Seq(MarketType) /\ Len(markets) = 0
  BY DEF CommitInit
<1>2. CommitType
  BY <1>1, CommitmentAssumption DEF CommitInit, CommitType
<1>3. RevealedIsCommitted
  BY FS_EmptySet DEF CommitInit, RevealedIsCommitted
<1> QED
  BY <1>2, <1>3 DEF CommitInv

(* create_market adds one market and keeps the others.                     *)
LEMMA CreatedMarket ==
    ASSUME CommitType, NEW hash \in HashType,
           NEW by \in {"create_market", "router", "treasury"},
           Len(markets) < MaxMarkets, markets' = Created(hash, by)
    PROVE  /\ markets' \in Seq(MarketType) /\ Len(markets') <= MaxMarkets
           /\ DOMAIN markets = 1 .. Len(markets)
           /\ DOMAIN markets' = 1 .. Len(markets) + 1
           /\ Len(markets) \in Nat /\ Len(markets) + 1 \in Ids
           /\ \A i \in DOMAIN markets : markets'[i] = markets[i]
           /\ markets'[Len(markets) + 1] = [hash |-> hash, by |-> by]
<1>1. [hash |-> hash, by |-> by] \in MarketType
  BY DEF MarketType
<1>2. markets \in Seq(MarketType) /\ Len(markets) \in Nat /\ MaxMarkets \in Nat
  BY CommitmentAssumption DEF CommitType
<1> QED
  BY <1>1, <1>2 DEF Created, Ids

(* A reveal gives a market that has no rule one its hash commits to.       *)
LEMMA Revealed ==
    ASSUME CommitInv, NEW id \in Ids, NEW rule \in RuleType,
           entries[id] = {}, StoreRule(id, rule),
           \A i \in DOMAIN markets :
               i \in DOMAIN markets' /\ markets'[i] = markets[i],
           id \in DOMAIN markets', markets'[id].hash \in HashesOf(rule)
    PROVE  /\ entries' \in [Ids -> SUBSET RuleType] /\ DOMAIN rstate' = Ids
           /\ RevealedIsCommitted'
           /\ entries'[id] # {}
           /\ \A i \in Ids : i # id => entries'[i] = entries[i]
<1>1. /\ entries \in [Ids -> SUBSET RuleType] /\ DOMAIN rstate = Ids
      /\ RevealedIsCommitted
  BY DEF CommitInv, CommitType
<1>2. /\ entries' \in [Ids -> SUBSET RuleType]
      /\ entries'[id] = {rule}
      /\ \A i \in Ids : i # id => entries'[i] = entries[i]
  BY <1>1 DEF StoreRule
<1>3. DOMAIN rstate' = Ids
  BY <1>1 DEF StoreRule
<1>4. Cardinality({rule}) = 1
  BY FS_Singleton
<1>5. ASSUME NEW i \in Ids
      PROVE  /\ Cardinality(entries'[i]) <= 1
             /\ \A r \in entries'[i] :
                    i \in DOMAIN markets' /\ markets'[i].hash \in HashesOf(r)
  <2>1. CASE i = id
    BY <1>2, <1>4, <2>1
  <2>2. CASE i # id
    BY <1>1, <1>2, <2>2 DEF RevealedIsCommitted
  <2> QED
    BY <2>1, <2>2
<1> QED
  BY <1>2, <1>3, <1>5 DEF RevealedIsCommitted

(* What the five ways to reveal a rule have in common.                     *)
LEMMA RegisterCommits ==
    ASSUME NEW id \in Ids, NEW r \in Rules, NEW p, Register(id, r, p)
    PROVE  /\ entries[id] = {} /\ id \in DOMAIN markets
           /\ markets[id].hash \in HashesOf(r)
           /\ StoreRule(id, r) /\ UNCHANGED <<markets, printed>>
BY DEF Register, MayRegister, MayRegisterScaled, MayRegisterTwap,
       MayRegisterCommittee, MayReveal, Unconfigured, Matches, HashesOf

LEMMA EnvelopeCommits ==
    ASSUME NEW spec \in Envelopes, NEW id \in Ids, NEW ms,
           MayRegisterV2(ms, id, spec)
    PROVE  /\ entries[id] = {} /\ id \in DOMAIN ms
           /\ ms[id].hash \in HashesOf(spec.rule)
           /\ spec.rule \in RuleType
BY DEF MayRegisterV2, EnvelopeOk, MayReveal, Unconfigured, Matches, HashesOf,
       RuleType

(* A market made by a compound flow has its rule.                          *)
RevealedFlows ==
    \A id \in DOMAIN markets :
        markets[id].by \in {"router", "treasury"} => entries[id] # {}

LEMMA RevealStep ==
    ASSUME CommitInv, RevealedFlows,
           NEW id \in Ids, NEW rule \in RuleType,
           entries[id] = {}, id \in DOMAIN markets,
           markets[id].hash \in HashesOf(rule),
           StoreRule(id, rule), UNCHANGED <<markets, printed>>
    PROVE  CommitInv' /\ RevealedFlows'
<1>1. /\ \A i \in DOMAIN markets :
             i \in DOMAIN markets' /\ markets'[i] = markets[i]
      /\ id \in DOMAIN markets' /\ markets'[id].hash \in HashesOf(rule)
  OBVIOUS
<1>2. /\ entries' \in [Ids -> SUBSET RuleType] /\ DOMAIN rstate' = Ids
      /\ RevealedIsCommitted'
      /\ entries'[id] # {}
      /\ \A i \in Ids : i # id => entries'[i] = entries[i]
  BY <1>1, Revealed
<1>3. CommitType'
  BY <1>2 DEF CommitInv, CommitType
<1>4. DOMAIN markets \subseteq Ids
  BY CommitmentAssumption DEF CommitInv, CommitType, Ids
<1> QED
  BY <1>2, <1>3, <1>4 DEF CommitInv, RevealedFlows

LEMMA CreateStep ==
    ASSUME CommitInv, RevealedFlows, NEW hash \in HashType, CreateMarket(hash)
    PROVE  CommitInv' /\ RevealedFlows'
<1>1. /\ Len(markets) < MaxMarkets
      /\ markets' = Created(hash, "create_market")
      /\ UNCHANGED <<entries, rstate, printed>> /\ CommitType
  BY DEF CreateMarket, CommitInv
<1>2. /\ markets' \in Seq(MarketType) /\ Len(markets') <= MaxMarkets
      /\ DOMAIN markets = 1 .. Len(markets)
      /\ DOMAIN markets' = 1 .. Len(markets) + 1
      /\ Len(markets) \in Nat
      /\ \A i \in DOMAIN markets : markets'[i] = markets[i]
      /\ markets'[Len(markets) + 1] = [hash |-> hash, by |-> "create_market"]
  BY <1>1, CreatedMarket
<1>3. CommitType'
  BY <1>1, <1>2 DEF CommitType
<1>4. \A i \in DOMAIN markets : i \in DOMAIN markets'
  BY <1>2
<1>5. RevealedIsCommitted'
  BY <1>1, <1>2, <1>4 DEF CommitInv, RevealedIsCommitted
<1>6. ASSUME NEW i \in DOMAIN markets', markets'[i].by \in {"router", "treasury"}
      PROVE  entries'[i] # {}
  <2>1. i # Len(markets) + 1
    BY <1>2, <1>6
  <2>2. i \in DOMAIN markets
    BY <1>2, <2>1
  <2> QED
    BY <1>1, <1>2, <1>6, <2>2 DEF RevealedFlows
<1> QED
  BY <1>3, <1>5, <1>6 DEF CommitInv, RevealedFlows

LEMMA CreateAndRevealStep ==
    ASSUME CommitInv, RevealedFlows, NEW spec \in Envelopes,
           NEW by \in {"router", "treasury"}, CreateAndReveal(spec, by)
    PROVE  CommitInv' /\ RevealedFlows'
<1> DEFINE id == Len(markets) + 1
           hash == SpecV2Hash(spec)
<1>1. /\ id <= MaxMarkets /\ markets' = Created(hash, by)
      /\ MayRegisterV2(markets', id, spec)
      /\ StoreRule(id, spec.rule) /\ UNCHANGED printed /\ CommitType
  BY DEF CreateAndReveal, CommitInv
<1>2. hash \in HashType /\ by \in {"create_market", "router", "treasury"}
  BY DEF HashType
<1>3. Len(markets) < MaxMarkets
  BY <1>1, CommitmentAssumption DEF CommitType
<1> HIDE DEF hash
<1>4. /\ markets' \in Seq(MarketType) /\ Len(markets') <= MaxMarkets
      /\ DOMAIN markets = 1 .. Len(markets)
      /\ DOMAIN markets' = 1 .. id
      /\ Len(markets) \in Nat /\ id \in Ids
      /\ \A i \in DOMAIN markets : markets'[i] = markets[i]
  BY <1>1, <1>2, <1>3, CreatedMarket
<1>5. /\ entries[id] = {} /\ id \in DOMAIN markets'
      /\ markets'[id].hash \in HashesOf(spec.rule)
      /\ spec.rule \in RuleType
  BY <1>1, <1>4, EnvelopeCommits
<1>6. \A i \in DOMAIN markets :
          i \in DOMAIN markets' /\ markets'[i] = markets[i]
  BY <1>4
<1>7. /\ entries' \in [Ids -> SUBSET RuleType] /\ DOMAIN rstate' = Ids
      /\ RevealedIsCommitted'
      /\ entries'[id] # {}
      /\ \A i \in Ids : i # id => entries'[i] = entries[i]
  BY <1>1, <1>4, <1>5, <1>6, Revealed
<1>8. CommitType'
  BY <1>1, <1>4, <1>7 DEF CommitType
<1>9. ASSUME NEW i \in DOMAIN markets', markets'[i].by \in {"router", "treasury"}
      PROVE  entries'[i] # {}
  <2>1. CASE i = id
    BY <1>7, <2>1
  <2>2. CASE i # id
    <3>1. i \in DOMAIN markets /\ i \in Ids
      BY <1>4, <2>2, CommitmentAssumption DEF Ids
    <3> QED
      BY <1>4, <1>7, <1>9, <2>2, <3>1 DEF RevealedFlows
  <2> QED
    BY <2>1, <2>2
<1> QED
  BY <1>7, <1>8, <1>9 DEF CommitInv, RevealedFlows

(* A step that reveals nothing and creates nothing.                        *)
LEMMA CommitQuiet ==
    ASSUME CommitInv, RevealedFlows, UNCHANGED <<markets, entries>>,
           DOMAIN rstate' = DOMAIN rstate,
           printed' \in SUBSET [command : Commands, hash : HashType]
    PROVE  CommitInv' /\ RevealedFlows'
BY DEF CommitInv, CommitType, RevealedIsCommitted, RevealedFlows

LEMMA CommitStep ==
    ASSUME CommitInv, RevealedFlows, CommitNext
    PROVE  CommitInv' /\ RevealedFlows'
<1>1. ASSUME NEW c \in Commands, PrintHash(c)
      PROVE  CommitInv' /\ RevealedFlows'
  <2>1. RunTool(c.args).hash \in HashType
    BY <1>1 DEF PrintHash, HashType
  <2>2. printed' \in SUBSET [command : Commands, hash : HashType]
    BY <1>1, <2>1 DEF PrintHash, CommitInv, CommitType
  <2> QED
    BY <1>1, <2>2, CommitQuiet DEF PrintHash
<1>2. ASSUME NEW h \in {p.hash : p \in printed} \cup {Placeholder},
             CreateMarket(h)
      PROVE  CommitInv' /\ RevealedFlows'
  <2>1. h \in HashType
    BY DEF CommitInv, CommitType, HashType
  <2> QED
    BY <1>2, <2>1, CreateStep
<1>3. ASSUME NEW id \in Ids, NEW r \in Rules, NEW p \in Periods,
             Register(id, r, p)
      PROVE  CommitInv' /\ RevealedFlows'
  <2>1. r \in RuleType
    BY DEF RuleType
  <2>2. /\ entries[id] = {} /\ id \in DOMAIN markets
        /\ markets[id].hash \in HashesOf(r)
        /\ StoreRule(id, r) /\ UNCHANGED <<markets, printed>>
    BY <1>3, RegisterCommits
  <2> QED
    BY <2>1, <2>2, RevealStep
<1>4. ASSUME NEW id \in Ids, NEW spec \in Envelopes, RegisterSpecV2(id, spec)
      PROVE  CommitInv' /\ RevealedFlows'
  <2>1. /\ entries[id] = {} /\ id \in DOMAIN markets
        /\ markets[id].hash \in HashesOf(spec.rule)
        /\ spec.rule \in RuleType
    BY <1>4, EnvelopeCommits DEF RegisterSpecV2
  <2> QED
    BY <1>4, <2>1, RevealStep DEF RegisterSpecV2
<1>5. ASSUME NEW id \in Ids, NEW spec \in Envelopes, RouterReveal(id, spec)
      PROVE  CommitInv' /\ RevealedFlows'
  BY <1>4, <1>5 DEF RouterReveal
<1>6. ASSUME NEW spec \in Envelopes, RouterCreate(spec)
      PROVE  CommitInv' /\ RevealedFlows'
  BY <1>6, CreateAndRevealStep DEF RouterCreate
<1>7. ASSUME NEW spec \in Envelopes, AgentCreateMarketAndReveal(spec)
      PROVE  CommitInv' /\ RevealedFlows'
  BY <1>7, CreateAndRevealStep DEF AgentCreateMarketAndReveal
<1>8. ASSUME NEW c \in Committees, CreateCommittee(c) \/ RotateCommittee(c)
      PROVE  CommitInv' /\ RevealedFlows'
  <2>1. UNCHANGED <<markets, entries, rstate, printed>>
    BY <1>8 DEF CreateCommittee, RotateCommittee
  <2>2. printed' \in SUBSET [command : Commands, hash : HashType]
    BY <2>1 DEF CommitInv, CommitType
  <2> QED
    BY <2>1, <2>2, CommitQuiet
<1>9. ASSUME NEW id \in Ids, NEW s \in {"Finalized", "Expired"}, Settle(id, s)
      PROVE  CommitInv' /\ RevealedFlows'
  <2>1. UNCHANGED <<markets, entries, printed>> /\ DOMAIN rstate' = DOMAIN rstate
    BY <1>9 DEF Settle
  <2>2. printed' \in SUBSET [command : Commands, hash : HashType]
    BY <2>1 DEF CommitInv, CommitType
  <2> QED
    BY <2>1, <2>2, CommitQuiet
<1> QED
  BY <1>1, <1>2, <1>3, <1>4, <1>5, <1>6, <1>7, <1>8, <1>9 DEF CommitNext

-----------------------------------------------------------------------------
(* Publishing.                                                             *)

(* A step that published one more trace, by a with the link.               *)
Grown(a, link) ==
    /\ traces' \in Seq(TraceType) /\ Len(traces') <= MaxTraces
    /\ Len(traces) \in Nat
    /\ DOMAIN traces = 1 .. Len(traces)
    /\ DOMAIN traces' = 1 .. Len(traces) + 1
    /\ \A i \in DOMAIN traces : traces'[i] = traces[i]
    /\ traces'[Len(traces) + 1].agent = a
    /\ traces'[Len(traces) + 1].link = link

(* What is published with these arguments.                                 *)
PublishArgs(a, m, act, h, link) ==
    /\ a \in Agents /\ m \in References /\ act \in Actions /\ h \in Hashes
    /\ link \in [seq : Nat, prev : AnyHash]

SigType == {Nobody} \cup [key : Keys, msg : [agent : Agents, market : References,
                                             action : Actions, hash : Hashes]]

LEMMA Written ==
    ASSUME RegistryType, NEW a, NEW m, NEW act, NEW h, NEW link,
           NEW sig \in SigType,
           PublishArgs(a, m, act, h, link), WriteTrace(a, m, act, h, link, sig)
    PROVE  /\ Grown(a, link)
           /\ traces'[Len(traces) + 1] =
                  [market |-> m, agent |-> a, action |-> act, hash |-> h,
                   at |-> clock, link |-> link, sig |-> sig]
<1> DEFINE t == [market |-> m, agent |-> a, action |-> act, hash |-> h,
                 at |-> clock, link |-> link, sig |-> sig]
<1>1. t \in TraceType
  BY DEF TraceType, PublishArgs, SigType, RegistryType
<1>2. t.agent = a /\ t.link = link
  OBVIOUS
<1>3. /\ traces' = Append(traces, t) /\ Len(traces) + 1 <= MaxTraces
      /\ traces \in Seq(TraceType)
  BY DEF WriteTrace, RegistryType
<1> HIDE DEF t
<1>4. /\ traces' \in Seq(TraceType) /\ Len(traces') = Len(traces) + 1
      /\ Len(traces) \in Nat /\ DOMAIN traces = 1 .. Len(traces)
      /\ DOMAIN traces' = 1 .. Len(traces) + 1
      /\ \A i \in DOMAIN traces : traces'[i] = traces[i]
      /\ traces'[Len(traces) + 1] = t
  BY <1>1, <1>3
<1> QED
  BY <1>2, <1>3, <1>4 DEF Grown, t

LEMMA IndexStep ==
    ASSUME RegistryType, IndexesAreComplete,
           NEW a, NEW m, NEW act, NEW h, NEW link, NEW sig \in SigType,
           PublishArgs(a, m, act, h, link), WriteTrace(a, m, act, h, link, sig)
    PROVE  IndexesAreComplete'
<1> DEFINE n == Len(traces)
<1>1. /\ n \in Nat /\ DOMAIN traces = 1 .. n /\ DOMAIN traces' = 1 .. n + 1
      /\ \A i \in 1 .. n : traces'[i] = traces[i]
      /\ traces'[n + 1].market = m /\ traces'[n + 1].agent = a
      /\ traces'[n + 1].action = act
  <2>1. /\ Grown(a, link)
        /\ traces'[Len(traces) + 1] =
               [market |-> m, agent |-> a, action |-> act, hash |-> h,
                at |-> clock, link |-> link, sig |-> sig]
    BY Written
  <2> QED
    BY <2>1 DEF Grown
<1>2. /\ byMarket' = Indexed(byMarket, m, n + 1)
      /\ byAgent' = Indexed(byAgent, a, n + 1)
      /\ byAction' = Indexed(byAction, <<m, act>>, n + 1)
  BY DEF WriteTrace
<1> HIDE DEF n
<1>3. n + 1 \in 1 .. n + 1 /\ 1 .. n \subseteq 1 .. n + 1
  BY <1>1
<1>4. Indexes(byMarket', MarketOf')
  <2>1. /\ DOMAIN MarketOf = 1 .. n /\ DOMAIN MarketOf' = 1 .. n + 1
        /\ MarketOf'[n + 1] = m
        /\ \A i \in 1 .. n : MarketOf'[i] = MarketOf[i]
    BY <1>1, <1>3 DEF MarketOf
  <2>2. Indexes(byMarket, MarketOf)
    BY DEF IndexesAreComplete
  <2> QED
    BY <1>1, <1>2, <2>1, <2>2, IndexGrows
<1>5. Indexes(byAgent', AgentOf')
  <2>1. /\ DOMAIN AgentOf = 1 .. n /\ DOMAIN AgentOf' = 1 .. n + 1
        /\ AgentOf'[n + 1] = a
        /\ \A i \in 1 .. n : AgentOf'[i] = AgentOf[i]
    BY <1>1, <1>3 DEF AgentOf
  <2>2. Indexes(byAgent, AgentOf)
    BY DEF IndexesAreComplete
  <2> QED
    BY <1>1, <1>2, <2>1, <2>2, IndexGrows
<1>6. Indexes(byAction', ActionOf')
  <2>1. /\ DOMAIN ActionOf = 1 .. n /\ DOMAIN ActionOf' = 1 .. n + 1
        /\ ActionOf'[n + 1] = <<m, act>>
        /\ \A i \in 1 .. n : ActionOf'[i] = ActionOf[i]
    BY <1>1, <1>3 DEF ActionOf
  <2>2. Indexes(byAction, ActionOf)
    BY DEF IndexesAreComplete
  <2> QED
    BY <1>1, <1>2, <2>1, <2>2, IndexGrows
<1> QED
  BY <1>4, <1>5, <1>6 DEF IndexesAreComplete

(* What the new trace adds to the traces and the chain of each agent.      *)
LEMMA SetsGrow ==
    ASSUME RegistryType, NEW a, NEW link, Grown(a, link), NEW b
    PROVE  /\ OfAgent(b)' = IF b = a THEN OfAgent(b) \cup {Len(traces) + 1}
                            ELSE OfAgent(b)
           /\ InChain(b)' = IF b = a /\ link.seq > 0
                            THEN InChain(b) \cup {Len(traces) + 1}
                            ELSE InChain(b)
           /\ InChain(b) \subseteq DOMAIN traces
           /\ \A i \in OfAgent(b) : i < Len(traces) + 1
<1> DEFINE n == Len(traces)
<1>1. /\ n \in Nat /\ DOMAIN traces = 1 .. n /\ DOMAIN traces' = 1 .. n + 1
      /\ \A i \in 1 .. n : traces'[i] = traces[i]
      /\ traces'[n + 1].agent = a /\ traces'[n + 1].link = link
  BY DEF Grown
<1> HIDE DEF n
<1>2. /\ \A i \in 1 .. n + 1 : i \in 1 .. n \/ i = n + 1
      /\ n + 1 \notin 1 .. n /\ 1 .. n \subseteq 1 .. n + 1
      /\ n + 1 \in 1 .. n + 1
  BY <1>1
<1>3. OfAgent(b)' = IF b = a THEN OfAgent(b) \cup {n + 1} ELSE OfAgent(b)
  BY <1>1, <1>2 DEF OfAgent
<1>4. InChain(b)' = IF b = a /\ link.seq > 0 THEN InChain(b) \cup {n + 1}
                    ELSE InChain(b)
  BY <1>1, <1>2, <1>3 DEF InChain, OfAgent
<1>5. InChain(b) \subseteq DOMAIN traces /\ \A i \in OfAgent(b) : i < n + 1
  BY <1>1 DEF InChain, OfAgent
<1> QED
  BY <1>3, <1>4, <1>5 DEF n

(* The agents whose chain a publication does not extend: everybody but the *)
(* publisher, and the publisher while it keeps no chain.                   *)
LEMMA ChainStays ==
    ASSUME RegistryType, NEW a, NEW link, Grown(a, link),
           NEW b \in Agents, ChainInv(b),
           b = a => link.seq = 0 /\ heads[b].seq = 0,
           chain'[b] = chain[b], heads'[b] = heads[b]
    PROVE  ChainInv(b)'
<1> DEFINE c == chain[b]
           n == Len(traces)
<1>1. /\ c \in Seq(Nat) /\ DOMAIN c = 1 .. Len(c) /\ Len(c) \in Nat
      /\ heads[b].seq \in Nat /\ Len(c) = heads[b].seq
  BY DEF RegistryType, ChainInv
<1>2. /\ InChain(b)' = InChain(b)
      /\ b # a => OfAgent(b)' = OfAgent(b)
      /\ InChain(b) \subseteq DOMAIN traces
      /\ \A i \in DOMAIN traces : traces'[i] = traces[i]
  BY SetsGrow DEF Grown
<1>3. \A s \in DOMAIN c : c[s] \in DOMAIN traces
  BY <1>2 DEF ChainInv, Lists
<1> HIDE DEF c
<1>4. \A s \in DOMAIN c : s # 1 => s - 1 \in DOMAIN c
  BY <1>1
<1>5. heads[b].seq # 0 => heads[b].seq \in DOMAIN c /\ 1 \in DOMAIN c
  BY <1>1
<1>6. Lists(c, InChain(b)')
  BY <1>2 DEF ChainInv, c
<1>7. \A s \in DOMAIN c :
          traces'[c[s]].link =
              [seq |-> s, prev |-> IF s = 1 THEN Genesis
                                   ELSE traces'[c[s - 1]].hash]
  BY <1>2, <1>3, <1>4 DEF ChainInv, c
<1>8. IF heads[b].seq = 0 THEN heads[b].hash = Genesis
      ELSE /\ heads[b].id = c[heads[b].seq]
           /\ heads[b].hash = traces'[heads[b].id].hash
  BY <1>2, <1>3, <1>5 DEF ChainInv, c
<1>9. ASSUME NEW i \in OfAgent(b)', heads[b].seq > 0, i >= c[1]
      PROVE  i \in InChain(b)'
  BY <1>1, <1>2, <1>9 DEF ChainInv, c
<1>10. chain'[b] = c
  BY DEF c
<1> QED
  BY <1>1, <1>6, <1>7, <1>8, <1>9, <1>10 DEF ChainInv

(* The new trace extends the chain of its agent at the head it named.      *)
LEMMA ChainExtends ==
    ASSUME RegistryType, NEW a \in Agents, NEW h \in Hashes,
           NEW seq \in Nat, NEW prev,
           Grown(a, [seq |-> seq, prev |-> prev]),
           traces'[Len(traces) + 1].hash = h,
           ChainInv(a), ExtendsHead(a, seq, prev),
           chain' = [chain EXCEPT ![a] = Append(@, Len(traces) + 1)],
           heads' = [heads EXCEPT ![a] = [seq |-> seq, hash |-> h,
                                          id |-> Len(traces) + 1]]
    PROVE  ChainInv(a)'
<1> DEFINE c == chain[a]
           n == Len(traces)
           d == Append(c, n + 1)
<1>1. /\ c \in Seq(Nat) /\ DOMAIN c = 1 .. Len(c) /\ Len(c) \in Nat
      /\ Len(c) = heads[a].seq /\ seq = Len(c) + 1 /\ n \in Nat
  BY DEF RegistryType, ChainInv, ExtendsHead, Grown
<1>2. /\ chain'[a] = d /\ heads'[a].seq = seq /\ heads'[a].hash = h
      /\ heads'[a].id = n + 1
  BY DEF RegistryType
<1>3. /\ InChain(a)' = InChain(a) \cup {n + 1}
      /\ OfAgent(a)' = OfAgent(a) \cup {n + 1}
      /\ InChain(a) \subseteq DOMAIN traces
      /\ \A i \in OfAgent(a) : i < n + 1
      /\ \A i \in InChain(a) : i < n + 1
  <2>1. seq > 0
    BY <1>1
  <2> QED
    BY <2>1, SetsGrow DEF InChain
<1>4. /\ DOMAIN traces = 1 .. n
      /\ \A i \in DOMAIN traces : traces'[i] = traces[i]
      /\ traces'[n + 1].link = [seq |-> seq, prev |-> prev]
      /\ traces'[n + 1].hash = h
  BY DEF Grown
<1>5. \A s \in DOMAIN c : c[s] \in DOMAIN traces
  BY <1>3 DEF ChainInv, Lists
<1>6. /\ d \in Seq(Nat) /\ Len(d) = Len(c) + 1 /\ DOMAIN d = 1 .. Len(c) + 1
      /\ d[Len(c) + 1] = n + 1 /\ \A s \in DOMAIN c : d[s] = c[s]
  BY <1>1
<1>7. Lists(d, InChain(a)')
  <2>1. Lists(c, InChain(a)) /\ n + 1 \in Nat
    BY <1>1 DEF ChainInv
  <2> QED
    BY <1>1, <1>3, <2>1, ListsAppend
<1>7a. \A s \in DOMAIN c :
          traces[c[s]].link = [seq |-> s, prev |-> IF s = 1 THEN Genesis
                                                   ELSE traces[c[s - 1]].hash]
  BY DEF ChainInv
<1> HIDE DEF c, d
<1>8. ASSUME NEW s \in DOMAIN d
      PROVE  traces'[d[s]].link =
                 [seq |-> s, prev |-> IF s = 1 THEN Genesis
                                      ELSE traces'[d[s - 1]].hash]
  <2>1. CASE s \in DOMAIN c
    <3>1. s # 1 => s - 1 \in DOMAIN c
      BY <1>1, <2>1
    <3> QED
      BY <1>4, <1>5, <1>6, <1>7a, <2>1, <3>1
  <2>2. CASE s = Len(c) + 1
    <3>1. traces'[d[s]].link = [seq |-> s, prev |-> prev]
      BY <1>1, <1>4, <1>6, <2>2
    <3>2. CASE s = 1
      <4>1. heads[a].seq = 0
        BY <1>1, <2>2, <3>2
      <4>2. prev = Genesis
        BY <4>1 DEF ChainInv, ExtendsHead
      <4> QED
        BY <3>1, <3>2, <4>2
    <3>3. CASE s # 1
      <4>1. s - 1 \in DOMAIN c /\ s - 1 = heads[a].seq /\ heads[a].seq # 0
        BY <1>1, <2>2, <3>3
      <4>2. prev = traces[c[s - 1]].hash
        BY <4>1 DEF ChainInv, ExtendsHead, c
      <4>3. traces'[d[s - 1]].hash = traces[c[s - 1]].hash
        BY <1>4, <1>5, <1>6, <4>1
      <4> QED
        BY <3>1, <3>3, <4>2, <4>3
    <3> QED
      BY <3>2, <3>3
  <2> QED
    BY <1>1, <1>6, <2>1, <2>2
<1>9. seq # 0 /\ n + 1 = d[seq] /\ h = traces'[n + 1].hash
  BY <1>1, <1>4, <1>6
<1>10. ASSUME NEW i \in OfAgent(a)', i >= d[1] PROVE i \in InChain(a)'
  <2>1. CASE i = n + 1
    BY <1>3, <2>1
  <2>2. CASE i # n + 1
    <3>1. i \in OfAgent(a) /\ i < n + 1 /\ i \in DOMAIN traces /\ i \in Nat
      BY <1>3, <1>4, <2>2 DEF OfAgent
    <3>2. Len(c) # 0
      BY <1>1, <1>6, <1>10, <3>1
    <3>3. 1 \in DOMAIN c /\ heads[a].seq > 0 /\ d[1] = c[1]
      <4>1. Len(c) > 0
        BY <1>1, <3>2
      <4>2. 1 \in DOMAIN c
        BY <1>1, <4>1
      <4> QED
        BY <1>1, <1>6, <4>1, <4>2
    <3>4. i >= c[1]
      BY <1>10, <3>3
    <3>5. i \in InChain(a)
      BY <3>1, <3>3, <3>4 DEF ChainInv, c
    <3> QED
      BY <1>3, <3>5
  <2> QED
    BY <2>1, <2>2
<1>11. /\ Len(chain'[a]) = heads'[a].seq
       /\ Lists(chain'[a], InChain(a)')
       /\ \A i \in OfAgent(a)' : i >= chain'[a][1] => i \in InChain(a)'
  BY <1>1, <1>2, <1>6, <1>7, <1>10
<1>12. /\ heads'[a].seq # 0
       /\ heads'[a].id = chain'[a][heads'[a].seq]
       /\ heads'[a].hash = traces'[heads'[a].id].hash
  BY <1>2, <1>9
<1>13. \A s \in DOMAIN chain'[a] :
           traces'[chain'[a][s]].link =
               [seq |-> s, prev |-> IF s = 1 THEN Genesis
                                    ELSE traces'[chain'[a][s - 1]].hash]
  BY <1>2, <1>8
<1> QED
  BY <1>11, <1>12, <1>13 DEF ChainInv

(* How publishing treats the chain of the publisher.                       *)
OffChain(a, link) == link = Unlinked /\ heads[a].seq = 0 /\ UNCHANGED <<heads, chain>>

OnChain(a, h, link) ==
    /\ ExtendsHead(a, link.seq, link.prev)
    /\ link = [seq |-> link.seq, prev |-> link.prev]
    /\ chain' = [chain EXCEPT ![a] = Append(@, Len(traces) + 1)]
    /\ heads' = [heads EXCEPT ![a] = [seq |-> link.seq, hash |-> h,
                                      id |-> Len(traces) + 1]]

(* The signature stored is one a key of the agent made over these fields.  *)
SignedOrNot(a, m, act, h, sig) ==
    sig = Nobody \/ \E key \in keys[a] : sig = SignedBy(key, a, m, act, h)

LEMMA ChainStep ==
    ASSUME RegistryInv, NEW a, NEW m, NEW act, NEW h, NEW link,
           PublishArgs(a, m, act, h, link), Grown(a, link),
           traces'[Len(traces) + 1].hash = h,
           OffChain(a, link) \/ OnChain(a, h, link)
    PROVE  /\ \A b \in Agents : ChainInv(b)'
           /\ heads' \in [Agents -> [seq : Nat, hash : AnyHash, id : Nat]]
           /\ chain' \in [Agents -> Seq(Nat)]
<1>1. /\ RegistryType /\ \A b \in Agents : ChainInv(b)
      /\ a \in Agents /\ h \in Hashes /\ link \in [seq : Nat, prev : AnyHash]
  BY DEF RegistryInv, PublishArgs
<1>2. /\ heads \in [Agents -> [seq : Nat, hash : AnyHash, id : Nat]]
      /\ chain \in [Agents -> Seq(Nat)]
      /\ Len(traces) + 1 \in Nat
  BY <1>1 DEF RegistryType, Grown
<1>3. CASE OffChain(a, link)
  <2>1. link.seq = 0 /\ heads[a].seq = 0 /\ chain' = chain /\ heads' = heads
    BY <1>3 DEF OffChain, Unlinked
  <2>2. ASSUME NEW b \in Agents PROVE ChainInv(b)'
    BY <1>1, <2>1, ChainStays
  <2> QED
    BY <1>2, <2>1, <2>2
<1>4. CASE OnChain(a, h, link)
  <2>1. /\ link.seq \in Nat /\ ExtendsHead(a, link.seq, link.prev)
        /\ link = [seq |-> link.seq, prev |-> link.prev]
        /\ chain' = [chain EXCEPT ![a] = Append(@, Len(traces) + 1)]
        /\ heads' = [heads EXCEPT ![a] = [seq |-> link.seq, hash |-> h,
                                          id |-> Len(traces) + 1]]
    BY <1>1, <1>4 DEF OnChain
  <2>2. Grown(a, [seq |-> link.seq, prev |-> link.prev])
    BY <2>1
  <2>3. ChainInv(a)'
    BY <1>1, <2>1, <2>2, ChainExtends
  <2>4. ASSUME NEW b \in Agents, b # a PROVE ChainInv(b)'
    <3>1. chain'[b] = chain[b] /\ heads'[b] = heads[b]
      BY <1>2, <2>1, <2>4
    <3> QED
      BY <1>1, <2>4, <3>1, ChainStays
  <2>5. [seq |-> link.seq, hash |-> h, id |-> Len(traces) + 1]
            \in [seq : Nat, hash : AnyHash, id : Nat]
    BY <1>1, <1>2, <2>1 DEF AnyHash
  <2>6. heads' \in [Agents -> [seq : Nat, hash : AnyHash, id : Nat]]
    BY <1>1, <1>2, <2>1, <2>5
  <2>7. Append(chain[a], Len(traces) + 1) \in Seq(Nat)
    BY <1>1, <1>2
  <2>8. chain' \in [Agents -> Seq(Nat)]
    BY <1>1, <1>2, <2>1, <2>7
  <2> QED
    BY <2>3, <2>4, <2>6, <2>8
<1> QED
  BY <1>3, <1>4

LEMMA PublishStep ==
    ASSUME RegistryInv, NEW a, NEW m, NEW act, NEW h, NEW link,
           NEW sig \in SigType,
           PublishArgs(a, m, act, h, link),
           WriteTrace(a, m, act, h, link, sig),
           OffChain(a, link) \/ OnChain(a, h, link),
           SignedOrNot(a, m, act, h, sig), UNCHANGED <<clock, keyring>>
    PROVE  RegistryInv'
<1>1. /\ RegistryType /\ IndexesAreComplete
      /\ \A b \in Agents : ChainInv(b) /\ KeyInv(b)
      /\ \A i \in DOMAIN traces : traces[i].sig # Nobody => VerifyTraceSignature(i)
  BY DEF RegistryInv
<1>2. /\ Grown(a, link)
      /\ traces'[Len(traces) + 1] =
             [market |-> m, agent |-> a, action |-> act, hash |-> h,
              at |-> clock, link |-> link, sig |-> sig]
  BY <1>1, Written
<1>3. IndexesAreComplete'
  BY <1>1, IndexStep
<1>4. /\ \A b \in Agents : ChainInv(b)'
      /\ heads' \in [Agents -> [seq : Nat, hash : AnyHash, id : Nat]]
      /\ chain' \in [Agents -> Seq(Nat)]
  BY <1>2, ChainStep
<1>5. UNCHANGED <<clock, keys, bound, history>>
  BY DEF keyring
<1>6. RegistryType'
  BY <1>1, <1>2, <1>4, <1>5 DEF RegistryType, Grown
<1>7. \A b \in Agents : KeyInv(b)'
  BY <1>1, <1>5 DEF KeyInv
<1>8. ASSUME NEW i \in DOMAIN traces', traces'[i].sig # Nobody
      PROVE  VerifyTraceSignature(i)'
  <2>1. CASE i \in DOMAIN traces
    BY <1>1, <1>2, <1>5, <1>8, <2>1
       DEF Grown, VerifyTraceSignature, GetTraceSignature, GetKeyAgent,
           TraceAttestationMessage
  <2>2. CASE i = Len(traces) + 1
    <3>1. PICK key \in keys[a] : sig = SignedBy(key, a, m, act, h)
      BY <1>2, <1>8, <2>2 DEF SignedOrNot
    <3>2. bound[key] = a
      BY <1>1, <3>1 DEF KeyInv, PublishArgs
    <3>3. sig.key = key /\ sig.msg = TraceAttestationMessage(a, m, act, h)
      BY <3>1 DEF SignedBy
    <3> QED
      BY <1>2, <1>5, <2>2, <3>2, <3>3
         DEF VerifyTraceSignature, GetTraceSignature, GetKeyAgent,
             TraceAttestationMessage
  <2> QED
    BY <1>2, <2>1, <2>2 DEF Grown
<1> QED
  BY <1>3, <1>4, <1>6, <1>7, <1>8 DEF RegistryInv

(* A step that touches neither the traces nor the keys.                    *)
LEMMA RegistryQuiet ==
    ASSUME RegistryInv, UNCHANGED <<published, keyring>>, clock' \in 0 .. MaxNow
    PROVE  RegistryInv'
<1>1. UNCHANGED <<traces, heads, chain, byMarket, byAgent, byAction, keys,
                  bound, history>>
  BY DEF published, keyring
<1>2. RegistryType'
  BY <1>1 DEF RegistryInv, RegistryType
<1>3. IndexesAreComplete'
  BY <1>1 DEF RegistryInv, IndexesAreComplete, MarketOf, AgentOf, ActionOf
<1>4. \A a \in Agents : ChainInv(a)' /\ KeyInv(a)'
  <2> SUFFICES ASSUME NEW a \in Agents PROVE ChainInv(a)' /\ KeyInv(a)'
    OBVIOUS
  <2>1. OfAgent(a)' = OfAgent(a) /\ InChain(a)' = InChain(a)
    BY <1>1 DEF InChain, OfAgent
  <2>2. ChainInv(a)'
    BY <1>1, <2>1 DEF RegistryInv, ChainInv
  <2>3. KeyInv(a)'
    BY <1>1 DEF RegistryInv, KeyInv
  <2> QED
    BY <2>2, <2>3
<1>5. \A i \in DOMAIN traces' :
          traces'[i].sig # Nobody => VerifyTraceSignature(i)'
  BY <1>1 DEF RegistryInv, VerifyTraceSignature, GetTraceSignature,
              GetKeyAgent, TraceAttestationMessage
<1> QED
  BY <1>2, <1>3, <1>4, <1>5 DEF RegistryInv

-----------------------------------------------------------------------------
(* Signing keys.                                                           *)

(* The traces and their indexes when only keys move: what is left to show  *)
(* is about the keys.                                                      *)
LEMMA KeyStep ==
    ASSUME RegistryInv, UNCHANGED <<clock, published>>,
           keys' \in [Agents -> SUBSET Keys],
           bound' \in [Keys -> Agents \cup {Nobody}],
           history' \in [Agents -> Seq(KeyRecord)],
           \A a \in Agents : KeyInv(a)',
           \A k \in Keys : bound[k] # Nobody => bound'[k] = bound[k]
    PROVE  RegistryInv'
<1>1. UNCHANGED <<clock, traces, heads, chain, byMarket, byAgent, byAction>>
  BY DEF published
<1>2. RegistryType'
  BY <1>1 DEF RegistryInv, RegistryType
<1>3. IndexesAreComplete'
  BY <1>1 DEF RegistryInv, IndexesAreComplete, MarketOf, AgentOf, ActionOf
<1>4. ASSUME NEW a \in Agents PROVE ChainInv(a)'
  <2>1. OfAgent(a)' = OfAgent(a) /\ InChain(a)' = InChain(a)
    BY <1>1 DEF InChain, OfAgent
  <2> QED
    BY <1>1, <2>1 DEF RegistryInv, ChainInv
<1>5. ASSUME NEW i \in DOMAIN traces', traces'[i].sig # Nobody
      PROVE  VerifyTraceSignature(i)'
  <2>1. VerifyTraceSignature(i) /\ traces[i] \in TraceType /\ traces[i].sig # Nobody
    BY <1>1, <1>5 DEF RegistryInv, RegistryType
  <2>2. traces[i].agent \in Agents /\ traces[i].sig.key \in Keys
    BY <2>1 DEF TraceType
  <2>3. bound[traces[i].sig.key] = traces[i].agent
    BY <2>1 DEF VerifyTraceSignature, GetTraceSignature, GetKeyAgent
  <2>4. bound'[traces[i].sig.key] = traces[i].agent
    BY <2>2, <2>3, RegistryAssumption
  <2> QED
    BY <1>1, <2>1, <2>4
       DEF VerifyTraceSignature, GetTraceSignature, GetKeyAgent,
           TraceAttestationMessage
<1> QED
  BY <1>2, <1>3, <1>4, <1>5 DEF RegistryInv

(* An agent whose keys are left alone.                                     *)
LEMMA KeyStays ==
    ASSUME NEW b \in Agents, KeyInv(b), keys'[b] = keys[b],
           history'[b] = history[b],
           \A i \in DOMAIN history[b] : bound'[history[b][i].key] = b
    PROVE  KeyInv(b)'
BY DEF KeyInv

LEMMA AddKeyStep ==
    ASSUME RegistryInv, NEW a \in Agents, NEW key \in Keys, AddSigningKey(a, key)
    PROVE  RegistryInv'
<1> DEFINE r == [key |-> key, added |-> clock, retired |-> Nobody]
           H == history[a]
<1>1. /\ keys \in [Agents -> SUBSET Keys]
      /\ bound \in [Keys -> Agents \cup {Nobody}]
      /\ history \in [Agents -> Seq(KeyRecord)] /\ clock \in 0 .. MaxNow
      /\ \A b \in Agents : KeyInv(b)
  BY DEF RegistryInv, RegistryType
<1>2. /\ bound[key] = Nobody
      /\ keys' = [keys EXCEPT ![a] = @ \cup {key}]
      /\ bound' = [bound EXCEPT ![key] = a]
      /\ history' = [history EXCEPT ![a] = Append(@, r)]
      /\ UNCHANGED <<clock, published>>
  BY DEF AddSigningKey
<1>3. r \in KeyRecord /\ r.key = key /\ r.retired = Nobody
  BY <1>1 DEF KeyRecord
<1> HIDE DEF r
<1>4. /\ H \in Seq(KeyRecord) /\ Append(H, r) \in Seq(KeyRecord)
      /\ DOMAIN H = 1 .. Len(H) /\ Len(H) \in Nat
      /\ DOMAIN Append(H, r) = 1 .. Len(H) + 1
      /\ Append(H, r)[Len(H) + 1] = r
      /\ \A i \in DOMAIN H : Append(H, r)[i] = H[i]
  BY <1>1, <1>3
<1>5. /\ keys' \in [Agents -> SUBSET Keys]
      /\ bound' \in [Keys -> Agents \cup {Nobody}]
      /\ history' \in [Agents -> Seq(KeyRecord)]
  BY <1>1, <1>2, <1>4
<1>6. /\ keys'[a] = keys[a] \cup {key} /\ history'[a] = Append(H, r)
      /\ bound'[key] = a
      /\ \A k \in Keys : k # key => bound'[k] = bound[k]
      /\ \A b \in Agents : b # a => keys'[b] = keys[b] /\ history'[b] = history[b]
  BY <1>1, <1>2
<1>7. ASSUME NEW b \in Agents, NEW i \in DOMAIN history[b]
      PROVE  /\ history[b][i].key \in Keys /\ history[b][i].key # key
             /\ bound'[history[b][i].key] = b
  <2>1. history[b][i] \in KeyRecord
    BY <1>1
  <2>2. history[b][i].key \in Keys /\ bound[history[b][i].key] = b
    BY <1>1, <2>1 DEF KeyRecord, KeyInv
  <2> QED
    BY <1>2, <1>6, <2>2, RegistryAssumption
<1>8. ASSUME NEW b \in Agents, b # a PROVE KeyInv(b)'
  BY <1>1, <1>6, <1>7, <1>8, KeyStays
<1>9. KeyInv(a)'
  <2> DEFINE G == history'[a]
             n == Len(H)
  <2>1. /\ DOMAIN G = 1 .. n + 1 /\ DOMAIN H = 1 .. n /\ n \in Nat
        /\ G[n + 1].key = key /\ G[n + 1].retired = Nobody
        /\ \A i \in DOMAIN H : G[i] = H[i]
    BY <1>3, <1>4, <1>6
  <2>2. \A i \in DOMAIN G : i \in DOMAIN H \/ i = n + 1
    BY <2>1
  <2>3. n + 1 \in DOMAIN G /\ DOMAIN H \subseteq DOMAIN G
    BY <2>1
  <2>4. \A i \in DOMAIN H : /\ H[i].key # key /\ bound'[H[i].key] = a
                            /\ H[i].retired = Nobody => H[i].key \in keys[a]
    BY <1>1, <1>7 DEF KeyInv
  <2>5. \A i, j \in DOMAIN H : H[i].key = H[j].key => i = j
    BY <1>1 DEF KeyInv
  <2>6. \A k \in keys[a] : \E i \in DOMAIN H : H[i].key = k /\ H[i].retired = Nobody
    BY <1>1 DEF KeyInv
  <2> HIDE DEF G, H, n
  <2>7. \A i, j \in DOMAIN G : G[i].key = G[j].key => i = j
    BY <2>1, <2>2, <2>4, <2>5
  <2>8. \A i \in DOMAIN G : /\ bound'[G[i].key] = a
                            /\ G[i].retired = Nobody => G[i].key \in keys'[a]
    BY <1>6, <2>1, <2>2, <2>4
  <2>9. ASSUME NEW k \in keys'[a]
        PROVE  \E i \in DOMAIN G : G[i].key = k /\ G[i].retired = Nobody
    <3>1. CASE k = key
      BY <2>1, <2>3, <3>1
    <3>2. CASE k \in keys[a]
      <4>1. PICK i \in DOMAIN H : H[i].key = k /\ H[i].retired = Nobody
        BY <2>6, <3>2
      <4> QED
        BY <2>1, <2>3, <4>1
    <3> QED
      BY <1>6, <3>1, <3>2
  <2> QED
    BY <2>7, <2>8, <2>9 DEF KeyInv, G
<1>10. \A k \in Keys : bound[k] # Nobody => bound'[k] = bound[k]
  BY <1>2, <1>6
<1>11. \A b \in Agents : KeyInv(b)'
  BY <1>8, <1>9
<1> QED
  BY <1>2, <1>5, <1>10, <1>11, KeyStep

LEMMA RetireKeyStep ==
    ASSUME RegistryInv, NEW a \in Agents, NEW key \in Keys,
           RetireSigningKey(a, key)
    PROVE  RegistryInv'
<1> DEFINE H == history[a]
           G == RetiredIn(H, key)
<1>1. /\ keys \in [Agents -> SUBSET Keys]
      /\ bound \in [Keys -> Agents \cup {Nobody}]
      /\ history \in [Agents -> Seq(KeyRecord)] /\ clock \in 0 .. MaxNow
      /\ \A b \in Agents : KeyInv(b)
  BY DEF RegistryInv, RegistryType
<1>2. /\ keys' = [keys EXCEPT ![a] = @ \ {key}]
      /\ history' = [history EXCEPT ![a] = G]
      /\ UNCHANGED <<clock, bound, published>>
  BY DEF RetireSigningKey
<1>3. H \in Seq(KeyRecord) /\ DOMAIN H = 1 .. Len(H) /\ Len(H) \in Nat
  BY <1>1
<1>4. DOMAIN G = DOMAIN H
  BY DEF RetiredIn
<1>5. ASSUME NEW i \in DOMAIN H
      PROVE  /\ G[i] \in KeyRecord /\ G[i].key = H[i].key
             /\ H[i].key # key => G[i] = H[i]
             /\ G[i].retired = Nobody =>
                    H[i].retired = Nobody /\ H[i].key # key
  <2>1. H[i] \in KeyRecord /\ <<clock>> # Nobody
    BY <1>1, <1>3, RegistryAssumption
  <2>2. CASE H[i].key = key /\ H[i].retired = Nobody
    <3>1. G[i] = [H[i] EXCEPT !.retired = <<clock>>]
      BY <2>2 DEF RetiredIn
    <3>2. /\ G[i] \in KeyRecord /\ G[i].key = H[i].key
          /\ G[i].retired = <<clock>>
      BY <1>1, <2>1, <3>1 DEF KeyRecord
    <3> QED
      BY <2>1, <2>2, <3>2
  <2>3. CASE ~(H[i].key = key /\ H[i].retired = Nobody)
    <3>1. G[i] = H[i]
      BY <2>3 DEF RetiredIn
    <3> QED
      BY <2>1, <2>3, <3>1
  <2> QED
    BY <2>2, <2>3
<1>6. G \in Seq(KeyRecord)
  <2>1. G = [i \in 1 .. Len(H) |-> G[i]]
    BY <1>3 DEF RetiredIn
  <2>2. \A i \in 1 .. Len(H) : G[i] \in KeyRecord
    BY <1>3, <1>5
  <2> HIDE DEF G
  <2>3. G \in [1 .. Len(H) -> KeyRecord]
    BY <2>1, <2>2
  <2> QED
    BY <1>3, <2>3, SeqDef
<1>7. /\ keys' \in [Agents -> SUBSET Keys]
      /\ history' \in [Agents -> Seq(KeyRecord)]
      /\ bound' \in [Keys -> Agents \cup {Nobody}]
  <2> HIDE DEF G
  <2> QED
    BY <1>1, <1>2, <1>6
<1>8. /\ keys'[a] = keys[a] \ {key} /\ history'[a] = G /\ bound' = bound
      /\ \A b \in Agents : b # a => keys'[b] = keys[b] /\ history'[b] = history[b]
  <2> HIDE DEF G
  <2> QED
    BY <1>1, <1>2
<1>9. ASSUME NEW b \in Agents, b # a PROVE KeyInv(b)'
  <2>1. KeyInv(b) /\ keys'[b] = keys[b] /\ history'[b] = history[b]
    BY <1>1, <1>8, <1>9
  <2>2. \A i \in DOMAIN history[b] : bound'[history[b][i].key] = b
    BY <1>8, <2>1 DEF KeyInv
  <2> QED
    BY <2>1, <2>2, KeyStays
<1>10. /\ \A i \in DOMAIN H : /\ bound[H[i].key] = a
                              /\ H[i].retired = Nobody => H[i].key \in keys[a]
       /\ \A i, j \in DOMAIN H : H[i].key = H[j].key => i = j
       /\ \A k \in keys[a] :
              \E i \in DOMAIN H : H[i].key = k /\ H[i].retired = Nobody
  BY <1>1 DEF KeyInv
<1> HIDE DEF G, H
<1>11. KeyInv(a)'
  <2>1. \A i, j \in DOMAIN G : G[i].key = G[j].key => i = j
    BY <1>4, <1>5, <1>10
  <2>2. \A i \in DOMAIN G : /\ bound'[G[i].key] = a
                            /\ G[i].retired = Nobody => G[i].key \in keys'[a]
    BY <1>4, <1>5, <1>8, <1>10
  <2>3. ASSUME NEW k \in keys'[a]
        PROVE  \E i \in DOMAIN G : G[i].key = k /\ G[i].retired = Nobody
    <3>1. PICK i \in DOMAIN H : H[i].key = k /\ H[i].retired = Nobody
      BY <1>8, <1>10
    <3>2. k # key
      BY <1>8
    <3> QED
      BY <1>4, <1>5, <3>1, <3>2
  <2> QED
    BY <1>8, <2>1, <2>2, <2>3 DEF KeyInv
<1>12. \A b \in Agents : KeyInv(b)'
  BY <1>9, <1>11
<1> QED
  BY <1>2, <1>7, <1>8, <1>12, KeyStep

-----------------------------------------------------------------------------
(* The registry.                                                           *)

(* Published traces are never changed or removed.                          *)
TracesKept == \A i \in DOMAIN traces : i \in DOMAIN traces' /\ traces'[i] = traces[i]

LEMMA GrownKept ==
    ASSUME NEW a, NEW link, Grown(a, link) PROVE TracesKept
BY DEF Grown, TracesKept

(* publish_trace and publish_trace_signed.                                 *)
LEMMA PlainPublish ==
    ASSUME RegistryInv, NEW a \in Agents, NEW m \in References,
           NEW act \in Actions, NEW h \in Hashes, NEW sig,
           heads[a].seq = 0,
           sig = Nobody \/ \E key \in keys[a] : sig = SignedBy(key, a, m, act, h),
           WriteTrace(a, m, act, h, Unlinked, sig),
           UNCHANGED <<clock, heads, chain, keyring>>
    PROVE  RegistryInv' /\ Grown(a, Unlinked)
           /\ traces'[Len(traces) + 1].market = m
<1>1. RegistryType
  BY DEF RegistryInv
<1>2. sig \in SigType
  BY <1>1 DEF SigType, SignedBy, TraceAttestationMessage, RegistryType
<1>3. PublishArgs(a, m, act, h, Unlinked)
  BY DEF PublishArgs, Unlinked, AnyHash
<1>4. OffChain(a, Unlinked) /\ SignedOrNot(a, m, act, h, sig)
  BY DEF OffChain, SignedOrNot
<1>5. RegistryInv'
  BY <1>2, <1>3, <1>4, PublishStep
<1>6. /\ Grown(a, Unlinked)
      /\ traces'[Len(traces) + 1] =
             [market |-> m, agent |-> a, action |-> act, hash |-> h,
              at |-> clock, link |-> Unlinked, sig |-> sig]
  BY <1>1, <1>2, <1>3, Written
<1> QED
  BY <1>5, <1>6

(* publish_chained_trace and publish_chained_trace_signed.                 *)
LEMMA ChainedPublish ==
    ASSUME RegistryInv, NEW a \in Agents, NEW m \in References,
           NEW act \in Actions, NEW h \in Hashes, NEW seq \in Nat,
           NEW prev \in AnyHash, NEW sig,
           sig = Nobody \/ \E key \in keys[a] : sig = SignedBy(key, a, m, act, h),
           ExtendsHead(a, seq, prev),
           WriteChained(a, m, act, h, seq, prev, sig),
           UNCHANGED <<clock, keyring>>
    PROVE  RegistryInv' /\ TracesKept
<1> DEFINE link == [seq |-> seq, prev |-> prev]
<1>1. RegistryType
  BY DEF RegistryInv
<1>2. sig \in SigType
  BY <1>1 DEF SigType, SignedBy, TraceAttestationMessage, RegistryType
<1>3. PublishArgs(a, m, act, h, link)
  BY DEF PublishArgs
<1>4. OnChain(a, h, link) /\ SignedOrNot(a, m, act, h, sig)
  BY DEF OnChain, SignedOrNot, WriteChained
<1>5. WriteTrace(a, m, act, h, link, sig)
  BY DEF WriteChained
<1> HIDE DEF link
<1>6. RegistryInv'
  BY <1>2, <1>3, <1>4, <1>5, PublishStep
<1>7. Grown(a, link)
  BY <1>1, <1>2, <1>3, <1>5, Written
<1> QED
  BY <1>6, <1>7, GrownKept

LEMMA RegistryStep ==
    ASSUME RegistryInv, NEW count, RegistryNext(count)
    PROVE  RegistryInv' /\ TracesKept
<1>1. clock \in 0 .. MaxNow
  BY DEF RegistryInv, RegistryType
<1>2. ASSUME UNCHANGED <<published, keyring>>, clock' \in 0 .. MaxNow
      PROVE  RegistryInv' /\ TracesKept
  BY <1>2, RegistryQuiet DEF TracesKept, published
<1>3. CASE Advance
  <2>1. clock' \in 0 .. MaxNow
    BY <1>1, <1>3, RegistryAssumption DEF Advance
  <2> QED
    BY <1>2, <1>3, <2>1 DEF Advance
<1>4. ASSUME NEW a \in Agents,
             \/ RegisterAgent(a) \/ RetireAgent(a) \/ ReactivateAgent(a)
             \/ \E from \in Nat : RevokeAgent(a, from)
             \/ \E root \in Hashes, leaves \in Nat :
                    PublishTraceBatch(a, root, leaves)
      PROVE  RegistryInv' /\ TracesKept
  <2>1. UNCHANGED <<published, keyring, clock>>
    BY <1>4 DEF RegisterAgent, RetireAgent, ReactivateAgent, RevokeAgent,
                PublishTraceBatch
  <2> QED
    BY <1>1, <1>2, <2>1
<1>5. ASSUME NEW a \in Agents, NEW key \in Keys,
             AddSigningKey(a, key) \/ RetireSigningKey(a, key)
      PROVE  RegistryInv' /\ TracesKept
  <2>1. traces' = traces
    BY <1>5 DEF AddSigningKey, RetireSigningKey, published
  <2> QED
    BY <1>5, <2>1, AddKeyStep, RetireKeyStep DEF TracesKept
<1>6. ASSUME NEW a \in Agents, NEW m \in References, NEW act \in Actions,
             NEW h \in Hashes,
             \/ PublishTrace(a, m, act, h, count)
             \/ \E key \in Keys : PublishTraceSigned(a, m, act, h, key, count)
      PROVE  RegistryInv' /\ TracesKept
  <2>1. PICK sig :
            /\ sig = Nobody
                  \/ \E key \in keys[a] : sig = SignedBy(key, a, m, act, h)
            /\ heads[a].seq = 0
            /\ WriteTrace(a, m, act, h, Unlinked, sig)
            /\ UNCHANGED <<clock, heads, chain, keyring>>
    <3>1. CASE PublishTrace(a, m, act, h, count)
      BY <3>1 DEF PublishTrace
    <3>2. ASSUME NEW key \in Keys, PublishTraceSigned(a, m, act, h, key, count)
          PROVE  /\ key \in keys[a] /\ heads[a].seq = 0
                 /\ WriteTrace(a, m, act, h, Unlinked, SignedBy(key, a, m, act, h))
                 /\ UNCHANGED <<clock, heads, chain, keyring>>
      BY <3>2 DEF PublishTraceSigned
    <3> QED
      BY <1>6, <3>1, <3>2
  <2>2. RegistryInv' /\ Grown(a, Unlinked)
    BY <2>1, PlainPublish
  <2> QED
    BY <2>2, GrownKept
<1>7. ASSUME NEW a \in Agents, NEW m \in References, NEW act \in Actions,
             NEW h \in Hashes, NEW seq \in Nat, NEW prev \in AnyHash,
             \/ PublishChainedTrace(a, m, act, h, seq, prev, count)
             \/ \E key \in Keys :
                    PublishChainedTraceSigned(a, m, act, h, seq, prev, key,
                                              count)
      PROVE  RegistryInv' /\ TracesKept
  <2>1. PICK sig :
            /\ sig = Nobody
                  \/ \E key \in keys[a] : sig = SignedBy(key, a, m, act, h)
            /\ ExtendsHead(a, seq, prev)
            /\ WriteChained(a, m, act, h, seq, prev, sig)
            /\ UNCHANGED <<clock, keyring>>
    <3>1. CASE PublishChainedTrace(a, m, act, h, seq, prev, count)
      BY <3>1 DEF PublishChainedTrace
    <3>2. ASSUME NEW key \in Keys,
                 PublishChainedTraceSigned(a, m, act, h, seq, prev, key, count)
          PROVE  /\ key \in keys[a] /\ ExtendsHead(a, seq, prev)
                 /\ WriteChained(a, m, act, h, seq, prev,
                                 SignedBy(key, a, m, act, h))
                 /\ UNCHANGED <<clock, keyring>>
      BY <3>2 DEF PublishChainedTraceSigned
    <3> QED
      BY <1>7, <3>1, <3>2
  <2> QED
    BY <2>1, ChainedPublish
<1>8. ASSUME \/ \E id \in 1 .. MaxTraces, on \in BOOLEAN : FlagTrace(id, on)
             \/ \E c \in Consumers :
                    \/ \E on \in BOOLEAN : SetConsumer(c, on)
                    \/ \E id \in 1 .. MaxTraces : ConsumeTrace(c, id)
      PROVE  RegistryInv' /\ TracesKept
  <2>1. UNCHANGED <<published, keyring, clock>>
    BY <1>8 DEF FlagTrace, SetConsumer, ConsumeTrace
  <2> QED
    BY <1>1, <1>2, <2>1
<1> QED
  BY <1>3, <1>4, <1>5, <1>6, <1>7, <1>8 DEF RegistryNext

LEMMA RegistryInitial == RegistryInit => RegistryInv
<1> SUFFICES ASSUME RegistryInit PROVE RegistryInv
  OBVIOUS
<1>1. /\ traces = << >> /\ byMarket = << >> /\ byAgent = << >> /\ byAction = << >>
      /\ clock = 0
      /\ \A a \in Agents : /\ heads[a] = [seq |-> 0, hash |-> Genesis, id |-> 0]
                           /\ chain[a] = << >> /\ keys[a] = {}
                           /\ history[a] = << >>
  BY DEF RegistryInit
<1>2. /\ traces \in Seq(TraceType) /\ Len(traces) = 0 /\ DOMAIN traces = {}
  BY <1>1
<1>3. RegistryType
  <2>1. heads \in [Agents -> [seq : Nat, hash : AnyHash, id : Nat]]
    BY DEF RegistryInit, AnyHash
  <2>2. /\ chain \in [Agents -> Seq(Nat)] /\ keys \in [Agents -> SUBSET Keys]
        /\ bound \in [Keys -> Agents \cup {Nobody}]
        /\ history \in [Agents -> Seq(KeyRecord)]
    BY DEF RegistryInit
  <2>3. clock \in 0 .. MaxNow
    BY <1>1, RegistryAssumption
  <2> QED
    BY <1>2, <2>1, <2>2, <2>3, RegistryAssumption DEF RegistryType
<1>4. IndexesAreComplete
  <2>1. DOMAIN byMarket = {} /\ DOMAIN byAgent = {} /\ DOMAIN byAction = {}
    BY <1>1
  <2>2. DOMAIN MarketOf = {} /\ DOMAIN AgentOf = {} /\ DOMAIN ActionOf = {}
    BY <1>2 DEF MarketOf, AgentOf, ActionOf
  <2> QED
    BY <2>1, <2>2 DEF IndexesAreComplete, Indexes
<1>5. ASSUME NEW a \in Agents PROVE ChainInv(a)
  <2>1. OfAgent(a) = {} /\ InChain(a) = {}
    BY <1>2 DEF OfAgent, InChain
  <2>2. Lists(chain[a], InChain(a)) /\ Len(chain[a]) = 0 /\ DOMAIN chain[a] = {}
    BY <1>1, <2>1, EmptyLists
  <2> QED
    BY <1>1, <2>1, <2>2 DEF ChainInv
<1>6. ASSUME NEW a \in Agents PROVE KeyInv(a)
  <2>1. DOMAIN history[a] = {} /\ keys[a] = {}
    BY <1>1
  <2> QED
    BY <2>1 DEF KeyInv
<1> QED
  BY <1>2, <1>3, <1>4, <1>5, <1>6 DEF RegistryInv

-----------------------------------------------------------------------------
(* The router.                                                             *)

(* Every routed buy has a trace of its own.                                *)
TradesTraced ==
    \A i \in DOMAIN trades :
        trades[i].trace # 0 =>
            /\ trades[i].trace \in DOMAIN traces
            /\ traces[trades[i].trace].agent = trades[i].trader
            /\ traces[trades[i].trace].market = trades[i].market
            /\ \A j \in DOMAIN trades :
                   trades[j].trace = trades[i].trace => j = i

LEMMA FlowsAre ==
    ASSUME TRUE PROVE CompoundFlowsAreWhole <=> RevealedFlows /\ TradesTraced
BY DEF CompoundFlowsAreWhole, RevealedFlows, TradesTraced

LEMMA TradesQuiet ==
    ASSUME TradesTraced, TracesKept, UNCHANGED trades PROVE TradesTraced'
BY DEF TradesTraced, TracesKept

(* One more trade, with no trace or with the one just published.           *)
LEMMA TradeStep ==
    ASSUME RegistryType, TradesTraced, TracesKept, trades \in Seq(TradeType),
           NEW t \in TradeType, trades' = Append(trades, t),
           \/ t.trace = 0
           \/ /\ t.trace = Len(traces) + 1
              /\ t.trace \in DOMAIN traces'
              /\ traces'[t.trace].agent = t.trader
              /\ traces'[t.trace].market = t.market
    PROVE  TradesTraced' /\ trades' \in Seq(TradeType)
<1> DEFINE n == Len(trades)
<1>1. /\ trades' \in Seq(TradeType) /\ n \in Nat
      /\ DOMAIN trades = 1 .. n /\ DOMAIN trades' = 1 .. n + 1
      /\ trades'[n + 1] = t /\ \A i \in DOMAIN trades : trades'[i] = trades[i]
  OBVIOUS
<1>2. DOMAIN traces = 1 .. Len(traces) /\ Len(traces) \in Nat
  BY DEF RegistryType
<1> HIDE DEF n
<1>3. \A i \in DOMAIN trades' : i \in DOMAIN trades \/ i = n + 1
  BY <1>1
<1>4. ASSUME NEW i \in DOMAIN trades, trades[i].trace # 0
      PROVE  /\ trades[i].trace \in DOMAIN traces
             /\ trades[i].trace # t.trace
  BY <1>2, <1>4 DEF TradesTraced
<1>5. ASSUME NEW i \in DOMAIN trades', trades'[i].trace # 0
      PROVE  /\ trades'[i].trace \in DOMAIN traces'
             /\ traces'[trades'[i].trace].agent = trades'[i].trader
             /\ traces'[trades'[i].trace].market = trades'[i].market
             /\ \A j \in DOMAIN trades' :
                    trades'[j].trace = trades'[i].trace => j = i
  <2>1. CASE i \in DOMAIN trades
    <3>1. trades'[i] = trades[i] /\ trades[i].trace # 0
      BY <1>1, <1>5, <2>1
    <3>2. /\ trades[i].trace \in DOMAIN traces
          /\ trades[i].trace \in DOMAIN traces'
          /\ traces'[trades[i].trace] = traces[trades[i].trace]
      BY <1>4, <2>1, <3>1 DEF TracesKept
    <3>3. ASSUME NEW j \in DOMAIN trades', trades'[j].trace = trades'[i].trace
          PROVE  j = i
      <4>1. j # n + 1
        BY <1>1, <1>4, <2>1, <3>1, <3>3
      <4>2. j \in DOMAIN trades
        BY <1>3, <4>1
      <4> QED
        BY <1>1, <2>1, <3>1, <3>3, <4>2 DEF TradesTraced
    <3> QED
      BY <2>1, <3>1, <3>2, <3>3 DEF TradesTraced
  <2>2. CASE i = n + 1
    <3>1. trades'[i] = t /\ t.trace # 0
      BY <1>1, <1>5, <2>2
    <3>2. ASSUME NEW j \in DOMAIN trades', trades'[j].trace = trades'[i].trace
          PROVE  j = i
      <4>1. j \notin DOMAIN trades
        BY <1>1, <1>4, <3>1, <3>2
      <4> QED
        BY <1>3, <2>2, <4>1
    <3> QED
      BY <3>1, <3>2
  <2> QED
    BY <1>3, <2>1, <2>2
<1> QED
  BY <1>1, <1>5 DEF TradesTraced

LEMMA BuyStep ==
    ASSUME RouterInv, NEW trader \in Agents, NEW id \in Ids, Buy(trader, id)
    PROVE  RouterInv'
<1> DEFINE t == [market |-> id, trader |-> trader, trace |-> 0]
<1>1. /\ CommitInv /\ RegistryInv /\ trades \in Seq(TradeType)
      /\ RevealedFlows /\ TradesTraced /\ RegistryType
  BY FlowsAre DEF RouterInv, RegistryInv
<1>2. t \in TradeType /\ t.trace = 0
  BY DEF TradeType
<1>3. trades' = Append(trades, t) /\ UNCHANGED <<commitVars, registryVars>>
  BY DEF Buy
<1> HIDE DEF t
<1>4. TracesKept
  BY <1>3 DEF registryVars, published, TracesKept
<1>5. TradesTraced' /\ trades' \in Seq(TradeType)
  BY <1>1, <1>2, <1>3, <1>4, TradeStep
<1>6. RegistryInv'
  <2>1. UNCHANGED <<published, keyring>> /\ clock' \in 0 .. MaxNow
    BY <1>1, <1>3 DEF registryVars, RegistryType
  <2> QED
    BY <1>1, <2>1, RegistryQuiet
<1>7. CommitInv' /\ RevealedFlows'
  <2>1. UNCHANGED <<markets, entries>> /\ DOMAIN rstate' = DOMAIN rstate
        /\ printed' \in SUBSET [command : Commands, hash : HashType]
    BY <1>1, <1>3 DEF commitVars, CommitInv, CommitType
  <2> QED
    BY <1>1, <2>1, CommitQuiet
<1>8. CompoundFlowsAreWhole'
  BY <1>5, <1>7 DEF CompoundFlowsAreWhole, RevealedFlows, TradesTraced
<1> QED
  BY <1>5, <1>6, <1>7, <1>8 DEF RouterInv

LEMMA BuyAndPublishStep ==
    ASSUME RouterInv, NEW trader \in Agents, NEW id \in Ids,
           NEW act \in Actions, NEW h \in Hashes,
           BuyAndPublishTrace(trader, id, act, h)
    PROVE  RouterInv'
<1> DEFINE t == [market |-> id, trader |-> trader, trace |-> Len(traces) + 1]
<1>1. /\ CommitInv /\ RegistryInv /\ trades \in Seq(TradeType)
      /\ RevealedFlows /\ TradesTraced /\ RegistryType
  BY FlowsAre DEF RouterInv, RegistryInv
<1>2. /\ PublishTrace(trader, id, act, h, MarketCount)
      /\ trades' = Append(trades, t) /\ UNCHANGED commitVars
  BY DEF BuyAndPublishTrace
<1>3. id \in References
  BY CommitmentAssumption DEF Ids, References
<1>4. /\ RegistryInv' /\ Grown(trader, Unlinked)
      /\ traces'[Len(traces) + 1].market = id
  <2>1. /\ heads[trader].seq = 0
        /\ WriteTrace(trader, id, act, h, Unlinked, Nobody)
        /\ UNCHANGED <<clock, heads, chain, keyring>>
    BY <1>2 DEF PublishTrace
  <2> QED
    BY <1>1, <1>3, <2>1, PlainPublish
<1>5. /\ t \in TradeType /\ t.trace = Len(traces) + 1 /\ t.trader = trader
      /\ t.market = id
  BY <1>4 DEF TradeType, Grown
<1> HIDE DEF t
<1>6. TracesKept
  BY <1>4, GrownKept
<1>7. /\ t.trace \in DOMAIN traces' /\ traces'[t.trace].agent = t.trader
      /\ traces'[t.trace].market = t.market
  BY <1>4, <1>5 DEF Grown
<1>8. TradesTraced' /\ trades' \in Seq(TradeType)
  BY <1>1, <1>2, <1>5, <1>6, <1>7, TradeStep
<1>9. CommitInv' /\ RevealedFlows'
  <2>1. UNCHANGED <<markets, entries>> /\ DOMAIN rstate' = DOMAIN rstate
        /\ printed' \in SUBSET [command : Commands, hash : HashType]
    BY <1>1, <1>2 DEF commitVars, CommitInv, CommitType
  <2> QED
    BY <1>1, <2>1, CommitQuiet
<1>10. CompoundFlowsAreWhole'
  BY <1>8, <1>9 DEF CompoundFlowsAreWhole, RevealedFlows, TradesTraced
<1> QED
  BY <1>4, <1>8, <1>9, <1>10 DEF RouterInv

(* The invariant of the router, the resolver's commitments and the         *)
(* registry together holds in every state of every behaviour.              *)
THEOREM RouterInvariance == RouterSpec => []RouterInv
<1>1. RouterInit => RouterInv
  <2> SUFFICES ASSUME RouterInit PROVE RouterInv
    OBVIOUS
  <2>1. CommitInv /\ RegistryInv
    BY CommitInitial, RegistryInitial DEF RouterInit
  <2>2. trades = << >> /\ DOMAIN trades = {} /\ trades \in Seq(TradeType)
    BY DEF RouterInit
  <2>3. DOMAIN markets = {}
    BY DEF RouterInit, CommitInit
  <2> QED
    BY <2>1, <2>2, <2>3 DEF RouterInv, CompoundFlowsAreWhole
<1>2. RouterInv /\ [RouterNext]_routerVars => RouterInv'
  <2> SUFFICES ASSUME RouterInv, [RouterNext]_routerVars PROVE RouterInv'
    OBVIOUS
  <2>1. /\ CommitInv /\ RegistryInv /\ trades \in Seq(TradeType)
        /\ RevealedFlows /\ TradesTraced /\ RegistryType
    BY FlowsAre DEF RouterInv, RegistryInv
  <2>2. ASSUME UNCHANGED registryVars PROVE RegistryInv' /\ TracesKept
    <3>1. UNCHANGED <<published, keyring, traces>> /\ clock' \in 0 .. MaxNow
      BY <2>1, <2>2 DEF registryVars, RegistryType, published
    <3> QED
      BY <2>1, <3>1, RegistryQuiet DEF TracesKept
  <2>3. ASSUME UNCHANGED commitVars PROVE CommitInv' /\ RevealedFlows'
    <3>1. UNCHANGED <<markets, entries>> /\ DOMAIN rstate' = DOMAIN rstate
          /\ printed' \in SUBSET [command : Commands, hash : HashType]
      BY <2>1, <2>3 DEF commitVars, CommitInv, CommitType
    <3> QED
      BY <2>1, <3>1, CommitQuiet
  <2>4. ASSUME RegistryInv', TracesKept, CommitInv', RevealedFlows',
               UNCHANGED trades
        PROVE  RouterInv'
    <3>1. TradesTraced'
      BY <2>1, <2>4, TradesQuiet
    <3>2. CompoundFlowsAreWhole'
      BY <2>4, <3>1 DEF CompoundFlowsAreWhole, RevealedFlows, TradesTraced
    <3> QED
      BY <2>1, <2>4, <3>2 DEF RouterInv
  <2>5. CASE CommitNext /\ UNCHANGED <<registryVars, trades>>
    <3>1. CommitInv' /\ RevealedFlows'
      BY <2>1, <2>5, CommitStep
    <3> QED
      BY <2>2, <2>4, <2>5, <3>1
  <2>6. CASE RegistryNext(MarketCount) /\ UNCHANGED <<commitVars, trades>>
    <3>1. RegistryInv' /\ TracesKept
      BY <2>1, <2>6, RegistryStep
    <3> QED
      BY <2>3, <2>4, <2>6, <3>1
  <2>7. CASE UNCHANGED routerVars
    <3>1. UNCHANGED <<commitVars, registryVars, trades>>
      BY <2>7 DEF routerVars
    <3> QED
      BY <2>2, <2>3, <2>4, <3>1
  <2> QED
    BY <2>5, <2>6, <2>7, BuyStep, BuyAndPublishStep DEF RouterNext
<1> QED
  BY <1>1, <1>2, PTL DEF RouterSpec

(* Whoever reveals a rule, through whichever of the resolver's register_*  *)
(* entrypoints or compound flows, the resolver holds at most one rule for  *)
(* a market: one its creator committed to for this deployment.             *)
THEOREM OnlyCommittedRules == RouterSpec => []RevealedIsCommitted
<1>1. RouterInv => RevealedIsCommitted
  BY DEF RouterInv, CommitInv
<1> QED
  BY <1>1, RouterInvariance, PTL

(* The router's and the treasury's compound flows happen whole or not at   *)
(* all, for any number of markets, agents and traces.                      *)
THEOREM FlowsAreWhole == RouterSpec => []CompoundFlowsAreWhole
<1>1. RouterInv => CompoundFlowsAreWhole
  BY DEF RouterInv
<1> QED
  BY <1>1, RouterInvariance, PTL

(* The three indexes of the registry list exactly the traces of their key, *)
(* in the order of publication.                                            *)
THEOREM IndexesListEverything == RouterSpec => []IndexesAreComplete
<1>1. RouterInv => IndexesAreComplete
  BY DEF RouterInv, RegistryInv
<1> QED
  BY <1>1, RouterInvariance, PTL

(* The chain of an agent, as agent_chain_head, agent_trace_at and          *)
(* get_trace_link show it, has no gap, no fork and nothing beside it.      *)
THEOREM ChainsNeverFork == RouterSpec => []ChainsAreComplete
<1>1. ASSUME RegistryInv PROVE ChainsAreComplete
  <2> SUFFICES ASSUME NEW a \in Agents
               PROVE  LET head == heads[a]
                          ids == [seq \in 1 .. head.seq |-> chain[a][seq]]
                      IN  /\ Lists(ids, InChain(a))
                          /\ head.seq > 0 => /\ head.id = ids[head.seq]
                                             /\ head.hash = traces[head.id].hash
                          /\ \A s \in 1 .. head.seq :
                                 traces[ids[s]].link =
                                     [seq |-> s,
                                      prev |-> IF s = 1 THEN Genesis
                                               ELSE traces[ids[s - 1]].hash]
                          /\ \A i \in OfAgent(a) :
                                 head.seq > 0 /\ i >= ids[1] => i \in InChain(a)
    BY DEF ChainsAreComplete, AgentChainHead, AgentTraceAt, GetTraceLink
  <2> DEFINE c == chain[a]
             ids == [seq \in 1 .. heads[a].seq |-> c[seq]]
  <2>1. c \in Seq(Nat) /\ Len(c) = heads[a].seq /\ heads[a].seq \in Nat
    <3>1. chain \in [Agents -> Seq(Nat)] /\ ChainInv(a)
          /\ heads \in [Agents -> [seq : Nat, hash : AnyHash, id : Nat]]
      BY <1>1 DEF RegistryInv, RegistryType
    <3> QED
      BY <3>1 DEF ChainInv
  <2>2. c = ids /\ DOMAIN c = 1 .. heads[a].seq
    <3> HIDE DEF c
    <3>1. DOMAIN c = 1 .. heads[a].seq /\ c = [s \in DOMAIN c |-> c[s]]
      BY <2>1
    <3> QED
      BY <3>1
  <2>3. ChainInv(a)
    BY <1>1 DEF RegistryInv
  <2>4. heads[a].seq > 0 => heads[a].seq # 0
    BY <2>1
  <2> HIDE DEF ids
  <2>5. /\ Lists(c, InChain(a))
        /\ heads[a].seq > 0 => /\ heads[a].id = c[heads[a].seq]
                               /\ heads[a].hash = traces[heads[a].id].hash
        /\ \A s \in 1 .. heads[a].seq :
               traces[c[s]].link = [seq |-> s,
                                    prev |-> IF s = 1 THEN Genesis
                                             ELSE traces[c[s - 1]].hash]
        /\ \A i \in OfAgent(a) :
               heads[a].seq > 0 /\ i >= c[1] => i \in InChain(a)
    BY <2>2, <2>3, <2>4 DEF ChainInv
  <2>6. /\ Lists(ids, InChain(a))
        /\ heads[a].seq > 0 => /\ heads[a].id = ids[heads[a].seq]
                               /\ heads[a].hash = traces[heads[a].id].hash
        /\ \A s \in 1 .. heads[a].seq :
               traces[ids[s]].link = [seq |-> s,
                                      prev |-> IF s = 1 THEN Genesis
                                               ELSE traces[ids[s - 1]].hash]
        /\ \A i \in OfAgent(a) :
               heads[a].seq > 0 /\ i >= ids[1] => i \in InChain(a)
    BY <2>2, <2>5
  <2> QED
    BY <2>6 DEF ids
<1>2. RouterInv => ChainsAreComplete
  BY <1>1 DEF RouterInv
<1> QED
  BY <1>2, RouterInvariance, PTL

(* A page of one entry of the key history is that entry.                   *)
LEMMA OneRecord ==
    ASSUME NEW a \in Agents, history[a] \in Seq(KeyRecord),
           NEW i \in 0 .. SigningKeyHistoryCount(a) - 1
    PROVE  /\ Range(SigningKeyHistory(a, i, 1)) = {history[a][i + 1]}
           /\ i + 1 \in DOMAIN history[a]
<1> DEFINE s == history[a]
<1>1. s \in Seq(KeyRecord) /\ Len(s) \in Nat /\ i \in 0 .. Len(s) - 1
  BY DEF SigningKeyHistoryCount
<1>2. SigningKeyHistory(a, i, 1) = SubSeq(s, i + 1, i + 1)
  <2>1. (IF i + 1 < Len(s) THEN i + 1 ELSE Len(s)) = i + 1
    BY <1>1
  <2> QED
    BY <2>1 DEF SigningKeyHistory, SigningKeyHistoryCount
<1> HIDE DEF s
<1>3. /\ DOMAIN SubSeq(s, i + 1, i + 1) = 1 .. 1
      /\ SubSeq(s, i + 1, i + 1)[1] = s[i + 1]
  BY <1>1
<1>4. \A x \in 1 .. 1 : x = 1
  OBVIOUS
<1>5. Range(SubSeq(s, i + 1, i + 1)) = {s[i + 1]}
  BY <1>3, <1>4 DEF Range
<1>6. i + 1 \in DOMAIN s
  BY <1>1
<1> QED
  BY <1>2, <1>5, <1>6 DEF s

(* A signature a trace was published with verifies for good: a key never   *)
(* changes hands, retired or not, and the history of the keys is exact.    *)
THEOREM SignaturesLast == RouterSpec => []SignaturesStayAttributable
<1>1. ASSUME RegistryInv PROVE SignaturesStayAttributable
  <2> DEFINE Records(a) == UNION {Range(SigningKeyHistory(a, i, 1)) :
                                     i \in 0 .. SigningKeyHistoryCount(a) - 1}
  <2>1. ASSUME NEW a \in Agents
        PROVE  Records(a) = {history[a][i] : i \in DOMAIN history[a]}
    <3>1. history[a] \in Seq(KeyRecord)
      BY <1>1 DEF RegistryInv, RegistryType
    <3>2. \A i \in DOMAIN history[a] :
              i - 1 \in 0 .. SigningKeyHistoryCount(a) - 1 /\ i - 1 + 1 = i
      BY <3>1 DEF SigningKeyHistoryCount
    <3>3. \A i \in 0 .. SigningKeyHistoryCount(a) - 1 :
              /\ Range(SigningKeyHistory(a, i, 1)) = {history[a][i + 1]}
              /\ i + 1 \in DOMAIN history[a]
      BY <3>1, OneRecord
    <3>4. ASSUME NEW r \in Records(a)
          PROVE  r \in {history[a][i] : i \in DOMAIN history[a]}
      BY <3>3
    <3>5. ASSUME NEW i \in DOMAIN history[a] PROVE history[a][i] \in Records(a)
      BY <3>2, <3>3
    <3> QED
      BY <3>4, <3>5
  <2> HIDE DEF Records
  <2>2. ASSUME NEW a \in Agents, NEW b \in Agents,
               NEW r \in Records(a), NEW q \in Records(b), r.key = q.key
        PROVE  a = b /\ r = q
    <3>1. PICK i \in DOMAIN history[a] : r = history[a][i]
      BY <2>1
    <3>2. PICK j \in DOMAIN history[b] : q = history[b][j]
      BY <2>1
    <3>3. bound[r.key] = a /\ bound[q.key] = b
      BY <1>1, <3>1, <3>2 DEF RegistryInv, KeyInv
    <3>4. a = b
      BY <2>2, <3>3
    <3>5. KeyInv(a)
      BY <1>1 DEF RegistryInv
    <3>6. i = j
      BY <2>2, <3>1, <3>2, <3>4, <3>5 DEF KeyInv
    <3> QED
      BY <3>1, <3>2, <3>4, <3>6
  <2>3. ASSUME NEW a \in Agents
        PROVE  keys[a] = {r.key : r \in {q \in Records(a) : q.retired = Nobody}}
    <3>1. KeyInv(a)
      BY <1>1 DEF RegistryInv
    <3>2. ASSUME NEW k \in keys[a]
          PROVE  \E q \in Records(a) : q.retired = Nobody /\ q.key = k
      <4>1. PICK i \in DOMAIN history[a] :
                history[a][i].key = k /\ history[a][i].retired = Nobody
        BY <3>1 DEF KeyInv
      <4> QED
        BY <2>1, <4>1
    <3>3. ASSUME NEW q \in Records(a), q.retired = Nobody PROVE q.key \in keys[a]
      <4>1. PICK i \in DOMAIN history[a] : q = history[a][i]
        BY <2>1
      <4> QED
        BY <3>1, <3>3, <4>1 DEF KeyInv
    <3> QED
      BY <3>2, <3>3
  <2>4. \A i \in DOMAIN traces :
            GetTraceSignature(i) # Nobody => VerifyTraceSignature(i)
    BY <1>1 DEF RegistryInv, GetTraceSignature
  <2> QED
    BY <2>2, <2>3, <2>4 DEF SignaturesStayAttributable, GetSigningKeys, Records
<1>2. RouterInv => SignaturesStayAttributable
  BY <1>1 DEF RouterInv
<1> QED
  BY <1>2, RouterInvariance, PTL

-----------------------------------------------------------------------------
(* Reading an index page by page.                                          *)

(* Increasing ids from 1 on are at least their places in the list.         *)
LEMMA ListsAreShort ==
    ASSUME NEW n \in Nat, NEW s \in Seq(Nat), NEW S, S \subseteq 1 .. n,
           Lists(s, S)
    PROVE  Len(s) <= n
<1>1. DOMAIN s = 1 .. Len(s) /\ Len(s) \in Nat
  OBVIOUS
<1>2. \A i \in 1 .. Len(s) : s[i] \in 1 .. n
  BY <1>1 DEF Lists
<1> DEFINE Low == {j \in 1 .. Len(s) : s[j] < j}
<1>3. ASSUME Low # {} PROVE FALSE
  <2>1. Low \subseteq Nat
    BY <1>1
  <2> HIDE DEF Low
  <2>2. PICK m \in Low : \A j \in Low : m <= j
    BY <1>3, <2>1, LeastNatural
  <2>3. m \in 1 .. Len(s) /\ s[m] < m /\ m \in Nat
    BY <1>1, <2>2 DEF Low
  <2>4. CASE m = 1
    BY <1>2, <2>3, <2>4
  <2>5. CASE m # 1
    <3>1. m - 1 \in 1 .. Len(s) /\ m - 1 < m
      BY <1>1, <2>3, <2>5
    <3>2. m - 1 \notin Low
      BY <1>1, <2>2, <2>3, <3>1
    <3>3. s[m - 1] >= m - 1
      BY <1>1, <1>2, <3>1, <3>2 DEF Low
    <3>4. s[m - 1] < s[m]
      BY <1>1, <2>3, <3>1 DEF Lists
    <3> QED
      BY <1>2, <2>3, <3>1, <3>3, <3>4
  <2> QED
    BY <2>4, <2>5
<1> QED
  <2>1. CASE Len(s) = 0
    BY <1>1, <2>1
  <2>2. CASE Len(s) # 0
    <3>1. Len(s) \in 1 .. Len(s) /\ Len(s) \notin Low
      BY <1>1, <1>3, <2>2
    <3>2. s[Len(s)] \in 1 .. n /\ ~(s[Len(s)] < Len(s))
      BY <1>2, <3>1
    <3> QED
      BY <1>1, <3>2
  <2> QED
    BY <2>1, <2>2

(* One more page: what was read is the beginning of the index up to a      *)
(* place, and then up to the end of the page after that place.             *)
LEMMA OnePage ==
    ASSUME NEW T, NEW s \in Seq(T), NEW limit \in Nat, NEW at \in 0 .. Len(s),
           NEW end,
           end = IF at + limit < Len(s) THEN at + limit ELSE Len(s)
    PROVE  /\ TracePage(s, at, limit).next = end
           /\ SubSeq(s, 1, at) \o TracePage(s, at, limit).entries
                  = SubSeq(s, 1, end)
<1>1. end \in at .. Len(s)
  OBVIOUS
<1>2. /\ TracePage(s, at, limit).entries = SubSeq(s, at + 1, end)
      /\ TracePage(s, at, limit).next = end
  BY DEF TracePage
<1>3. SubSeq(s, 1, at) \o SubSeq(s, at + 1, end) = SubSeq(s, 1, end)
  <2>1. 1 \in 1 .. Len(s) + 1 /\ at \in 1 - 1 .. Len(s)
    OBVIOUS
  <2> QED
    BY <1>1, <2>1, ConcatAdjacentSubSeq, Zenon
<1> QED
  BY <1>2, <1>3

(* Reading an index to its end, page after page of at least one entry,     *)
(* gives the index.                                                        *)
LEMMA PagesGiveAll ==
    ASSUME NEW T, NEW s \in Seq(T), Len(s) <= MaxTraces,
           NEW limit \in Nat, limit >= 1
    PROVE  LET Page(at, l) == TracePage(s, at, l)
           IN  ReadAll(Page, limit) = s
<1> DEFINE Page(at, l) == TracePage(s, at, l)
           Cut(n) == IF n * limit < Len(s) THEN n * limit ELSE Len(s)
           Reads(f) ==
               f = [n \in 0 .. MaxTraces |->
                       IF n = 0 THEN [seen |-> << >>, at |-> 0]
                       ELSE [seen |-> f[n - 1].seen
                                          \o Page(f[n - 1].at, limit).entries,
                             at |-> Page(f[n - 1].at, limit).next]]
           whole == [n \in 0 .. MaxTraces |->
                        [seen |-> SubSeq(s, 1, Cut(n)), at |-> Cut(n)]]
           read == CHOOSE f : Reads(f)
<1>1. Len(s) \in Nat /\ MaxTraces \in Nat
  BY RegistryAssumption
<1>2. \A n \in Nat : Cut(n) \in 0 .. Len(s)
  <2>1. ASSUME NEW n \in Nat PROVE n * limit \in Nat
    OBVIOUS
  <2> QED
    BY <1>1, <2>1
<1>3. Cut(0) = 0
  BY <1>1
<1>4. ASSUME NEW n \in Nat, n > 0
      PROVE  Cut(n) = IF Cut(n - 1) + limit < Len(s) THEN Cut(n - 1) + limit
                      ELSE Len(s)
  <2>1. n * limit = (n - 1) * limit + limit /\ (n - 1) * limit \in Nat
    BY <1>4
  <2> QED
    BY <1>1, <2>1
<1>5. Cut(MaxTraces) = Len(s)
  <2>1. MaxTraces * limit >= MaxTraces /\ MaxTraces * limit \in Nat
    BY <1>1
  <2> QED
    BY <1>1, <2>1
<1> HIDE DEF Cut
<1>6. ASSUME NEW n \in Nat, n > 0
      PROVE  LET page == Page(Cut(n - 1), limit)
             IN  /\ page.next = Cut(n)
                 /\ SubSeq(s, 1, Cut(n - 1)) \o page.entries
                        = SubSeq(s, 1, Cut(n))
  <2>1. n - 1 \in Nat /\ Cut(n - 1) \in 0 .. Len(s)
    BY <1>2, <1>6
  <2> QED
    BY <1>4, <1>6, <2>1, OnePage
<1> HIDE DEF Page
<1>7. SubSeq(s, 1, 0) = << >>
  BY <1>1
<1>8. Reads(whole)
  <2>1. ASSUME NEW n \in 0 .. MaxTraces
        PROVE  whole[n] =
                   IF n = 0 THEN [seen |-> << >>, at |-> 0]
                   ELSE [seen |-> whole[n - 1].seen
                                     \o Page(whole[n - 1].at, limit).entries,
                         at |-> Page(whole[n - 1].at, limit).next]
    <3>1. CASE n = 0
      BY <1>1, <1>3, <1>7, <3>1
    <3>2. CASE n # 0
      <4>1. n \in Nat /\ n > 0 /\ n - 1 \in 0 .. MaxTraces
        BY <1>1, <3>2
      <4>2. whole[n - 1].seen = SubSeq(s, 1, Cut(n - 1))
            /\ whole[n - 1].at = Cut(n - 1)
        BY <4>1
      <4> QED
        BY <1>6, <3>2, <4>1, <4>2
    <3> QED
      BY <3>1, <3>2
  <2> HIDE DEF whole
  <2>2. whole = [n \in 0 .. MaxTraces |-> whole[n]]
    BY DEF whole
  <2> QED
    BY <2>1, <2>2
<1>9. Reads(read)
  BY <1>8
<1> HIDE DEF read
<1>10. read = whole
  <2> DEFINE Off == {n \in 0 .. MaxTraces : read[n] # whole[n]}
  <2>1. ASSUME Off # {} PROVE FALSE
    <3>1. Off \subseteq Nat
      BY <1>1
    <3> HIDE DEF Off
    <3>2. PICK m \in Off : \A j \in Off : m <= j
      BY <2>1, <3>1, LeastNatural
    <3>3. m \in 0 .. MaxTraces /\ read[m] # whole[m] /\ m \in Nat
      BY <1>1, <3>2 DEF Off
    <3>4. CASE m = 0
      <4>1. read[0] = [seen |-> << >>, at |-> 0]
        BY <1>9, <3>3, <3>4
      <4>2. whole[0] = [seen |-> << >>, at |-> 0]
        BY <1>8, <3>3, <3>4
      <4> QED
        BY <3>3, <3>4, <4>1, <4>2
    <3>5. CASE m # 0
      <4>1. m - 1 \in 0 .. MaxTraces /\ m - 1 < m /\ m - 1 \in Nat
        BY <1>1, <3>3, <3>5
      <4>2. m - 1 \notin Off
        BY <3>2, <3>3, <4>1
      <4>3. read[m - 1] = whole[m - 1]
        BY <4>1, <4>2 DEF Off
      <4> HIDE DEF whole
      <4>4. read[m] = [seen |-> read[m - 1].seen
                                   \o Page(read[m - 1].at, limit).entries,
                       at |-> Page(read[m - 1].at, limit).next]
        BY <1>9, <3>3, <3>5
      <4>5. whole[m] = [seen |-> whole[m - 1].seen
                                   \o Page(whole[m - 1].at, limit).entries,
                        at |-> Page(whole[m - 1].at, limit).next]
        BY <1>8, <3>3, <3>5
      <4> QED
        BY <3>3, <4>3, <4>4, <4>5
    <3> QED
      BY <3>4, <3>5
  <2>2. \A n \in 0 .. MaxTraces : read[n] = whole[n]
    BY <2>1
  <2> HIDE DEF Off, whole
  <2>3. read = [n \in 0 .. MaxTraces |-> read[n]]
    BY <1>9
  <2>4. whole = [n \in 0 .. MaxTraces |-> whole[n]]
    BY DEF whole
  <2> QED
    BY <2>2, <2>3, <2>4
<1>11. read[MaxTraces].seen = SubSeq(s, 1, Len(s))
  BY <1>1, <1>5, <1>10
<1>12. SubSeq(s, 1, Len(s)) = s
  OBVIOUS
<1>13. ReadAll(Page, limit) = read[MaxTraces].seen
  BY DEF ReadAll, read
<1> QED
  BY <1>11, <1>12, <1>13 DEF Page

(* Whatever the size of the pages, reading an index of the registry to its *)
(* end yields exactly the traces of a market, of an agent, or of a market  *)
(* and an action, in the order they were published.                        *)
THEOREM PagesListEverything == RouterSpec => []IndexesAgree
<1>1. ASSUME RegistryInv PROVE IndexesAgree
  <2>1. /\ traces \in Seq(TraceType) /\ Len(traces) <= MaxTraces
        /\ DOMAIN traces = 1 .. Len(traces) /\ Len(traces) \in Nat
        /\ MaxTraces \in Nat /\ MaxPage \in Nat
    BY <1>1, RegistryAssumption DEF RegistryInv, RegistryType
  <2>2. ASSUME NEW index, NEW key, Indexes(index, key),
               DOMAIN key = DOMAIN traces, NEW i \in DOMAIN traces
        PROVE  /\ At(index, key[i]) \in Seq(Nat)
               /\ Len(At(index, key[i])) <= MaxTraces
               /\ Lists(At(index, key[i]),
                        {j \in DOMAIN traces : key[j] = key[i]})
    <3> DEFINE s == At(index, key[i])
               S == {j \in DOMAIN traces : key[j] = key[i]}
    <3>1. s \in Seq(Nat) /\ Lists(s, S)
      BY <2>2 DEF Indexes, At
    <3>2. S \subseteq 1 .. Len(traces)
      BY <2>1
    <3> HIDE DEF s, S
    <3>3. Len(s) <= Len(traces)
      BY <2>1, <3>1, <3>2, ListsAreShort
    <3>4. Len(s) \in Nat
      BY <3>1
    <3> QED
      BY <2>1, <3>1, <3>3, <3>4 DEF s, S
  <2> SUFFICES ASSUME NEW limit \in 1 .. MaxPage, NEW t \in Range(traces)
               PROVE  LET PM(s, l) == TracesByMarket(t.market, s, l)
                          PA(s, l) == TracesByAgent(t.agent, s, l)
                          PX(s, l) == TracesByMarketAction(t.market, t.action,
                                                           s, l)
                      IN  /\ Lists(ReadAll(PM, limit), OfMarket(t.market))
                          /\ Lists(ReadAll(PA, limit), OfAgent(t.agent))
                          /\ Lists(ReadAll(PX, limit),
                                   OfAction(t.market, t.action))
    BY DEF IndexesAgree
  <2>3. PICK i \in DOMAIN traces : t = traces[i]
    BY DEF Range
  <2>4. limit \in Nat /\ limit >= 1
    BY <2>1
  <2> DEFINE PM(s, l) == TracesByMarket(t.market, s, l)
             PA(s, l) == TracesByAgent(t.agent, s, l)
             PX(s, l) == TracesByMarketAction(t.market, t.action, s, l)
  <2>5. Lists(ReadAll(PM, limit), OfMarket(t.market))
    <3> DEFINE s == At(byMarket, t.market)
    <3>1. MarketOf[i] = t.market /\ DOMAIN MarketOf = DOMAIN traces
      BY <2>3 DEF MarketOf
    <3>2. {j \in DOMAIN traces : MarketOf[j] = t.market} = OfMarket(t.market)
      BY DEF MarketOf, OfMarket
    <3>3. Indexes(byMarket, MarketOf)
      BY <1>1 DEF RegistryInv, IndexesAreComplete
    <3>4. s \in Seq(Nat) /\ Len(s) <= MaxTraces
          /\ Lists(s, OfMarket(t.market))
      <4>1. DOMAIN MarketOf = DOMAIN traces
        BY <3>1
      <4>2. /\ At(byMarket, MarketOf[i]) \in Seq(Nat)
            /\ Len(At(byMarket, MarketOf[i])) <= MaxTraces
            /\ Lists(At(byMarket, MarketOf[i]),
                     {j \in DOMAIN traces : MarketOf[j] = MarketOf[i]})
        BY <2>2, <3>3, <4>1, Zenon
      <4> QED
        BY <3>1, <3>2, <4>2
    <3> DEFINE Page(at, l) == TracePage(s, at, l)
    <3> HIDE DEF s
    <3>5. ReadAll(Page, limit) = s
      BY <2>4, <3>4, PagesGiveAll
    <3>6. ReadAll(PM, limit) = ReadAll(Page, limit)
      BY DEF ReadAll, TracesByMarket, s
    <3> QED
      BY <3>4, <3>5, <3>6
  <2>6. Lists(ReadAll(PA, limit), OfAgent(t.agent))
    <3> DEFINE s == At(byAgent, t.agent)
    <3>1. AgentOf[i] = t.agent /\ DOMAIN AgentOf = DOMAIN traces
      BY <2>3 DEF AgentOf
    <3>2. {j \in DOMAIN traces : AgentOf[j] = t.agent} = OfAgent(t.agent)
      BY DEF AgentOf, OfAgent
    <3>3. Indexes(byAgent, AgentOf)
      BY <1>1 DEF RegistryInv, IndexesAreComplete
    <3>4. s \in Seq(Nat) /\ Len(s) <= MaxTraces
          /\ Lists(s, OfAgent(t.agent))
      <4>1. DOMAIN AgentOf = DOMAIN traces
        BY <3>1
      <4>2. /\ At(byAgent, AgentOf[i]) \in Seq(Nat)
            /\ Len(At(byAgent, AgentOf[i])) <= MaxTraces
            /\ Lists(At(byAgent, AgentOf[i]),
                     {j \in DOMAIN traces : AgentOf[j] = AgentOf[i]})
        BY <2>2, <3>3, <4>1, Zenon
      <4> QED
        BY <3>1, <3>2, <4>2
    <3> DEFINE Page(at, l) == TracePage(s, at, l)
    <3> HIDE DEF s
    <3>5. ReadAll(Page, limit) = s
      BY <2>4, <3>4, PagesGiveAll
    <3>6. ReadAll(PA, limit) = ReadAll(Page, limit)
      BY DEF ReadAll, TracesByAgent, s
    <3> QED
      BY <3>4, <3>5, <3>6
  <2>7. Lists(ReadAll(PX, limit), OfAction(t.market, t.action))
    <3> DEFINE s == At(byAction, <<t.market, t.action>>)
    <3>1. /\ ActionOf[i] = <<t.market, t.action>>
          /\ DOMAIN ActionOf = DOMAIN traces
      BY <2>3 DEF ActionOf
    <3>2. {j \in DOMAIN traces : ActionOf[j] = <<t.market, t.action>>}
              = OfAction(t.market, t.action)
      BY DEF ActionOf, OfAction, OfMarket
    <3>3. Indexes(byAction, ActionOf)
      BY <1>1 DEF RegistryInv, IndexesAreComplete
    <3>4. s \in Seq(Nat) /\ Len(s) <= MaxTraces
          /\ Lists(s, OfAction(t.market, t.action))
      <4>1. DOMAIN ActionOf = DOMAIN traces
        BY <3>1
      <4>2. /\ At(byAction, ActionOf[i]) \in Seq(Nat)
            /\ Len(At(byAction, ActionOf[i])) <= MaxTraces
            /\ Lists(At(byAction, ActionOf[i]),
                     {j \in DOMAIN traces : ActionOf[j] = ActionOf[i]})
        BY <2>2, <3>3, <4>1, Zenon
      <4> QED
        BY <3>1, <3>2, <4>2
    <3> DEFINE Page(at, l) == TracePage(s, at, l)
    <3> HIDE DEF s
    <3>5. ReadAll(Page, limit) = s
      BY <2>4, <3>4, PagesGiveAll
    <3>6. ReadAll(PX, limit) = ReadAll(Page, limit)
      BY DEF ReadAll, TracesByMarketAction, s
    <3> QED
      BY <3>4, <3>5, <3>6
  <2> QED
    BY <2>5, <2>6, <2>7
<1>2. RouterInv => RegistryInv
  BY DEF RouterInv
<1> QED
  BY <1>1, <1>2, RouterInvariance, PTL
=============================================================================
