------------------------------ MODULE Registry ------------------------------
(***************************************************************************)
(* contracts/reasoning-registry: who may publish reasoning traces, the     *)
(* traces with their indexes and per-agent hash chains, signing keys,      *)
(* flags, consumers and Merkle batches.  Market and trace ids count from 1 *)
(* here and from 0 in the code.                                            *)
(*                                                                         *)
(* The source as committed does not compile: a merge left the end of       *)
(* publish_trace's old checks and the two secondary indexes of write_trace *)
(* inside publish_trace_batch (lines 918-964).  The model has them where   *)
(* the names they use come from: in check_publish and write_trace.         *)
(***************************************************************************)
EXTENDS Integers, Sequences, FiniteSets, SequencesExt

CONSTANTS
    Agents, Keys, Consumers,
    Hashes,         \* trace hashes; Genesis is the all-zero one
    Genesis,
    Actions,        \* TraceAction values: [kind, name]
    MaxTraces,      \* bound: traces published
    MaxNow,         \* bound: the last ledger timestamp
    MaxKeys,        \* MAX_AGENT_SIGNING_KEYS
    MaxFlags,       \* flag history entries of a trace, 16
    MaxPage,        \* MAX_PAGE_SIZE
    NoMarket,       \* NO_MARKET
    Nobody          \* an absent entry

ASSUME RegistryAssumption ==
    /\ MaxTraces \in Nat /\ MaxNow \in Nat /\ MaxPage \in Nat
    /\ Nobody \notin Agents
    /\ \A n \in 0 .. MaxNow : <<n>> # Nobody

VARIABLES
    clock,          \* ledger timestamp
    agents,         \* Agent: [status, at, since], status "none" if absent
    traces,         \* Trace with its TraceLink and TraceSignature, by id
    heads,          \* AgentHead
    chain,          \* AgentTrace: the ids of an agent's chain, by seq
    byMarket,       \* MarketTrace
    byAgent,        \* AgentTraceAt
    byAction,       \* MarketActionTraceAt, by <<market, action>>
    consumers, consumed,
    flags,          \* FlagHistory of each trace; its last is Flag
    keys,           \* AgentSigningKeys
    bound,          \* KeyToAgent
    history,        \* SigningKeyHistory
    batches         \* Batch

published == <<traces, heads, chain, byMarket, byAgent, byAction>>
keyring == <<keys, bound, history>>
registryVars == <<clock, agents, published, consumers, consumed, flags,
                  keyring, batches>>

-----------------------------------------------------------------------------
(* Agents.                                                                 *)

NoAgent == [status |-> "none", at |-> 0, since |-> 0]

RegisterAgent(a) ==
    /\ agents[a].status = "none"
    /\ agents' = [agents EXCEPT ![a] = [status |-> "active", at |-> clock,
                                        since |-> clock]]
    /\ UNCHANGED <<clock, published, consumers, consumed, flags, keyring,
                   batches>>

(* Mutant: retiring forgets the chain.                                     *)
RetireForgetsChain(a) ==
    /\ agents[a].status \in {"active", "retired"}
    /\ agents' = [agents EXCEPT ![a].status = "retired", ![a].at = clock]
    /\ heads' = [heads EXCEPT ![a] = [seq |-> 0, hash |-> Genesis, id |-> 0]]
    /\ UNCHANGED <<clock, traces, chain, byMarket, byAgent, byAction,
                   consumers, consumed, flags, keyring, batches>>

(* retire_agent, retire_self, unregister_agent: the record and the chain   *)
(* head stay.                                                              *)
RetireAgent(a) ==
    /\ agents[a].status \in {"active", "retired"}
    /\ agents' = [agents EXCEPT ![a].status = "retired", ![a].at = clock]
    /\ UNCHANGED <<clock, published, consumers, consumed, flags, keyring,
                   batches>>

ReactivateAgent(a) ==
    /\ agents[a].status = "retired"
    /\ agents' = [agents EXCEPT ![a].status = "active"]
    /\ UNCHANGED <<clock, published, consumers, consumed, flags, keyring,
                   batches>>

(* A revoked agent may be revoked again, from another moment.              *)
RevokeAgent(a, from) ==
    /\ agents[a].status # "none"
    /\ from \in agents[a].since .. clock
    /\ agents' = [agents EXCEPT ![a].status = "revoked", ![a].at = from]
    /\ UNCHANGED <<clock, published, consumers, consumed, flags, keyring,
                   batches>>

IsRegistered(a) == agents[a].status = "active"

-----------------------------------------------------------------------------
(* Publishing.                                                             *)

CanonicalNames == {"create_market", "propose_market", "buy", "sell", "skip",
                   "redeem", "claim_remainder", "resolve"}

(* An action of kind "other" may not spell one of the variants.            *)
ActionOk(act) == act.kind = "other" => act.name \notin CanonicalNames

(* validate_reference(), when market-core has count markets.               *)
ReferenceOk(m, act, count) ==
    IF m = NoMarket
    THEN act.kind = "other" \/ act.name = "propose_market"
    ELSE /\ act.kind = "other" \/ act.name # "propose_market"
         /\ m \in 1 .. count

(* check_publish(); an empty CID is refused before anything is written.    *)
MayPublish(a, m, act, count) ==
    IsRegistered(a) /\ ActionOk(act) /\ ReferenceOk(m, act, count)

Unlinked == [seq |-> 0, prev |-> Genesis]

At(index, k) == IF k \in DOMAIN index THEN index[k] ELSE << >>
Indexed(index, k, id) ==
    [x \in DOMAIN index \cup {k} |->
        IF x = k THEN Append(At(index, k), id) ELSE index[x]]

(* write_trace(): the next id, the trace, and the three indexes; sig is    *)
(* the TraceSignature entry, Nobody for an unsigned trace.                 *)
WriteTrace(a, m, act, h, link, sig) ==
    LET id == Len(traces) + 1 IN
    /\ id <= MaxTraces
    /\ traces' = Append(traces, [market |-> m, agent |-> a, action |-> act,
                                 hash |-> h, at |-> clock, link |-> link,
                                 sig |-> sig])
    /\ byMarket' = Indexed(byMarket, m, id)
    /\ byAgent' = Indexed(byAgent, a, id)
    /\ byAction' = Indexed(byAction, <<m, act>>, id)

(* publish_trace(): refused once the agent keeps a chain.                  *)
PublishTrace(a, m, act, h, count) ==
    /\ MayPublish(a, m, act, count)
    /\ heads[a].seq = 0
    /\ WriteTrace(a, m, act, h, Unlinked, Nobody)
    /\ UNCHANGED <<clock, agents, heads, chain, consumers, consumed, flags,
                   keyring, batches>>

(* The caller names the seq it extends and the hash it follows.            *)
ExtendsHead(a, seq, prev) == seq = heads[a].seq + 1 /\ prev = heads[a].hash

WriteChained(a, m, act, h, seq, prev, sig) ==
    /\ WriteTrace(a, m, act, h, [seq |-> seq, prev |-> prev], sig)
    /\ chain' = [chain EXCEPT ![a] = Append(@, Len(traces) + 1)]
    /\ heads' = [heads EXCEPT ![a] = [seq |-> seq, hash |-> h,
                                      id |-> Len(traces) + 1]]

PublishChainedTrace(a, m, act, h, seq, prev, count) ==
    /\ MayPublish(a, m, act, count)
    /\ ExtendsHead(a, seq, prev)
    /\ WriteChained(a, m, act, h, seq, prev, Nobody)
    /\ UNCHANGED <<clock, agents, consumers, consumed, flags, keyring,
                   batches>>

(* trace_attestation_message(): neither the CID nor the place in the chain *)
(* is signed.                                                              *)
TraceAttestationMessage(a, m, act, h) ==
    [agent |-> a, market |-> m, action |-> act, hash |-> h]

SignedBy(key, a, m, act, h) ==
    [key |-> key, msg |-> TraceAttestationMessage(a, m, act, h)]

(* The signed variants: the key is one of the agent's.                     *)
PublishTraceSigned(a, m, act, h, key, count) ==
    /\ MayPublish(a, m, act, count)
    /\ heads[a].seq = 0
    /\ key \in keys[a]
    /\ WriteTrace(a, m, act, h, Unlinked, SignedBy(key, a, m, act, h))
    /\ UNCHANGED <<clock, agents, heads, chain, consumers, consumed, flags,
                   keyring, batches>>

PublishChainedTraceSigned(a, m, act, h, seq, prev, key, count) ==
    /\ MayPublish(a, m, act, count)
    /\ ExtendsHead(a, seq, prev)
    /\ key \in keys[a]
    /\ WriteChained(a, m, act, h, seq, prev, SignedBy(key, a, m, act, h))
    /\ UNCHANGED <<clock, agents, consumers, consumed, flags, keyring,
                   batches>>

-----------------------------------------------------------------------------
(* Signing keys.  KeyToAgent is never removed.                             *)

AddSigningKey(a, key) ==
    /\ IsRegistered(a)
    /\ bound[key] = Nobody
    /\ Cardinality(keys[a]) < MaxKeys
    /\ keys' = [keys EXCEPT ![a] = @ \cup {key}]
    /\ bound' = [bound EXCEPT ![key] = a]
    /\ history' = [history EXCEPT ![a] =
                      Append(@, [key |-> key, added |-> clock,
                                 retired |-> Nobody])]
    /\ UNCHANGED <<clock, agents, published, consumers, consumed, flags,
                   batches>>

RetiredIn(records, key) ==
    [i \in DOMAIN records |->
        IF records[i].key = key /\ records[i].retired = Nobody
        THEN [records[i] EXCEPT !.retired = <<clock>>] ELSE records[i]]

(* Mutant: a retired key is free for another agent.                        *)
RetireReleasesKey(a, key) ==
    /\ IsRegistered(a)
    /\ key \in keys[a]
    /\ keys' = [keys EXCEPT ![a] = @ \ {key}]
    /\ bound' = [bound EXCEPT ![key] = Nobody]
    /\ history' = [history EXCEPT ![a] = RetiredIn(@, key)]
    /\ UNCHANGED <<clock, agents, published, consumers, consumed, flags,
                   batches>>

RetireSigningKey(a, key) ==
    /\ IsRegistered(a)
    /\ key \in keys[a]
    /\ keys' = [keys EXCEPT ![a] = @ \ {key}]
    /\ history' = [history EXCEPT ![a] = RetiredIn(@, key)]
    /\ UNCHANGED <<clock, agents, published, bound, consumers, consumed,
                   flags, batches>>

GetSigningKeys(a) == keys[a]
GetKeyAgent(key) == bound[key]
GetTraceSignature(id) == traces[id].sig

SigningKeyHistoryCount(a) == Len(history[a])
SigningKeyHistory(a, start, limit) ==
    LET total == SigningKeyHistoryCount(a)
        end == IF start + limit < total THEN start + limit ELSE total
    IN  SubSeq(history[a], start + 1, end)

(* verify_trace_signature() of a signed trace, against the key's agent of  *)
(* today and the message its fields give.                                  *)
VerifyTraceSignature(id) ==
    LET t == traces[id]
        sig == GetTraceSignature(id)
    IN  /\ GetKeyAgent(sig.key) = t.agent
        /\ sig.msg = TraceAttestationMessage(t.agent, t.market, t.action, t.hash)

-----------------------------------------------------------------------------
(* Flags, verdicts and consumption.                                        *)

(* flag_trace and unflag_trace.                                            *)
FlagTrace(id, active) ==
    /\ id \in DOMAIN traces
    /\ Len(flags[id]) < MaxFlags
    /\ flags' = [flags EXCEPT ![id] = Append(@, active)]
    /\ UNCHANGED <<clock, agents, published, consumers, consumed, keyring,
                   batches>>

GetTraceFlag(id) == flags[id] # << >> /\ Last(flags[id])

TraceVerdict(id, h) ==
    LET t == traces[id]
        record == agents[t.agent]
    IN  CASE t.hash # h -> "HashMismatch"
          [] t.hash = h /\ GetTraceFlag(id) -> "Flagged"
          [] OTHER -> IF record.status = "revoked" /\ t.at >= record.at
                      THEN "AgentRevokedAfter" ELSE "Valid"

VerifyTrace(id, h) == TraceVerdict(id, h) = "Valid"

(* register_consumer and unregister_consumer.                              *)
SetConsumer(c, on) ==
    /\ consumers' = IF on THEN consumers \cup {c} ELSE consumers \ {c}
    /\ UNCHANGED <<clock, agents, published, consumed, flags, keyring,
                   batches>>

ConsumeTrace(c, id) ==
    /\ c \in consumers
    /\ id \in DOMAIN traces /\ id \notin consumed
    /\ consumed' = consumed \cup {id}
    /\ UNCHANGED <<clock, agents, published, consumers, flags, keyring,
                   batches>>

PublishTraceBatch(a, root, leaves) ==
    /\ IsRegistered(a)
    /\ batches' = Append(batches, [agent |-> a, root |-> root,
                                   leaves |-> leaves, at |-> clock])
    /\ UNCHANGED <<clock, agents, published, consumers, consumed, flags,
                   keyring>>

Advance ==
    /\ clock < MaxNow
    /\ clock' = clock + 1
    /\ UNCHANGED <<agents, published, consumers, consumed, flags, keyring,
                   batches>>

-----------------------------------------------------------------------------
(* Views: an agent's chain, a page of an index, and reading it to its end  *)
(* page by page.                                                           *)

AgentChainHead(a) == heads[a]
AgentTraceAt(a, seq) == chain[a][seq]
GetTraceLink(id) == traces[id].link

(* Mutant: a page starts after the cursor.                                 *)
TracePageSkips(index, start, limit) ==
    LET end == IF start + limit < Len(index) THEN start + limit ELSE Len(index)
    IN  [entries |-> SubSeq(index, start + 2, end), next |-> end]

(* trace_page(): entries start .. end - 1, counting from 0.                *)
TracePage(index, start, limit) ==
    LET end == IF start + limit < Len(index) THEN start + limit ELSE Len(index)
    IN  [entries |-> SubSeq(index, start + 1, end), next |-> end]

TracesByMarket(m, start, limit) == TracePage(At(byMarket, m), start, limit)
TracesByAgent(a, start, limit) == TracePage(At(byAgent, a), start, limit)
TracesByMarketAction(m, act, start, limit) ==
    TracePage(At(byAction, <<m, act>>), start, limit)

ReadAll(Page(_, _), limit) ==
    LET read[n \in 0 .. MaxTraces] ==
            IF n = 0 THEN [seen |-> << >>, at |-> 0]
            ELSE LET page == Page(read[n - 1].at, limit)
                 IN  [seen |-> read[n - 1].seen \o page.entries,
                      at |-> page.next]
    IN  read[MaxTraces].seen

-----------------------------------------------------------------------------
RegistryInit ==
    /\ clock = 0
    /\ agents = [a \in Agents |-> NoAgent]
    /\ traces = << >>
    /\ heads = [a \in Agents |-> [seq |-> 0, hash |-> Genesis, id |-> 0]]
    /\ chain = [a \in Agents |-> << >>]
    /\ byMarket = << >> /\ byAgent = << >> /\ byAction = << >>
    /\ consumers = {} /\ consumed = {}
    /\ flags = [id \in 1 .. MaxTraces |-> << >>]
    /\ keys = [a \in Agents |-> {}]
    /\ bound = [k \in Keys |-> Nobody]
    /\ history = [a \in Agents |-> << >>]
    /\ batches = << >>

References == {NoMarket} \cup Nat
AnyHash == Hashes \cup {Genesis}

(* Everything that can be asked of the registry when market-core has count *)
(* markets.                                                                *)
RegistryNext(count) ==
    \/ Advance
    \/ \E a \in Agents :
           \/ RegisterAgent(a) \/ RetireAgent(a) \/ ReactivateAgent(a)
           \/ \E from \in Nat : RevokeAgent(a, from)
           \/ \E key \in Keys : AddSigningKey(a, key) \/ RetireSigningKey(a, key)
           \/ \E root \in Hashes, leaves \in Nat :
                  PublishTraceBatch(a, root, leaves)
    \/ \E a \in Agents, m \in References, act \in Actions, h \in Hashes :
           \/ PublishTrace(a, m, act, h, count)
           \/ \E key \in Keys : PublishTraceSigned(a, m, act, h, key, count)
           \/ \E seq \in Nat, prev \in AnyHash :
                  \/ PublishChainedTrace(a, m, act, h, seq, prev, count)
                  \/ \E key \in Keys :
                         PublishChainedTraceSigned(a, m, act, h, seq, prev, key,
                                                   count)
    \/ \E id \in 1 .. MaxTraces, on \in BOOLEAN : FlagTrace(id, on)
    \/ \E c \in Consumers :
           \/ \E on \in BOOLEAN : SetConsumer(c, on)
           \/ \E id \in 1 .. MaxTraces : ConsumeTrace(c, id)

-----------------------------------------------------------------------------
(* What the registry promises.                                             *)

(* The sequence s is the set S in increasing order.                        *)
Lists(s, S) ==
    /\ {s[i] : i \in DOMAIN s} = S
    /\ \A i, j \in DOMAIN s : i < j => s[i] < s[j]

(* The ids of the traces a test holds of.                                  *)
OfMarket(m) == {i \in DOMAIN traces : traces[i].market = m}
OfAgent(a) == {i \in DOMAIN traces : traces[i].agent = a}
OfAction(m, act) == {i \in OfMarket(m) : traces[i].action = act}
InChain(a) == {i \in OfAgent(a) : traces[i].link.seq > 0}

(* An agent's chain has no gap and no fork, through retirement,            *)
(* reactivation and revocation, and whichever publish entrypoints the      *)
(* agent mixes: seq 1, 2, 3... each naming the hash of the one before it,  *)
(* the head the last of them; and from its first chained trace on nothing  *)
(* the agent publishes is outside the chain.                               *)
ChainsAreComplete ==
    \A a \in Agents :
        LET head == AgentChainHead(a)
            ids == [seq \in 1 .. head.seq |-> AgentTraceAt(a, seq)]
        IN  /\ Lists(ids, InChain(a))
            /\ head.seq > 0 => /\ head.id = ids[head.seq]
                               /\ head.hash = traces[head.id].hash
            /\ \A s \in 1 .. head.seq :
                   GetTraceLink(ids[s]) =
                       [seq |-> s,
                        prev |-> IF s = 1 THEN Genesis
                                 ELSE traces[ids[s - 1]].hash]
            /\ \A i \in OfAgent(a) :
                   head.seq > 0 /\ i >= ids[1] => i \in InChain(a)

(* The three indexes agree with the traces: reading one to its end, with   *)
(* pages of any size, yields exactly the traces of that market, agent or   *)
(* market and action, in the order they were published.                    *)
IndexesAgree ==
    \A limit \in 1 .. MaxPage :
        \A t \in Range(traces) :
            LET PM(s, l) == TracesByMarket(t.market, s, l)
                PA(s, l) == TracesByAgent(t.agent, s, l)
                PX(s, l) == TracesByMarketAction(t.market, t.action, s, l)
            IN  /\ Lists(ReadAll(PM, limit), OfMarket(t.market))
                /\ Lists(ReadAll(PA, limit), OfAgent(t.agent))
                /\ Lists(ReadAll(PX, limit), OfAction(t.market, t.action))

(* A signed trace stays attributable: whatever keys are added and retired  *)
(* later, by whichever agents, its signature still verifies; a key was     *)
(* only ever in one agent's hands, once; and the keys an agent may sign    *)
(* with are the ones its history, read page by page, does not show as      *)
(* retired.                                                                *)
SignaturesStayAttributable ==
    LET Records(a) == UNION {Range(SigningKeyHistory(a, i, 1)) :
                               i \in 0 .. SigningKeyHistoryCount(a) - 1}
    IN  /\ \A id \in DOMAIN traces :
               GetTraceSignature(id) # Nobody => VerifyTraceSignature(id)
        /\ \A a, b \in Agents : \A r \in Records(a), q \in Records(b) :
               r.key = q.key => a = b /\ r = q
        /\ \A a \in Agents : GetSigningKeys(a) =
               {r.key : r \in {q \in Records(a) : q.retired = Nobody}}

-----------------------------------------------------------------------------
(* Why it keeps its promises: the invariant that is inductive.             *)

TraceType ==
    [market : References, agent : Agents, action : Actions, hash : Hashes,
     at : 0 .. MaxNow, link : [seq : Nat, prev : AnyHash],
     sig : {Nobody} \cup
           [key : Keys, msg : [agent : Agents, market : References,
                               action : Actions, hash : Hashes]]]

KeyRecord ==
    [key : Keys, added : 0 .. MaxNow,
     retired : {Nobody} \cup {<<n>> : n \in 0 .. MaxNow}]

(* A type invariant of what is published and of the keys.                  *)
RegistryType ==
    /\ clock \in 0 .. MaxNow
    /\ traces \in Seq(TraceType) /\ Len(traces) <= MaxTraces
    /\ heads \in [Agents -> [seq : Nat, hash : AnyHash, id : Nat]]
    /\ chain \in [Agents -> Seq(Nat)]
    /\ keys \in [Agents -> SUBSET Keys]
    /\ bound \in [Keys -> Agents \cup {Nobody}]
    /\ history \in [Agents -> Seq(KeyRecord)]

(* The chain entries of an agent are its head read backwards.              *)
ChainInv(a) ==
    /\ Len(chain[a]) = heads[a].seq
    /\ Lists(chain[a], InChain(a))
    /\ \A s \in DOMAIN chain[a] :
           traces[chain[a][s]].link =
               [seq |-> s, prev |-> IF s = 1 THEN Genesis
                                    ELSE traces[chain[a][s - 1]].hash]
    /\ IF heads[a].seq = 0 THEN heads[a].hash = Genesis
       ELSE /\ heads[a].id = chain[a][heads[a].seq]
            /\ heads[a].hash = traces[heads[a].id].hash
    /\ \A i \in OfAgent(a) :
           heads[a].seq > 0 /\ i >= chain[a][1] => i \in InChain(a)

(* The index lists, under each key, the traces that have the key.          *)
Indexes(index, key) ==
    /\ \A k \in DOMAIN index :
           /\ index[k] \in Seq(Nat)
           /\ Lists(index[k], {i \in DOMAIN key : key[i] = k})
    /\ \A i \in DOMAIN key : key[i] \in DOMAIN index

MarketOf == [i \in DOMAIN traces |-> traces[i].market]
AgentOf == [i \in DOMAIN traces |-> traces[i].agent]
ActionOf == [i \in DOMAIN traces |-> <<traces[i].market, traces[i].action>>]

(* Every index is complete and in the order of publication.                *)
IndexesAreComplete ==
    /\ Indexes(byMarket, MarketOf)
    /\ Indexes(byAgent, AgentOf)
    /\ Indexes(byAction, ActionOf)

(* A key in an agent's history is bound to the agent, is there once, and   *)
(* is a key of the agent until the history says it was retired.            *)
KeyInv(a) ==
    /\ \A i, j \in DOMAIN history[a] :
           history[a][i].key = history[a][j].key => i = j
    /\ \A i \in DOMAIN history[a] :
           /\ bound[history[a][i].key] = a
           /\ history[a][i].retired = Nobody => history[a][i].key \in keys[a]
    /\ \A k \in keys[a] : \E i \in DOMAIN history[a] :
           history[a][i].key = k /\ history[a][i].retired = Nobody

RegistryInv ==
    /\ RegistryType /\ IndexesAreComplete
    /\ \A a \in Agents : ChainInv(a) /\ KeyInv(a)
    /\ \A i \in DOMAIN traces :
           traces[i].sig # Nobody => VerifyTraceSignature(i)
=============================================================================
