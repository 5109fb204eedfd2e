----------------------------- MODULE Commitment -----------------------------
(***************************************************************************)
(* How a market gets its resolution rule: the tool that prints the hash,   *)
(* market-core's create_market that stores it, the resolver's register_*   *)
(* entrypoints that take the rule behind it, and the two compound flows    *)
(* that do both in one transaction: contracts/router and the treasury's    *)
(* agent_create_market_and_reveal.                                         *)
(*                                                                         *)
(* Every entrypoint is one transaction: an Err of any call in it rolls all *)
(* of it back, so a compound flow is one action whose guard is the         *)
(* conjunction of the guards of its calls.  create_market's own conditions *)
(* are in MarketCore and what follows a reveal is in Resolver; here a      *)
(* market has its hash and where it came from.                             *)
(***************************************************************************)
EXTENDS SpecHash

CONSTANTS
    Core,           \* market-core of the router, the treasury and the resolver
    Commands,       \* command lines: [args, rule, v2], with what they mean
    Rules,          \* rules somebody may try to reveal
    Envelopes,      \* ResolutionSpecV2 values somebody may try to reveal
    Placeholder,    \* a hash nobody knows a rule for
    Committees,     \* committee ids
    Periods,        \* what a feed may answer to resolution(); 0 if it traps
    MaxMarkets,     \* bound: markets created
    MaxEpoch        \* bound: rotations of a committee

ASSUME CommitmentAssumption == MaxMarkets \in Nat

VARIABLES
    markets,        \* resolution_hash and origin of each market, in order
    entries,        \* Price, Signers, ... entries of each market: its rules
    rstate,         \* State of each market in the resolver
    epochs,         \* epoch of each Committee, 0 if there is none
    printed         \* hashes the tool printed, with the command

commitVars == <<markets, entries, rstate, epochs, printed>>

Ids == 1 .. MaxMarkets
Closed(s) == s \in {"Finalized", "Expired"}

-----------------------------------------------------------------------------
(* The tool.                                                               *)

PrintHash(c) ==
    LET r == RunTool(c.args) IN
    /\ r.out = "hash"
    /\ printed' = printed \cup {[command |-> c, hash |-> r.hash]}
    /\ UNCHANGED <<markets, entries, rstate, epochs>>

-----------------------------------------------------------------------------
(* market-core.                                                            *)

Created(hash, by) == Append(markets, [hash |-> hash, by |-> by])

CreateMarket(hash) ==
    /\ Len(markets) < MaxMarkets
    /\ markets' = Created(hash, "create_market")
    /\ UNCHANGED <<entries, rstate, epochs, printed>>

-----------------------------------------------------------------------------
(* The resolver.                                                           *)

(* assert_unconfigured().                                                  *)
Unconfigured(id) == ~Closed(rstate[id]) /\ entries[id] = {}

(* assert_matches_commitment(), on the markets ms.                         *)
Matches(ms, id, hash) == id \in DOMAIN ms /\ ms[id].hash = hash

StateOf(rule) ==
    CASE rule.kind \in {"price", "scaled", "twap"} -> "Unconfigured"
      [] rule.kind = "hybrid" -> "HybridPricePending"
      [] OTHER -> "SignersPending"

(* store_rule(), store_scaled_rule(), store_twap_rule().                   *)
StoreRule(id, rule) ==
    /\ entries' = [entries EXCEPT ![id] = @ \cup {rule}]
    /\ rstate' = [rstate EXCEPT ![id] = StateOf(rule)]

(* reveal(), against the markets ms.                                       *)
MayReveal(ms, id, rule, hash) ==
    Unconfigured(id) /\ RuleOk(rule) /\ Matches(ms, id, hash)

(* register_price_spec, register_signer_spec, register_disputable_spec,    *)
(* register_weighted_key_spec and register_hybrid_spec.                    *)
MayRegister(id, rule) ==
    /\ rule.kind \in {"price", "signers", "disputable", "weighted", "hybrid"}
    /\ MayReveal(markets, id, rule, LegacySpecHash(rule))

MayRegisterScaled(id, rule) ==
    /\ rule.kind = "scaled"
    /\ Unconfigured(id) /\ ScaledOk(rule)
    /\ Matches(markets, id, ScaledSpecHash(rule))

MayRegisterTwap(id, rule, period) ==
    /\ rule.kind = "twap"
    /\ Unconfigured(id) /\ TwapOk(rule, period)
    /\ Matches(markets, id, TwapSpecHash(rule))

CommitteeUsable(rule) ==
    /\ rule.committee_id \in DOMAIN epochs
    /\ epochs[rule.committee_id] # 0
    /\ epochs[rule.committee_id] >= rule.min_epoch

MayRegisterCommittee(id, rule) ==
    /\ rule.kind = "committee"
    /\ Unconfigured(id)
    /\ CommitteeUsable(rule) /\ rule.dispute_window # 0
    /\ Matches(markets, id, LegacySpecHash(rule))

MayRegisterV2(ms, id, spec) ==
    /\ EnvelopeOk(spec, Core)
    /\ MayReveal(ms, id, spec.rule, SpecV2Hash(spec))

Register(id, rule, period) ==
    /\ \/ MayRegister(id, rule)
       \/ MayRegisterScaled(id, rule)
       \/ MayRegisterTwap(id, rule, period)
       \/ MayRegisterCommittee(id, rule)
    /\ StoreRule(id, rule)
    /\ UNCHANGED <<markets, epochs, printed>>

RegisterSpecV2(id, spec) ==
    /\ MayRegisterV2(markets, id, spec)
    /\ StoreRule(id, spec.rule)
    /\ UNCHANGED <<markets, epochs, printed>>

CreateCommittee(c) ==
    /\ epochs[c] = 0
    /\ epochs' = [epochs EXCEPT ![c] = 1]
    /\ UNCHANGED <<markets, entries, rstate, printed>>

RotateCommittee(c) ==
    /\ epochs[c] \in 1 .. MaxEpoch - 1
    /\ epochs' = [epochs EXCEPT ![c] = @ + 1]
    /\ UNCHANGED <<markets, entries, rstate, printed>>

(* Resolution, expiry and guardian voids: the market ends, revealed or not. *)
Settle(id, s) ==
    /\ id \in DOMAIN markets /\ ~Closed(rstate[id])
    /\ s = "Finalized" => entries[id] # {}
    /\ rstate' = [rstate EXCEPT ![id] = s]
    /\ UNCHANGED <<markets, entries, epochs, printed>>

-----------------------------------------------------------------------------
(* The compound flows.                                                     *)

(* The market is created with the hash of the very envelope that is then   *)
(* revealed for the id create_market returned.                             *)
CreateAndReveal(spec, by) ==
    LET id == Len(markets) + 1 IN
    /\ id <= MaxMarkets
    /\ markets' = Created(SpecV2Hash(spec), by)
    /\ MayRegisterV2(markets', id, spec)
    /\ StoreRule(id, spec.rule)
    /\ UNCHANGED <<epochs, printed>>

(* create_and_reveal_signers, create_and_reveal_price.                     *)
RouterCreate(spec) ==
    /\ EnvelopeOk(spec, Core) /\ PrimaryRuleOk(spec.rule)
    /\ CreateAndReveal(spec, "router")

RouterReveal(id, spec) ==
    /\ EnvelopeOk(spec, Core) /\ PrimaryRuleOk(spec.rule)
    /\ RegisterSpecV2(id, spec)

(* resolve_commitment() leaves the market-core of the envelope to the      *)
(* resolver.                                                               *)
TreasuryCommits(spec) ==
    /\ spec.version = 2 /\ spec.salt # ZeroSalt
    /\ spec.network_id = Network
    /\ PrimaryRuleOk(spec.rule)

AgentCreateMarketAndReveal(spec) ==
    TreasuryCommits(spec) /\ CreateAndReveal(spec, "treasury")

-----------------------------------------------------------------------------
CommitInit ==
    /\ markets = << >>
    /\ entries = [id \in Ids |-> {}]
    /\ rstate = [id \in Ids |-> "Unrevealed"]
    /\ epochs = [c \in Committees |-> 0]
    /\ printed = {}

CommitNext ==
    \/ \E c \in Commands : PrintHash(c)
    \/ \E h \in {p.hash : p \in printed} \cup {Placeholder} : CreateMarket(h)
    \/ \E id \in Ids, r \in Rules, p \in Periods : Register(id, r, p)
    \/ \E id \in Ids, s \in Envelopes : RegisterSpecV2(id, s)
    \/ \E id \in Ids, s \in Envelopes : RouterReveal(id, s)
    \/ \E s \in Envelopes : RouterCreate(s)
    \/ \E s \in Envelopes : AgentCreateMarketAndReveal(s)
    \/ \E c \in Committees : CreateCommittee(c) \/ RotateCommittee(c)
    \/ \E id \in Ids, s \in {"Finalized", "Expired"} : Settle(id, s)

-----------------------------------------------------------------------------
(* What the flows promise.                                                 *)

(* The hashes that commit this deployment to a rule.                       *)
HashesOf(rule) ==
    {LegacySpecHash(rule), ScaledSpecHash(rule), TwapSpecHash(rule)} \cup
    {SpecV2Hash(s) : s \in {e \in Envelopes : /\ e.rule = rule
                                              /\ e.market_core = Core
                                              /\ e.network_id = Network}}

(* Whoever reveals, through whichever entrypoint and flow, and whatever    *)
(* envelopes of other deployments are about, the resolver holds at most    *)
(* one rule for a market, and it is the one that market's creator          *)
(* committed to for this network and this market-core.                     *)
RevealedIsCommitted ==
    \A id \in Ids :
        /\ Cardinality(entries[id]) <= 1
        /\ \A r \in entries[id] :
               id \in DOMAIN markets /\ markets[id].hash \in HashesOf(r)

(* What a command line means, revealed by its author.                      *)
AuthorMayReveal(id, c) ==
    IF c.v2 # Err
    THEN MayRegisterV2(markets, id,
                       ResolutionSpecV2(2, c.v2.network, c.v2.core, c.v2.salt,
                                        c.rule))
    ELSE \/ MayRegister(id, c.rule) \/ MayRegisterScaled(id, c.rule)
         \/ \E p \in Periods : MayRegisterTwap(id, c.rule, p)
         \/ MayRegisterCommittee(id, c.rule)

AuthorIsRight(c) ==
    /\ CASE c.rule.kind = "scaled" -> ScaledOk(c.rule)
         [] c.rule.kind = "twap" -> \E p \in Periods : TwapOk(c.rule, p)
         [] c.rule.kind = "committee" ->
                c.rule.dispute_window # 0 /\ CommitteeUsable(c.rule)
         [] OTHER -> RuleOk(c.rule)
    /\ c.v2 # Err => /\ c.v2.network = Network /\ c.v2.core = Core
                     /\ c.v2.salt # ZeroSalt

(* The tool does not drift from the contract: a market created with the    *)
(* hash the tool printed can be revealed by whoever typed the command,     *)
(* until it ends, as long as the rule is one the resolver takes.           *)
PrintedIsRevealable ==
    \A p \in printed : \A id \in DOMAIN markets :
        /\ AuthorIsRight(p.command)
        /\ markets[id].hash = p.hash /\ Unconfigured(id)
        => AuthorMayReveal(id, p.command)

-----------------------------------------------------------------------------
(* Why: the types, and the promise itself.                                 *)

(* Every hash a market can have, and every rule it can be given.           *)
HashType ==
    {Placeholder} \cup
    {RunTool(c.args).hash :
        c \in {d \in Commands : RunTool(d.args).out = "hash"}}
    \cup {SpecV2Hash(s) : s \in Envelopes}
RuleType == Rules \cup {s.rule : s \in Envelopes}
MarketType == [hash : HashType, by : {"create_market", "router", "treasury"}]

(* A type invariant of the commitment flows.                               *)
CommitType ==
    /\ markets \in Seq(MarketType) /\ Len(markets) <= MaxMarkets
    /\ entries \in [Ids -> SUBSET RuleType]
    /\ DOMAIN rstate = Ids
    /\ printed \in SUBSET [command : Commands, hash : HashType]

CommitInv == CommitType /\ RevealedIsCommitted
=============================================================================
