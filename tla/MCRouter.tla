------------------------------ MODULE MCRouter ------------------------------
(***************************************************************************)
(* The commitment flows, the reasoning registry, the router and the sale   *)
(* of traces for TLC.  As in MCTreasury a behaviour keeps to one lane,     *)
(* chosen at the start; in the last one nothing but the sale runs.         *)
(***************************************************************************)
EXTENDS Router, Payments

CONSTANT Depth      \* the lanes, and the most steps a behaviour of each takes
VARIABLES lane, step

-----------------------------------------------------------------------------
(* Rules, envelopes and command lines.                                     *)

Num(n) == [is |-> "number", of |-> n]
Addr(a) == [is |-> "address", of |-> a]
Xlm == [is |-> "asset", of |-> "xlm"]
Hex(h) == [is |-> "hex32", of |-> h]
Key(k, w) == [is |-> "key", of |-> [pubkey |-> k, weight |-> w]]
Panel(k, members) ==
    [is |-> "committee", of |-> [k |-> k, members |-> members]]
Decimal(int, frac) ==
    [is |-> "decimal", of |-> [kind |-> "decimal", digits |-> TRUE,
                               int |-> int, frac |-> frac]]

TwoSigners == SignerConfig(<<"s1", "s2">>, 2, 10)
AbovePrice == PriceConfig("feed", "xlm", 3, "above", 5)
NegativePrice == PriceConfig("feed", "xlm", -1, "above", 5)
Scaled == ScaledPriceConfig("feed", "xlm", 150, 2, "below", 5)
TooFine == ScaledPriceConfig("feed", "xlm", 150, 4, "below", 5)
Twap == TwapConfig("feed", "xlm", 3, "above", 6, 2, 3)
Weighted == WeightedKeyConfig(<<[pubkey |-> "k1", weight |-> 1],
                                [pubkey |-> "k2", weight |-> 2]>>, 3, 10)
TwiceWeighted == WeightedKeyConfig(<<[pubkey |-> "k1", weight |-> 1],
                                     [pubkey |-> "k1", weight |-> 2]>>, 3, 10)
ByPanel == [by |-> "committee", k |-> 1, members |-> <<"s3">>]
ByOwnSigner == [by |-> "committee", k |-> 1, members |-> <<"s1">>]
Disputable == DisputableSignerConfig(TwoSigners, 7, ByPanel, 20)
Partial == DisputableSignerConfig(TwoSigners, 7, ByOwnSigner, 20)
Guarded == DisputableSignerConfig(TwoSigners, 7, [by |-> "guardian"], 20)
Sitting == CommitteeRef(1, 2, 1, 10)
Hybrid == HybridConfig(AbovePrice, TwoSigners, 9)
Hasty == HybridConfig(AbovePrice, TwoSigners, 4)

TheRules ==
    {TwoSigners, AbovePrice, NegativePrice, Scaled, TooFine, Twap, Weighted,
     TwiceWeighted, Disputable, Partial, Guarded, Sitting, Hybrid, Hasty}

Envelope(core, rule) == ResolutionSpecV2(2, "net", core, "salt", rule)

TheEnvelopes ==
    {Envelope("core", TwoSigners), Envelope("core", AbovePrice),
     Envelope("core", NegativePrice), Envelope("core", Sitting),
     Envelope("other", TwoSigners),
     ResolutionSpecV2(2, "net", "core", "zero", TwoSigners),
     ResolutionSpecV2(2, "othernet", "core", "salt", TwoSigners)}

Line(args, rule, v2) == [args |-> args, rule |-> rule, v2 |-> v2]
Signers == <<Word("signers"), Num(2), Num(10), Addr("s1"), Addr("s2")>>
InEnvelope(core) ==
    <<Word("--v2"), Word("--salt"), Hex("salt"), Word("--network-passphrase"),
      Hex("net"), Word("--market-core"), Addr(core)>>
ScaledArgs == <<Word("price-scaled"), Addr("feed"), Xlm>>
Price == <<Addr("feed"), Xlm, Num(3), Word("above"), Num(5)>>

ThePlaceholder == [domain |-> "placeholder", of |-> Err]

(* One per rule, the two spellings of a scaled threshold, an envelope      *)
(* before and after the rule, and lines the tool refuses.                  *)
TheCommands ==
    {Line(Signers, TwoSigners, Err),
     Line(<<Word("price")>> \o Price, AbovePrice, Err),
     Line(<<Word("price"), Addr("feed"), Xlm, Num(-1), Word("above"), Num(5)>>,
          NegativePrice, Err),
     Line(ScaledArgs \o <<Num(150), Num(2), Word("below"), Num(5)>>,
          Scaled, Err),
     Line(ScaledArgs \o <<Word("below"), Num(5), Word("--decimal"),
                          Decimal(<<1>>, <<5, 0>>)>>, Scaled, Err),
     Line(<<Word("price-twap"), Addr("feed"), Xlm, Num(3), Word("above"),
            Num(6), Num(2), Num(3)>>, Twap, Err),
     Line(<<Word("weighted-keys"), Num(3), Num(10), Key("k1", 1), Key("k2", 2)>>,
          Weighted, Err),
     Line(<<Word("signers-disputable"), Num(2), Num(10), Num(7), Num(20),
            Panel(1, <<"s3">>), Addr("s1"), Addr("s2")>>, Disputable, Err),
     Line(<<Word("signers-disputable"), Num(2), Num(10), Num(7), Num(20),
            Word("guardian"), Addr("s1"), Addr("s2")>>, Guarded, Err),
     Line(<<Word("committee"), Num(1), Num(2), Num(1), Num(10)>>, Sitting, Err),
     Line(<<Word("hybrid"), Num(9)>> \o Price \o <<Word("--")>> \o From(Signers, 2),
          Hybrid, Err),
     Line(Signers \o InEnvelope("core"), TwoSigners,
          [salt |-> "salt", network |-> "net", core |-> "core"]),
     Line(<<Word("committee"), Num(1), Num(2), Num(1), Num(10)>> \o
          InEnvelope("core"), Sitting,
          [salt |-> "salt", network |-> "net", core |-> "core"]),
     Line(InEnvelope("other") \o Signers, TwoSigners,
          [salt |-> "salt", network |-> "net", core |-> "other"]),
     Line(<<Word("price")>> \o Price \o <<Word("--decimal"),
          Decimal(<<1>>, << >>)>>, AbovePrice, Err),
     Line(Signers \o <<Word("--v2")>>, TwoSigners, Err),
     Line(<<Word("verify"), Hex(ThePlaceholder)>> \o Signers, TwoSigners, Err)}

Act(kind, name) == [kind |-> kind, name |-> name]
TheActions == {Act("known", "buy"), Act("known", "propose_market"),
               Act("other", "note"), Act("other", "buy")}

-----------------------------------------------------------------------------
(* The lanes.                                                              *)

CommitLane ==
    /\ CommitNext
    /\ Cardinality(printed') <= 1
    /\ UNCHANGED <<registryVars, trades>>

MarketStep == CreateMarket(Placeholder) /\ UNCHANGED <<registryVars, trades>>

Registration ==
    \E a \in Agents :
        RegisterAgent(a) \/ RetireAgent(a) \/ ReactivateAgent(a)

MarketReferences == {NoMarket} \cup Ids

(* Plain and chained publishing, and an agent that comes and goes.         *)
ChainLane ==
    \/ MarketStep
    \/ /\ \/ Registration
          \/ \E a \in Agents, h \in Hashes, m \in MarketReferences, act \in Actions :
                 PublishTrace(a, m, act, h, MarketCount)
          \/ \E a \in Agents, h \in Hashes, m \in {NoMarket},
                seq \in 1 .. MaxTraces, prev \in Hashes \cup {Genesis} :
                 PublishChainedTrace(a, m, Act("other", "note"), h, seq, prev,
                                     MarketCount)
       /\ UNCHANGED <<commitVars, trades>>

(* Two agents, their keys, and what they signed.                           *)
KeyLane ==
    /\ \/ Registration
       \/ \E a \in Agents, k \in Keys :
             AddSigningKey(a, k) \/ RetireSigningKey(a, k)
       \/ \E a \in Agents, h \in {"h1"}, k \in Keys :
             \/ PublishTraceSigned(a, NoMarket, Act("other", "note"), h, k, 0)
             \/ \E seq \in 1 .. 2, prev \in {"h1", Genesis} :
                    PublishChainedTraceSigned(a, NoMarket, Act("other", "note"),
                                              h, seq, prev, k, 0)
    /\ UNCHANGED <<commitVars, trades>>

(* Traces judged, flagged, consumed and batched as time passes.            *)
JudgeLane ==
    /\ \/ Advance
       \/ \E a \in Agents : RegisterAgent(a)
       \/ \E a \in Agents, from \in 0 .. MaxNow : RevokeAgent(a, from)
       \/ \E a \in Agents :
             PublishTrace(a, NoMarket, Act("other", "note"), "h1", 0)
       \/ \E id \in 1 .. MaxTraces, on \in BOOLEAN : FlagTrace(id, on)
       \/ \E c \in Consumers :
             \/ \E on \in BOOLEAN : SetConsumer(c, on)
             \/ \E id \in 1 .. MaxTraces : ConsumeTrace(c, id)
       \/ \E a \in Agents : Len(batches) = 0 /\ PublishTraceBatch(a, "root", 2)
    /\ UNCHANGED <<commitVars, trades>>

(* Routed and direct buys by an agent that also publishes on its own.      *)
BuyLane ==
    \/ MarketStep
    \/ /\ \/ \E id \in Ids : Settle(id, "Expired")
          \/ \E s \in TheEnvelopes : RouterCreate(s)
       /\ UNCHANGED <<registryVars, trades>>
    \/ Registration /\ UNCHANGED <<commitVars, trades>>
    \/ \E a \in Agents, id \in Ids :
           \/ Buy(a, id)
           \/ \E act \in Actions : BuyAndPublishTrace(a, id, act, "h1")
           \/ /\ PublishChainedTrace(a, id, Act("other", "note"), "h2", 1,
                                     Genesis, MarketCount)
              /\ UNCHANGED <<commitVars, trades>>

TheDepth == [commit |-> 6, chain |-> 6, key |-> 8, judge |-> 6, buy |-> 7,
             pay |-> 0]

MCInit == RouterInit /\ PayInit /\ lane \in DOMAIN Depth /\ step = 0

MCNext ==
    /\ \/ /\ step < Depth[lane] /\ step' = step + 1
          /\ \/ lane = "commit" /\ CommitLane
             \/ lane = "chain" /\ ChainLane
             \/ lane = "key" /\ KeyLane
             \/ lane = "judge" /\ JudgeLane
             \/ lane = "buy" /\ BuyLane
          /\ UNCHANGED payVars
       \/ lane = "pay" /\ PayNext /\ UNCHANGED <<routerVars, step>>
    /\ UNCHANGED lane

MCSpec == MCInit /\ [][MCNext]_<<routerVars, payVars, lane, step>>
=============================================================================
