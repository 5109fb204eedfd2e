------------------------------ MODULE SpecHash ------------------------------
(***************************************************************************)
(* The resolution rules of oracledesk-types and contracts/resolver, the    *)
(* hashes a market may commit to, the validation of a revealed rule, and   *)
(* scripts/spec-hash, the tool that prints the hash of a rule given on its *)
(* command line.                                                           *)
(*                                                                         *)
(* SHA-256 is injective here and XDR encodes a value, its type and its     *)
(* field names: a hash is the pair of a domain and the encoded value.  A   *)
(* command line is a sequence of tokens that are already lexed: whether a  *)
(* word is a number, an address (strkey) or a key is its field "is".       *)
(***************************************************************************)
EXTENDS Integers, Sequences, FiniteSets, SequencesExt

CONSTANTS
    Network,        \* env.ledger().network_id()
    ZeroSalt,       \* the all-zero salt
    MaxDecimals,    \* MAX_THRESHOLD_DECIMALS
    MaxTwapSamples, \* MAX_TWAP_SAMPLES
    MaxWeighted     \* MAX_WEIGHTED_SIGNERS

Directions == {"above", "at-or-above", "below", "at-or-below"}

-----------------------------------------------------------------------------
(* The rules, field by field as their structs.  A signer list is a         *)
(* sequence: it may name an address twice.                                 *)

PriceConfig(reflector, asset, threshold, direction, staleness) ==
    [kind |-> "price", reflector |-> reflector, asset |-> asset,
     threshold |-> threshold, direction |-> direction,
     max_staleness |-> staleness]

ScaledPriceConfig(reflector, asset, threshold, decimals, direction, staleness) ==
    [kind |-> "scaled", reflector |-> reflector, asset |-> asset,
     threshold |-> threshold, threshold_decimals |-> decimals,
     direction |-> direction, max_staleness |-> staleness]

TwapConfig(reflector, asset, threshold, direction, window, samples, gap) ==
    [kind |-> "twap", reflector |-> reflector, asset |-> asset,
     threshold |-> threshold, direction |-> direction, window |-> window,
     min_samples |-> samples, max_gap |-> gap]

SignerConfig(signers, threshold, window) ==
    [kind |-> "signers", signers |-> signers, threshold |-> threshold,
     dispute_window |-> window]

DisputableSignerConfig(base, bond, escalation, timeout) ==
    [kind |-> "disputable", signers |-> base.signers,
     threshold |-> base.threshold, dispute_window |-> base.dispute_window,
     dispute_bond |-> bond, escalation |-> escalation,
     escalation_timeout |-> timeout]

WeightedKeyConfig(signers, threshold, window) ==
    [kind |-> "weighted", signers |-> signers, weight_threshold |-> threshold,
     dispute_window |-> window]

CommitteeRef(id, epoch, delta, window) ==
    [kind |-> "committee", committee_id |-> id, min_epoch |-> epoch,
     max_rotation_delta |-> delta, dispute_window |-> window]

HybridConfig(price, fallback, after) ==
    [kind |-> "hybrid", price |-> price, fallback |-> fallback,
     fallback_after |-> after]

(* ResolutionSpecV2: an envelope that binds a rule to a deployment.        *)
ResolutionSpecV2(version, network, core, salt, rule) ==
    [version |-> version, network_id |-> network, market_core |-> core,
     salt |-> salt, rule |-> rule]

(* ResolutionSpec has no variant for these two.                            *)
OwnDomain(rule) == rule.kind \in {"scaled", "twap"}

-----------------------------------------------------------------------------
(* Hashes: legacy_spec_hash, spec_v2_hash, scaled_spec_hash,               *)
(* twap_spec_hash.                                                         *)

LegacySpecHash(rule) == [domain |-> "", of |-> rule]
SpecV2Hash(spec) == [domain |-> "oracledesk:resolution-spec", of |-> spec]
ScaledSpecHash(rule) == [domain |-> "oracledesk:scaled-price-spec", of |-> rule]
TwapSpecHash(rule) == [domain |-> "oracledesk:price-twap-spec", of |-> rule]

-----------------------------------------------------------------------------
(* Validation of a revealed rule.                                          *)

PriceOk(c) == c.threshold >= 0 /\ c.max_staleness # 0

SignersOk(c) ==
    /\ c.signers # << >>
    /\ c.threshold \in 1 .. Len(c.signers)
    /\ c.dispute_window # 0

WeightedOk(c) ==
    LET total == FoldLeft(LAMBDA sum, k : sum + k.weight, 0, c.signers) IN
    /\ Len(c.signers) \in 1 .. MaxWeighted
    /\ c.dispute_window # 0
    /\ \A i \in DOMAIN c.signers :
           /\ c.signers[i].weight # 0
           /\ \A j \in 1 .. i - 1 : c.signers[j].pubkey # c.signers[i].pubkey
    /\ c.weight_threshold \in 1 .. total

EscalationOk(e, signers) ==
    e.by = "committee" =>
        /\ e.k \in 1 .. Len(e.members)
        /\ IsInjective(e.members)
        /\ Range(e.members) \cap Range(signers) = {}

DisputableOk(c) ==
    /\ EscalationOk(c.escalation, c.signers)
    /\ SignersOk(c)
    /\ c.dispute_bond > 0
    /\ c.escalation_timeout # 0

HybridOk(c) ==
    /\ PriceOk(c.price) /\ SignersOk(c.fallback)
    /\ c.fallback_after > 0
    /\ c.fallback_after >= c.price.max_staleness

(* validate_rule().                                                        *)
RuleOk(rule) ==
    CASE rule.kind = "price"      -> PriceOk(rule)
      [] rule.kind = "signers"    -> SignersOk(rule)
      [] rule.kind = "weighted"   -> WeightedOk(rule)
      [] rule.kind = "disputable" -> DisputableOk(rule)
      [] rule.kind = "committee"  -> rule.dispute_window # 0
      [] rule.kind = "hybrid"     -> HybridOk(rule)

ScaledOk(c) == PriceOk(c) /\ c.threshold_decimals <= MaxDecimals

(* validate_twap_rule(): resolution is what the feed answers now, None if  *)
(* the call traps.                                                         *)
TwapOk(c, resolution) ==
    /\ c.window > 0 /\ c.min_samples >= 2
    /\ c.max_gap \in 1 .. c.window
    /\ c.threshold >= 0
    /\ resolution > 0
    /\ c.window \div resolution \in c.min_samples .. MaxTwapSamples

(* The two rules the router and the treasury reveal.                       *)
PrimaryRuleOk(rule) ==
    CASE rule.kind = "price"   -> PriceOk(rule)
      [] rule.kind = "signers" -> SignersOk(rule)
      [] OTHER -> FALSE

(* Mutant: an envelope of another market-core is taken.                    *)
EnvelopeOfAnyCore(spec, core) ==
    /\ spec.version = 2 /\ spec.salt # ZeroSalt
    /\ spec.network_id = Network

(* The checks of register_spec_v2() and of the router's verify_envelope(). *)
EnvelopeOk(spec, core) ==
    /\ spec.version = 2 /\ spec.salt # ZeroSalt
    /\ spec.network_id = Network /\ spec.market_core = core

-----------------------------------------------------------------------------
(* spec-hash: parsing.  Err stands for every usage error.                  *)

Err == [kind |-> "error"]

Word(w) == [is |-> "word", of |-> w]

IsUnsigned(t) == t.is = "number" /\ t.of >= 0
IsSigned(t) == t.is = "number"
IsAddress(t) == t.is = "address"
IsAsset(t) == t.is = "asset"
IsDirection(t) == t.is = "word" /\ t.of \in Directions

Values(tokens) == [i \in DOMAIN tokens |-> tokens[i].of]
From(args, i) == SubSeq(args, i, Len(args))

ParseSigners(args) ==
    IF /\ Len(args) >= 3
       /\ IsUnsigned(args[1]) /\ IsUnsigned(args[2])
       /\ \A i \in 3 .. Len(args) : IsAddress(args[i])
    THEN SignerConfig(Values(From(args, 3)), args[1].of, args[2].of)
    ELSE Err

ParsePrice(args) ==
    IF /\ Len(args) = 5
       /\ IsAddress(args[1]) /\ IsAsset(args[2]) /\ IsSigned(args[3])
       /\ IsDirection(args[4]) /\ IsUnsigned(args[5])
    THEN PriceConfig(args[1].of, args[2].of, args[3].of, args[4].of,
                     args[5].of)
    ELSE Err

DigitsValue(digits) == FoldLeft(LAMBDA n, d : 10 * n + d, 0, digits)

(* An exact decimal, "int.frac", as a threshold and its decimal places.    *)
ParseDecimalAmount(int, frac) ==
    [ok |-> int \o frac # << >> /\ Len(frac) <= MaxDecimals,
     threshold |-> DigitsValue(int \o frac), decimals |-> Len(frac)]

(* With --decimal, the threshold and its decimals come from the flag.      *)
ParsePriceScaled(args, decimal) ==
    LET amount == ParseDecimalAmount(decimal.int, decimal.frac)
        full == IF decimal = Err \/ Len(args) # 4 THEN args
                ELSE <<args[1], args[2],
                       [is |-> "number", of |-> amount.threshold],
                       [is |-> "number", of |-> amount.decimals],
                       args[3], args[4]>>
    IN  IF /\ decimal # Err => Len(args) = 4 /\ decimal.digits /\ amount.ok
           /\ Len(full) = 6
           /\ IsAddress(full[1]) /\ IsAsset(full[2]) /\ IsSigned(full[3])
           /\ IsUnsigned(full[4]) /\ IsDirection(full[5])
           /\ IsUnsigned(full[6])
        THEN ScaledPriceConfig(full[1].of, full[2].of, full[3].of, full[4].of,
                               full[5].of, full[6].of)
        ELSE Err

ParsePriceTwap(args) ==
    IF /\ Len(args) = 7
       /\ IsAddress(args[1]) /\ IsAsset(args[2]) /\ IsSigned(args[3])
       /\ IsDirection(args[4])
       /\ \A i \in 5 .. 7 : IsUnsigned(args[i])
    THEN TwapConfig(args[1].of, args[2].of, args[3].of, args[4].of,
                    args[5].of, args[6].of, args[7].of)
    ELSE Err

ParseWeightedKeys(args) ==
    IF /\ Len(args) >= 3
       /\ IsUnsigned(args[1]) /\ IsUnsigned(args[2])
       /\ \A i \in 3 .. Len(args) :
              args[i].is = "key" /\ args[i].of.weight >= 0
    THEN WeightedKeyConfig(Values(From(args, 3)), args[1].of, args[2].of)
    ELSE Err

ParseEscalation(t) ==
    CASE t = Word("guardian") -> [by |-> "guardian"]
      [] t.is = "committee" /\ t.of.k >= 0 ->
             [by |-> "committee", k |-> t.of.k, members |-> t.of.members]
      [] OTHER -> Err

ParseSignersDisputable(args) ==
    LET base == IF Len(args) < 5 THEN Err
                ELSE ParseSigners(SubSeq(args, 1, 2) \o From(args, 6))
    IN  IF /\ base # Err
           /\ IsSigned(args[3]) /\ IsUnsigned(args[4])
           /\ ParseEscalation(args[5]) # Err
        THEN DisputableSignerConfig(base, args[3].of, ParseEscalation(args[5]),
                                    args[4].of)
        ELSE Err

ParseCommittee(args) ==
    IF Len(args) = 4 /\ \A i \in 1 .. 4 : IsUnsigned(args[i])
    THEN CommitteeRef(args[1].of, args[2].of, args[3].of, args[4].of)
    ELSE Err

ParseHybrid(args) ==
    LET at == SelectInSeq(args, LAMBDA t : t = Word("--"))
        price == ParsePrice(SubSeq(args, 2, at - 1))
        fallback == ParseSigners(From(args, at + 1))
    IN  IF at > 1 /\ IsUnsigned(args[1]) /\ price # Err /\ fallback # Err
        THEN HybridConfig(price, fallback, args[1].of)
        ELSE Err

ParseRule(args, decimal) ==
    LET kind == IF args = << >> THEN Word("") ELSE args[1]
        rest == From(args, 2)
    IN  CASE kind = Word("signers")      -> ParseSigners(rest)
          [] kind = Word("price")        -> ParsePrice(rest)
          [] kind = Word("price-scaled") -> ParsePriceScaled(rest, decimal)
          [] kind = Word("price-twap")   -> ParsePriceTwap(rest)
          [] kind = Word("weighted-keys") -> ParseWeightedKeys(rest)
          [] kind = Word("signers-disputable") -> ParseSignersDisputable(rest)
          [] kind = Word("committee")    -> ParseCommittee(rest)
          [] kind = Word("hybrid")       -> ParseHybrid(rest)
          [] OTHER -> Err

-----------------------------------------------------------------------------
(* spec-hash: flags and the printed hash.                                  *)

NoFlag == [is |-> "none", of |-> ""]

(* Splits the flags out of a command line: one that takes a value consumes *)
(* the next token, whatever it is.                                         *)
Scan(valued, bare, args) ==
    LET Step(acc, t) ==
            CASE acc.want # "" ->
                     [acc EXCEPT !.got[acc.want] = t, !.want = ""]
              [] acc.want = "" /\ t.is = "word" /\ t.of \in valued ->
                     [acc EXCEPT !.want = t.of,
                                 !.twice = @ \/ acc.got[t.of] # NoFlag]
              [] acc.want = "" /\ t.is = "word" /\ t.of \in bare ->
                     [acc EXCEPT !.on = TRUE]
              [] OTHER -> [acc EXCEPT !.rest = Append(@, t)]
    IN  FoldLeft(Step, [got |-> [f \in valued |-> NoFlag], on |-> FALSE,
                        twice |-> FALSE, want |-> "", rest |-> << >>], args)

(* --decimal is refused twice, without a value, or for another rule.       *)
TakeDecimalFlag(args) ==
    LET s == Scan({"--decimal"}, {}, args)
        given == s.got["--decimal"] # NoFlag
        scaled == \/ Len(s.rest) >= 1 /\ s.rest[1] = Word("price-scaled")
                  \/ /\ Len(s.rest) >= 2 /\ s.rest[1] = Word("verify")
                     /\ s.rest[2] = Word("price-scaled")
    IN  [ok |-> s.want = "" /\ ~s.twice /\ (given => scaled),
         decimal |-> IF ~given THEN Err
                     ELSE IF s.got["--decimal"].is = "decimal"
                     THEN s.got["--decimal"].of
                     ELSE [kind |-> "decimal", digits |-> FALSE,
                           int |-> << >>, frac |-> << >>],
         rest |-> s.rest]

V2Valued == {"--salt", "--network-passphrase", "--market-core"}

(* All four V2 flags come together; a repeated one takes its last value.   *)
TakeV2Flags(args) ==
    LET s == Scan(V2Valued, {"--v2"}, args)
        given == {f \in V2Valued : s.got[f] # NoFlag}
    IN  [ok |-> /\ s.want = ""
                /\ given = IF s.on THEN V2Valued ELSE {}
                /\ s.on => s.got["--salt"].is = "hex32",
         v2 |-> IF s.on
                THEN [salt |-> s.got["--salt"].of,
                      network |-> s.got["--network-passphrase"].of,
                      core |-> s.got["--market-core"]]
                ELSE Err,
         rest |-> s.rest]

(* Mutant: the TWAP rule is hashed in the domain of the scaled rule.       *)
CommitmentOneDomain(rule, v2) ==
    CASE rule.kind \in {"scaled", "twap"} /\ v2 = Err -> ScaledSpecHash(rule)
      [] ~OwnDomain(rule) /\ v2 = Err -> LegacySpecHash(rule)
      [] OTHER -> Err

(* commitment(): the rules with a domain of their own take no envelope.    *)
Commitment(rule, v2) ==
    CASE rule.kind = "scaled" /\ v2 = Err -> ScaledSpecHash(rule)
      [] rule.kind = "twap" /\ v2 = Err -> TwapSpecHash(rule)
      [] ~OwnDomain(rule) /\ v2 = Err -> LegacySpecHash(rule)
      [] ~OwnDomain(rule) /\ v2 # Err /\ IsAddress(v2.core) ->
             SpecV2Hash(ResolutionSpecV2(2, v2.network, v2.core.of, v2.salt,
                                         rule))
      [] OTHER -> Err

(* run(): the hash of a command line, or Err.  For "verify <expected>"     *)
(* followed by the same, whether it matches.                               *)
RunTool(args) ==
    LET d == TakeDecimalFlag(args)
        f == TakeV2Flags(d.rest)
        verify == Len(f.rest) >= 2 /\ f.rest[1] = Word("verify")
        rule == ParseRule(IF verify THEN From(f.rest, 3) ELSE f.rest,
                          d.decimal)
        hash == IF rule = Err THEN Err ELSE Commitment(rule, f.v2)
    IN  IF ~d.ok \/ ~f.ok \/ hash = Err THEN [out |-> "usage"]
        ELSE IF ~verify THEN [out |-> "hash", hash |-> hash]
        ELSE IF f.rest[2].is # "hex32" THEN [out |-> "usage"]
        ELSE IF f.rest[2].of = hash THEN [out |-> "match"]
        ELSE [out |-> "mismatch"]
=============================================================================
