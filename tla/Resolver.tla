------------------------------ MODULE Resolver ------------------------------
(***************************************************************************)
(* contracts/resolver: how one market gets from Open to a final status.    *)
(* Entries of different markets have different keys, so one market is      *)
(* modelled, in whichever mode its commitment names, with the committee it *)
(* names.                                                                  *)
(*                                                                         *)
(* Every entrypoint is atomic (an Err rolls back), so it is one action,    *)
(* enabled when it returns Ok.  core and by stand for market-core's entry  *)
(* of the market and isResolver for its resolver role.  A price feed       *)
(* (Reflector) is external: what a read of the committed rule yields, and  *)
(* whether it is usable, may differ from call to call.  Hash commitments   *)
(* are injective: only the committed spec can be revealed.                 *)
(***************************************************************************)
EXTENDS Integers, FiniteSets, Functions

CONSTANTS
    Signers,        \* addresses, and Ed25519 keys, that may be signers
    Judges,         \* addresses that may sit on an escalation committee
    Disputers,      \* addresses that may dispute
    Treasury,       \* market-core's treasury
    Specs,          \* committed rules: records as in SpecType
    Electorates,    \* [members, threshold] a committee may be given
    Traces,         \* [agent, here, at, id]: traces of the registry
    NoTrace,        \* "attest" rather than "attest_with_evidence"
    None,           \* an absent storage entry
    CloseTime,      \* close_time of the market
    RevealGrace, OracleGrace, SignerGrace, ResolutionGrace,
    MaxCancels,     \* MAX_CANCELS_PER_MARKET
    MaxSigs,        \* MAX_SIGS_PER_CALL
    RotationDelay,  \* rotation_delay of the committee
    Bond,           \* dispute_bond
    PolicyChoices,  \* evidence policies the admin may set
    RoleChoices,    \* whether market-core's resolver may be rotated
    MaxTime,        \* bound: the last ledger timestamp
    LastMove,       \* bound: signers, disputers and admins act until then
    MaxEpoch        \* bound: committee rotations stop there

Outcomes == {"yes", "no"}
Attestable == Outcomes \cup {"invalid"}
FeedModes == {"price", "scaled", "twap"}
SignerModes == {"signers", "disputable", "weighted", "committee"}
FeedReads == Outcomes \cup {"unusable"}
States == {"Unconfigured", "SignersPending", "Finalized", "Expired",
           "Disputed", "HybridPricePending", "HybridFallbackOpen"}

(* One record shape for every rule; a mode ignores the fields it has not.  *)
(* slots is the length of the signer vector, which validate_rule does not  *)
(* check for duplicates.                                                   *)
SpecType ==
    [mode : FeedModes \cup SignerModes \cup {"hybrid"},
     signers : SUBSET Signers, slots : Nat, threshold : Nat, window : Nat,
     weight : [Signers -> Nat],
     escalation : {"guardian", "judges"}, judges : SUBSET Judges, k : Nat,
     timeout : Nat, minEpoch : Nat, maxDelta : Nat, fallbackAfter : Nat]

ProposalType == [outcome : Attestable, at : Nat]

DisputeType ==
    [disputer : Disputers, at : Nat, payee : Disputers \cup {Treasury, None}]

ASSUME ResolverAssumption ==
    /\ IsFiniteSet(Signers) /\ IsFiniteSet(Judges)
    /\ Specs \subseteq SpecType
    /\ Electorates \subseteq [members : SUBSET Signers, threshold : Nat]
    /\ \A t \in Traces : t.agent \in Signers /\ t.at \in Nat
                         /\ t.here \in BOOLEAN
    /\ NoTrace \notin Traces
    /\ None \notin ProposalType \cup DisputeType
    /\ None \notin Disputers \cup {Treasury, "self", "other"}
    /\ None \notin {"disabled", "optional", "required"}
    /\ Treasury \notin Disputers
    /\ CloseTime \in Nat \ {0} /\ RevealGrace \in Nat /\ OracleGrace \in Nat
    /\ SignerGrace \in Nat /\ ResolutionGrace \in Nat
    /\ MaxCancels \in Nat /\ MaxSigs \in Nat /\ RotationDelay \in Nat
    /\ Bond \in Nat \ {0}
    /\ PolicyChoices \subseteq {"disabled", "optional", "required"}
    /\ RoleChoices \subseteq BOOLEAN
    /\ MaxTime \in Nat /\ LastMove \in Nat /\ MaxEpoch \in Nat

VARIABLES
    now,        \* ledger timestamp
    core,       \* status of the market in market-core
    by,         \* which resolver moved it there
    isResolver, \* this contract holds market-core's resolver role
    spec,       \* the rule behind the market's resolution_hash
    revealed,   \* its config entry (Price, Signers, Hybrid...) is stored
    state,      \* State
    attested,   \* AttestationV2 entries: <<outcome, signer>>
    proposal,   \* ProposalV2
    cancels,    \* Cancels
    seen,       \* SigSeen of the current Round: the outcome a key signed
    dispute,    \* Dispute
    votes,      \* EscalationVote: the verdict of each judge
    committee,  \* Committee
    rotation,   \* Rotation
    snapshot,   \* Snapshot: the outcome of the pinned price
    evidence,   \* [global, frozen]: EvidenceConfig, EvidencePolicy
    used,       \* EvidenceUsed
    escrow      \* bond collateral the contract holds

lifecycle == <<spec, revealed, state>>
market == <<core, by, isResolver>>
signing == <<attested, proposal, cancels, seen>>
disputes == <<dispute, votes, escrow>>
rotations == <<committee, rotation>>
inputs == <<snapshot, evidence, used>>

vars == <<now, market, lifecycle, signing, disputes, rotations, inputs>>

Terminal == state \in {"Finalized", "Expired"}
Mode == IF revealed THEN spec.mode ELSE "none"
Acting == now <= LastMove

-----------------------------------------------------------------------------
(* market-core, as this contract's calls see it: resolve() and             *)
(* void_market() fail unless this contract is the resolver and the market  *)
(* is open, and resolve() also before close.                               *)

CoreVoid ==
    /\ isResolver /\ core = "open"
    /\ core' = "void" /\ by' = "self" /\ UNCHANGED isResolver

CoreResolve(o) ==
    /\ isResolver /\ core = "open"
    /\ now >= CloseTime
    /\ core' = o /\ by' = "self" /\ UNCHANGED isResolver

CoreSettle(o) == IF o = "invalid" THEN CoreVoid ELSE CoreResolve(o)

(* propose_resolver and accept_resolver move the role to another contract  *)
(* or back; the other contract settles the market as it likes.             *)
MoveRole(b) ==
    /\ Acting
    /\ isResolver' = b
    /\ UNCHANGED <<now, core, by, lifecycle, signing, disputes, rotations,
                   inputs>>

OtherSettles(s) ==
    /\ Acting
    /\ ~isResolver /\ core = "open"
    /\ s # "void" => now >= CloseTime
    /\ core' = s /\ by' = "other"
    /\ UNCHANGED <<now, isResolver, lifecycle, signing, disputes, rotations,
                   inputs>>

-----------------------------------------------------------------------------
(* Revealing the committed rule.                                           *)

TotalWeight(s) == SumFunction(s.weight)

QuorumRuleOk(s) ==
    /\ s.slots > 0 /\ Cardinality(s.signers) <= s.slots
    /\ s.threshold \in 1 .. s.slots /\ s.window > 0

(* validate_rule(), disputable_config_is_valid() and                       *)
(* weighted_config_is_valid().  register_committee_spec also asks that the *)
(* committee exist, at min_epoch or later; register_spec_v2, which reveals *)
(* the envelope a market may have committed to instead, does not.          *)
ValidRule(s) ==
    /\ s.mode \in {"signers", "disputable", "hybrid"} => QuorumRuleOk(s)
    /\ s.mode = "disputable" =>
           /\ s.timeout > 0
           /\ s.escalation = "judges" =>
                  /\ s.k \in 1 .. Cardinality(s.judges)
                  /\ s.judges \cap s.signers = {}
    /\ s.mode = "weighted" =>
           s.window > 0 /\ s.threshold \in 1 .. TotalWeight(s)
    /\ s.mode = "committee" => s.window > 0
    /\ s.mode = "hybrid" => s.fallbackAfter > 0

InitialState(mode) ==
    CASE mode \in FeedModes   -> "Unconfigured"
      [] mode = "hybrid"      -> "HybridPricePending"
      [] mode \in SignerModes -> "SignersPending"

(* register_*_spec.  The evidence policy in force is frozen with the rule. *)
Reveal ==
    /\ Acting
    /\ ~Terminal /\ ~revealed
    /\ ValidRule(spec)
    /\ revealed' = TRUE
    /\ state' = InitialState(spec.mode)
    /\ evidence' = [evidence EXCEPT !.frozen = evidence.global]
    /\ UNCHANGED <<now, market, spec, signing, disputes, rotations, snapshot,
                   used>>

-----------------------------------------------------------------------------
(* Committees.                                                             *)

ElectorateOk(e) == e.threshold \in 1 .. Cardinality(e.members)

CreateCommittee(e) ==
    /\ Acting
    /\ committee = None
    /\ ElectorateOk(e)
    /\ committee' = [members |-> e.members, threshold |-> e.threshold,
                     epoch |-> 1]
    /\ UNCHANGED <<now, market, lifecycle, signing, disputes, rotation,
                   inputs>>

ProposeRotation(e) ==
    /\ Acting
    /\ committee # None /\ rotation = None
    /\ ElectorateOk(e)
    /\ rotation' = [members |-> e.members, threshold |-> e.threshold,
                    at |-> now + RotationDelay]
    /\ UNCHANGED <<now, market, lifecycle, signing, disputes, committee,
                   inputs>>

ExecuteRotation ==
    /\ committee # None /\ rotation # None
    /\ now >= rotation.at
    /\ committee.epoch < MaxEpoch
    /\ committee' = [members |-> rotation.members,
                     threshold |-> rotation.threshold,
                     epoch |-> committee.epoch + 1]
    /\ rotation' = None
    /\ UNCHANGED <<now, market, lifecycle, signing, disputes, inputs>>

CancelRotation ==
    /\ Acting
    /\ rotation # None
    /\ rotation' = None
    /\ UNCHANGED <<now, market, lifecycle, signing, disputes, committee,
                   inputs>>

-----------------------------------------------------------------------------
(* Attestations, quorums and proposals.                                    *)

EpochInBounds ==
    /\ committee.epoch >= spec.minEpoch
    /\ committee.epoch - spec.minEpoch <= spec.maxDelta

Backers(att, o) == {s \in Signers : <<o, s>> \in att}

RoundWeight(sg, o) ==
    SumFunctionOnSet(spec.weight, {k \in Signers : sg[k] = o})

(* Mutant: votes of members who were rotated out still count.              *)
VotesEver(att, o) == Backers(att, o)

CommitteeVotes(att, o) == Backers(att, o) \cap committee.members

(* has_quorum().  CountV2 counts the attestations of an outcome; a         *)
(* committee's are recounted among its current members.                    *)
Quorum(att, sg, o) ==
    CASE spec.mode = "weighted" ->
             o # "invalid" /\ RoundWeight(sg, o) >= spec.threshold
      [] spec.mode = "committee" ->
             /\ EpochInBounds
             /\ Cardinality(CommitteeVotes(att, o)) >= committee.threshold
      [] OTHER -> Cardinality(Backers(att, o)) >= spec.threshold

HasQuorum(o) == Quorum(attested, seen, o)

HasValidProposal == proposal # None /\ HasQuorum(proposal.outcome)

Proposing(o) == [outcome |-> o, at |-> now]

(* The first quorum proposes; only an Invalid quorum displaces a proposal. *)
MayPropose(o) ==
    \/ proposal = None
    \/ o = "invalid" /\ proposal.outcome # "invalid"

MayAttest(s) ==
    \/ Mode \in {"signers", "disputable"} /\ s \in spec.signers
    \/ /\ Mode = "committee" /\ committee # None
       /\ EpochInBounds /\ s \in committee.members
    \/ Mode = "hybrid" /\ state = "HybridFallbackOpen" /\ s \in spec.signers

(* Mutant: the frozen policy is ignored.                                   *)
PolicyOfTheMoment ==
    IF evidence.global # None THEN evidence.global ELSE "disabled"

(* EvidencePolicy(id), else the policy of the moment, else Disabled.       *)
Policy == IF evidence.frozen # None THEN evidence.frozen
          ELSE IF evidence.global # None THEN evidence.global
          ELSE "disabled"

EvidenceOk(s, t) ==
    IF t = NoTrace THEN Policy # "required"
    ELSE /\ Policy # "disabled" /\ evidence.global # None
         /\ t \notin used
         /\ t.agent = s /\ t.here /\ t.at >= CloseTime /\ t.at <= now

AttestableNow == now >= CloseTime /\ state # "Disputed" /\ ~Terminal

(* record_attestation(): attest and attest_with_evidence.                  *)
(* record_attestation(), with the trace t that backs it or NoTrace.        *)
RecordAttestation(s, o, t) ==
    /\ Acting
    /\ MayAttest(s)
    /\ AttestableNow
    /\ EvidenceOk(s, t)
    /\ <<o, s>> \notin attested
    /\ used' = IF t = NoTrace THEN used ELSE used \cup {t}
    /\ attested' = attested \cup {<<o, s>>}
    /\ proposal' = IF Quorum(attested', seen, o) /\ MayPropose(o)
                   THEN Proposing(o) ELSE proposal
    /\ UNCHANGED <<now, market, lifecycle, cancels, seen, disputes, rotations,
                   snapshot, evidence>>

Attest(s, o) == RecordAttestation(s, o, NoTrace)

AttestWithEvidence(s, o, t) == RecordAttestation(s, o, t)

(* submit_signatures(): keys unknown to the rule, or seen in this round,   *)
(* are skipped.                                                            *)
SubmitSignatures(o, keys) ==
    LET fresh == {k \in keys : spec.weight[k] > 0 /\ seen[k] = None} IN
    /\ Acting
    /\ Mode = "weighted"
    /\ ~Terminal
    /\ Cardinality(keys) <= MaxSigs
    /\ now >= CloseTime
    /\ fresh # {}
    /\ seen' = [k \in Signers |-> IF k \in fresh THEN o ELSE seen[k]]
    /\ proposal' = IF /\ RoundWeight(seen, o) < spec.threshold
                      /\ RoundWeight(seen', o) >= spec.threshold
                      /\ proposal = None
                   THEN Proposing(o) ELSE proposal
    /\ UNCHANGED <<now, market, lifecycle, attested, cancels, disputes,
                   rotations, inputs>>

InWindow == now < proposal.at + spec.window

FinalizeSigners ==
    /\ state # "Disputed"
    /\ Mode \in SignerModes \cup {"hybrid"}
    /\ proposal # None
    /\ ~InWindow
    /\ HasQuorum(proposal.outcome)
    /\ CoreSettle(proposal.outcome)
    /\ state' = "Finalized"
    /\ UNCHANGED <<now, spec, revealed, signing, disputes, rotations, inputs>>

(* cancel_proposal(): votes stay, but a weighted market moves to a new     *)
(* round, in which no key has signed.                                      *)
CancelProposal ==
    /\ Acting
    /\ state # "Disputed"
    /\ revealed /\ proposal # None /\ InWindow
    /\ cancels < MaxCancels
    /\ cancels' = cancels + 1
    /\ proposal' = None
    /\ seen' = IF Mode = "weighted" THEN [k \in Signers |-> None] ELSE seen
    /\ UNCHANGED <<now, market, lifecycle, attested, disputes, rotations,
                   inputs>>
-----------------------------------------------------------------------------
(* Bonded disputes.                                                        *)

DisputeOpen == dispute # None /\ dispute.payee = None

Dispute(d, claimed) ==
    /\ Acting
    /\ Mode = "disputable"
    /\ state # "Disputed" /\ ~Terminal
    /\ proposal # None /\ InWindow
    /\ claimed # proposal.outcome
    /\ dispute' = [disputer |-> d, at |-> now, payee |-> None]
    /\ escrow' = escrow + Bond
    /\ state' = "Disputed"
    /\ UNCHANGED <<now, market, spec, revealed, signing, votes, rotations,
                   inputs>>

(* apply_verdict(): upholding the proposal forfeits the bond.              *)
ApplyVerdict(v) ==
    /\ DisputeOpen /\ proposal # None
    /\ CoreSettle(v)
    /\ dispute' = [dispute EXCEPT !.payee =
                      IF v = proposal.outcome THEN Treasury
                      ELSE dispute.disputer]
    /\ state' = "Finalized"

SettleDispute(v) ==
    /\ Acting
    /\ Mode = "disputable" /\ spec.escalation = "guardian"
    /\ ApplyVerdict(v)
    /\ UNCHANGED <<now, spec, revealed, signing, votes, escrow, rotations,
                   inputs>>

(* Mutant: votes for any verdict count towards this one.                   *)
VotesReachK(vs, v) == Cardinality({i \in Judges : vs[i] # None}) >= spec.k

VerdictReached(vs, v) == Cardinality({i \in Judges : vs[i] = v}) >= spec.k

EscalationAttest(j, v) ==
    /\ Acting
    /\ Mode = "disputable" /\ spec.escalation = "judges"
    /\ j \in spec.judges
    /\ DisputeOpen
    /\ votes[j] = None
    /\ votes' = [votes EXCEPT ![j] = v]
    /\ IF VerdictReached(votes', v)
       THEN ApplyVerdict(v)
       ELSE UNCHANGED <<core, by, isResolver, dispute, state>>
    /\ UNCHANGED <<now, spec, revealed, signing, escrow, rotations, inputs>>

(* Mutant: the open dispute is left as it is.                              *)
NotRefunded == dispute

(* refund_open_dispute()                                                   *)
Refunded ==
    IF DisputeOpen THEN [dispute EXCEPT !.payee = dispute.disputer]
    ELSE dispute

ExpireDispute ==
    /\ Mode = "disputable"
    /\ DisputeOpen
    /\ now >= dispute.at + spec.timeout
    /\ CoreVoid
    /\ dispute' = Refunded
    /\ state' = "Finalized"
    /\ UNCHANGED <<now, spec, revealed, signing, votes, escrow, rotations,
                   inputs>>

(* Mutant: the Dispute entry survives the payment.                         *)
ClaimBondAgain ==
    /\ dispute # None /\ dispute.payee # None
    /\ escrow' = escrow - Bond
    /\ UNCHANGED <<now, market, lifecycle, signing, dispute, votes, rotations,
                   inputs>>

ClaimDisputeBond ==
    /\ dispute # None /\ dispute.payee # None
    /\ dispute' = None
    /\ escrow' = escrow - Bond
    /\ UNCHANGED <<now, market, lifecycle, signing, votes, rotations, inputs>>

-----------------------------------------------------------------------------
(* Price rules.                                                            *)

(* price_outcome(): a stored snapshot takes the feed's place.              *)
Priced(f) == IF snapshot # None THEN snapshot ELSE f

(* Mutant: State is not written.                                           *)
SettleUnrecorded(o) == o \in Outcomes /\ CoreResolve(o) /\ UNCHANGED state

SettlePrice(o) ==
    /\ o \in Outcomes
    /\ CoreResolve(o)
    /\ state' = "Finalized"

(* price_config(): the market has a rule that a snapshot can be pinned for. *)
HasPriceConfig == Mode \in {"price", "hybrid"}

(* A rule with decimals of its own and an average take no snapshot.        *)
SettleScaled(f) == Mode = "scaled" /\ SettlePrice(f)

SettleTwap(f) == Mode = "twap" /\ SettlePrice(f)

(* resolve_price() and resolve_twap(); a hybrid's pending proposal goes.   *)
ResolvePrice(f) ==
    /\ now >= CloseTime
    /\ ~Terminal
    /\ \/ HasPriceConfig /\ SettlePrice(Priced(f))
       \/ SettleScaled(f)
       \/ SettleTwap(f)
    /\ proposal' = IF Mode = "hybrid" THEN None ELSE proposal
    /\ UNCHANGED <<now, spec, revealed, attested, cancels, seen, disputes,
                   rotations, inputs>>

SnapshotPrice(f) ==
    /\ Acting
    /\ HasPriceConfig
    /\ now >= CloseTime
    /\ ~Terminal
    /\ snapshot = None
    /\ f \in Outcomes
    /\ snapshot' = f
    /\ UNCHANGED <<now, market, lifecycle, signing, disputes, rotations,
                   evidence, used>>

(* open_fallback(): a usable price settles the market instead.             *)
OpenFallback(f) ==
    /\ Mode = "hybrid"
    /\ ~Terminal
    /\ now >= CloseTime + spec.fallbackAfter
    /\ \/ SettlePrice(Priced(f))
       \/ /\ Priced(f) = "unusable"
          /\ state' = "HybridFallbackOpen"
          /\ UNCHANGED market
    /\ UNCHANGED <<now, spec, revealed, signing, disputes, rotations, inputs>>

-----------------------------------------------------------------------------
(* The guardian's void and the permissionless expiry.                      *)

(* Mutant: an open fallback of a hybrid market is forgotten.               *)
OnlySignerModes == Mode \in SignerModes

SignersDecide ==
    Mode \in SignerModes \/ (Mode = "hybrid" /\ state = "HybridFallbackOpen")

GuardianMayVoid(reason, f) ==
    CASE reason = "UnrevealedSpec" ->
             ~revealed /\ now >= CloseTime + RevealGrace
      [] reason = "OracleUnavailable" ->
             /\ now >= CloseTime + OracleGrace
             /\ Mode \in FeedModes \cup {"hybrid"}
             /\ Priced(f) = "unusable"
      [] reason = "SignersStalled" ->
             /\ SignersDecide /\ proposal = None
             /\ now >= CloseTime + SignerGrace
      [] reason = "DisputeUpheld" ->
             revealed /\ proposal # None /\ InWindow

Reasons == {"UnrevealedSpec", "OracleUnavailable", "SignersStalled",
            "DisputeUpheld"}

GuardianVoidMarket(reason, f) ==
    /\ Acting
    /\ ~Terminal
    /\ GuardianMayVoid(reason, f)
    /\ CoreVoid
    /\ dispute' = Refunded
    /\ state' = "Finalized"
    /\ UNCHANGED <<now, spec, revealed, signing, votes, escrow, rotations,
                   inputs>>

Deadline == CloseTime + ResolutionGrace

(* expire_market().  A hybrid market whose fallback is not open takes the  *)
(* price branch, which loads DataKey::Price and fails.                     *)
ExpireMarket(f) ==
    /\ state # "Disputed" /\ ~Terminal
    /\ now >= Deadline
    /\ \/ /\ Mode \in FeedModes
          /\ SettlePrice(Priced(f))
       \/ /\ \/ Mode \in FeedModes /\ Priced(f) = "unusable"
             \/ SignersDecide /\ ~HasValidProposal
             \/ Mode = "none"
          /\ CoreVoid
          /\ state' = "Expired"
    /\ UNCHANGED <<now, spec, revealed, signing, disputes, rotations, inputs>>

SetEvidenceConfig(p) ==
    /\ Acting
    /\ evidence' = [evidence EXCEPT !.global = p]
    /\ UNCHANGED <<now, market, lifecycle, signing, disputes, rotations,
                   snapshot, used>>

(* The next ledger closes.                                                 *)
Tick ==
    /\ now < MaxTime
    /\ now' = now + 1
    /\ UNCHANGED <<market, lifecycle, signing, disputes, rotations, inputs>>

-----------------------------------------------------------------------------
Init ==
    /\ now = 0
    /\ core = "open" /\ by = None /\ isResolver = TRUE
    /\ spec \in Specs /\ revealed = FALSE /\ state = "Unconfigured"
    /\ attested = {} /\ proposal = None /\ cancels = 0
    /\ seen = [k \in Signers |-> None]
    /\ dispute = None /\ votes = [j \in Judges |-> None] /\ escrow = 0
    /\ committee = None /\ rotation = None
    /\ snapshot = None /\ used = {}
    /\ evidence = [global |-> None, frozen |-> None]

Next ==
    \/ Reveal
    \/ \E e \in Electorates : CreateCommittee(e) \/ ProposeRotation(e)
    \/ ExecuteRotation \/ CancelRotation
    \/ \E s \in Signers, o \in Attestable :
           Attest(s, o) \/ \E t \in Traces : AttestWithEvidence(s, o, t)
    \/ \E o \in Outcomes, keys \in SUBSET Signers : SubmitSignatures(o, keys)
    \/ FinalizeSigners \/ CancelProposal
    \/ \E d \in Disputers, o \in Attestable : Dispute(d, o)
    \/ \E v \in Attestable :
           SettleDispute(v) \/ \E j \in Judges : EscalationAttest(j, v)
    \/ ExpireDispute \/ ClaimDisputeBond
    \/ \E f \in FeedReads :
           \/ ResolvePrice(f) \/ SnapshotPrice(f) \/ OpenFallback(f)
           \/ ExpireMarket(f)
           \/ \E r \in Reasons : GuardianVoidMarket(r, f)
    \/ \E p \in PolicyChoices : SetEvidenceConfig(p)
    \/ \E b \in RoleChoices : MoveRole(b)
    \/ \E s \in Outcomes \cup {"void"} : OtherSettles(s)
    \/ Tick

Spec == Init /\ [][Next]_vars

(* Time passes, and whoever waits for a payout keeps calling the           *)
(* entrypoints that need no signature but the caller's.  Nothing is asked  *)
(* of the feed: the calls that read it are fair when it is unusable.       *)
Fairness ==
    /\ WF_vars(Tick)
    /\ WF_vars(FinalizeSigners)
    /\ WF_vars(ExpireDispute)
    /\ WF_vars(OpenFallback("unusable"))
    /\ WF_vars(ExpireMarket("unusable"))

LiveSpec == Spec /\ Fairness

-----------------------------------------------------------------------------
(* Properties.                                                             *)

CommitteeType == [members : SUBSET Signers, threshold : Nat, epoch : Nat]

RotationType == [members : SUBSET Signers, threshold : Nat, at : Nat]

PolicyType == {"disabled", "optional", "required", None}

(* The shape of the storage entries.                                       *)
TypeOK ==
    /\ now \in 0 .. MaxTime
    /\ core \in Outcomes \cup {"open", "void"}
    /\ by \in {"self", "other", None}
    /\ isResolver \in BOOLEAN
    /\ spec \in Specs /\ revealed \in BOOLEAN /\ state \in States
    /\ attested \in SUBSET (Attestable \X Signers)
    /\ proposal \in ProposalType \cup {None}
    /\ cancels \in 0 .. MaxCancels
    /\ seen \in [Signers -> Outcomes \cup {None}]
    /\ dispute \in DisputeType \cup {None}
    /\ votes \in [Judges -> Attestable \cup {None}]
    /\ escrow \in Nat
    /\ committee \in CommitteeType \cup {None}
    /\ rotation \in RotationType \cup {None}
    /\ snapshot \in Outcomes \cup {None}
    /\ evidence \in [global : PolicyType, frozen : PolicyType]
    /\ used \subseteq Traces

(* The two contracts agree: this one is terminal exactly when it is the    *)
(* one that settled the market in market-core, on every path (signers,     *)
(* verdict, price, guardian, expiry), even if the role moves away and back.*)
TerminalIffSettled ==
    /\ Terminal <=> by = "self"
    /\ core = "open" <=> by = None

(* market-core's void_market has no close-time guard; this contract never  *)
(* voids (nor resolves) before close all the same, because no proposal can *)
(* exist before it (finalize_signers' doc comment).                        *)
NothingBeforeClose == by = "self" => now >= CloseTime

(* A dispute freezes the market in a state a ruling can still get out of:  *)
(* the state, the Dispute entry and the proposal under dispute stay        *)
(* together, whatever signers, guardian and feed do meanwhile.             *)
DisputeIsRulable ==
    /\ state = "Disputed" <=> DisputeOpen
    /\ DisputeOpen => Mode = "disputable" /\ proposal # None

(* The contract holds the bond of every Dispute entry and nothing else: a  *)
(* bond is never overwritten by a second dispute or paid twice.            *)
BondsEscrowed == escrow = IF dispute = None THEN 0 ELSE Bond

(* What the safety of the dispute and of the close time rests on: no       *)
(* proposal before close, and a bond that has a payee belongs to a settled *)
(* market.                                                                 *)
ProposedAfterClose == proposal # None => now >= CloseTime
PayeeMeansTerminal == dispute # None /\ dispute.payee # None => Terminal

IInv ==
    /\ TypeOK /\ TerminalIffSettled /\ NothingBeforeClose
    /\ DisputeIsRulable /\ BondsEscrowed
    /\ ProposedAfterClose /\ PayeeMeansTerminal

(* A market of a fixed signer set settles on Yes or No only with its rule's *)
(* quorum for that outcome, or, if disputed, with the judges'.             *)
OutcomeIsBacked ==
    by = "self" /\ core \in Outcomes =>
        /\ Mode \in {"signers", "weighted"} => HasQuorum(core)
        /\ Mode = "disputable" /\ spec.escalation = "judges" =>
               \/ HasQuorum(core)
               \/ Cardinality({j \in Judges : votes[j] = core}) >= spec.k

(* Once a price market's price is pinned, the market settles on it: a feed *)
(* that later fails or disagrees can neither void nor flip it              *)
(* (PriceSnapshot: "so resolution survives the oracle aging the            *)
(* close_time record out of its history").                                 *)
SnapshotDecides ==
    Mode = "price" /\ snapshot # None /\ by = "self" => core = snapshot

(* Under a policy frozen as Required every attestation cites a trace of    *)
(* its signer that no other attestation cites.                             *)
EvidenceBacked ==
    evidence.frozen = "required" =>
        \A s \in Signers :
            Cardinality({t \in used : t.agent = s})
                = Cardinality({o \in Attestable : <<o, s>> \in attested})

(* What keeps both true: a weighted market that settled on Yes or No keeps  *)
(* its proposal, whose window is over, so that cancel_proposal, which does *)
(* not look at State, can no longer open a new round; and nothing is       *)
(* attested, cited or frozen before the rule is revealed.                  *)
RoundIsOver ==
    by = "self" /\ core \in Outcomes /\ Mode = "weighted" =>
        proposal # None /\ ~InWindow
NothingBeforeReveal ==
    ~revealed => attested = {} /\ used = {} /\ evidence.frozen = None

BackingInv ==
    /\ OutcomeIsBacked /\ RoundIsOver
    /\ NothingBeforeReveal /\ IsFiniteSet(used) /\ EvidenceBacked

(* A committee market settles on Yes or No only with the votes of a quorum *)
(* of the members of the moment (ADR 0001: "preventing rotated-out keys    *)
(* from deciding outcomes").                                               *)
RotatedOutKeysDoNotDecide ==
    [][core = "open" /\ core' \in Outcomes /\ by' = "self"
         /\ Mode = "committee" =>
             Cardinality(Backers(attested, core') \cap committee.members)
                 >= committee.threshold]_vars

(* As long as this contract keeps the role, the market is settled in the   *)
(* end, whatever its mode, without signers, guardian or feed: by expiry,   *)
(* by the signers' proposal or by the timeout of a dispute.                *)
EventuallySettled == <>(core # "open")

(* expire_dispute: "Permissionless fallback when the escalation authority  *)
(* never rules: `escalation_timeout` after the dispute opened, the bond is *)
(* refunded and the market is voided".  It needs this contract to keep the *)
(* resolver role: void_market fails without it.                            *)
BondComesBack == DisputeOpen ~> ~DisputeOpen

-----------------------------------------------------------------------------
(* What a market and a disputer see of all this.                           *)

Status(o) == IF o = "invalid" THEN "void" ELSE o

S == INSTANCE Settlement WITH
         closed <- now >= CloseTime, outcome <- core, own <- by = "self",
         contest <- IF DisputeOpen
                    THEN {[by |-> dispute.disputer,
                           against |-> Status(proposal.outcome)]}
                    ELSE {},
         owed <- IF dispute = None THEN {} ELSE {dispute.payee} \ {None},
         held <- escrow

(* However signers, judges, feeds, guardian, rotations and deadlines       *)
(* interleave, the market is decided once, after it closed; a contest is   *)
(* ended by the market's decision only, which says whose the bond is; and  *)
(* the bond is paid once.                                                  *)
BehavesAsSettlement == S!SettlementSpec
=============================================================================
