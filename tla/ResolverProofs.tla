--------------------------- MODULE ResolverProofs ---------------------------
(* Proofs about Resolver, for every rule, committee, bond and grace period.*)
EXTENDS Resolver, FiniteSetTheorems, TLAPS

(* Every rule starts in a state of the State entry that is neither         *)
(* terminal nor disputed (store_rule).                                     *)
LEMMA InitialStates ==
    ASSUME spec \in Specs
    PROVE  InitialState(spec.mode) \in
               {"Unconfigured", "SignersPending", "HybridPricePending"}
<1>1. spec.mode \in FeedModes \cup SignerModes \cup {"hybrid"}
  BY ResolverAssumption DEF SpecType
<1> QED
  BY <1>1 DEF InitialState, FeedModes, SignerModes

(* The deployed state satisfies the inductive invariant.                   *)
LEMMA InitIInv == Init => IInv
<1> SUFFICES ASSUME Init PROVE IInv
  OBVIOUS
<1>1. TypeOK
  <2>1. /\ now \in 0 .. MaxTime /\ cancels \in 0 .. MaxCancels
        /\ escrow \in Nat
    BY ResolverAssumption DEF Init
  <2>2. /\ seen \in [Signers -> Outcomes \cup {None}]
        /\ votes \in [Judges -> Attestable \cup {None}]
    BY DEF Init
  <2>3. evidence \in [global : PolicyType, frozen : PolicyType]
    BY DEF Init, PolicyType
  <2> QED
    BY <2>1, <2>2, <2>3 DEF Init, TypeOK, States
<1>2. TerminalIffSettled /\ NothingBeforeClose
  BY ResolverAssumption
     DEF Init, TerminalIffSettled, NothingBeforeClose, Terminal
<1>3. /\ DisputeIsRulable /\ BondsEscrowed
      /\ ProposedAfterClose /\ PayeeMeansTerminal
  BY DEF Init, DisputeIsRulable, DisputeOpen, BondsEscrowed,
         ProposedAfterClose, PayeeMeansTerminal
<1> QED
  BY <1>1, <1>2, <1>3 DEF IInv

-----------------------------------------------------------------------------
(* Every step keeps the storage entries' shape.                            *)
LEMMA TypeStep == TypeOK /\ BondsEscrowed /\ [Next]_vars => TypeOK'
<1> SUFFICES ASSUME TypeOK, BondsEscrowed, [Next]_vars PROVE TypeOK'
  OBVIOUS
<1> USE ResolverAssumption
    DEF TypeOK, market, lifecycle, signing, disputes, rotations, inputs
<1>1. CASE Reveal
  <2>1. state' \in States
    BY <1>1, InitialStates DEF Reveal, States
  <2>2. evidence' \in [global : PolicyType, frozen : PolicyType]
    BY <1>1 DEF Reveal
  <2> QED
    BY <1>1, <2>1, <2>2 DEF Reveal
<1>2. ASSUME NEW e \in Electorates, CreateCommittee(e) PROVE TypeOK'
  BY <1>2 DEF CreateCommittee, CommitteeType
<1>3. ASSUME NEW e \in Electorates, ProposeRotation(e) PROVE TypeOK'
  BY <1>3 DEF ProposeRotation, RotationType
<1>4. CASE ExecuteRotation
  BY <1>4 DEF ExecuteRotation, RotationType, CommitteeType
<1>5. CASE CancelRotation
  BY <1>5 DEF CancelRotation
<1>6. ASSUME NEW s \in Signers, NEW o \in Attestable,
             NEW t \in Traces \cup {NoTrace}, RecordAttestation(s, o, t)
      PROVE  TypeOK'
  BY <1>6 DEF RecordAttestation, AttestableNow, Proposing, ProposalType
<1>7. ASSUME NEW o \in Outcomes, NEW keys \in SUBSET Signers,
             SubmitSignatures(o, keys)
      PROVE  TypeOK'
  BY <1>7 DEF SubmitSignatures, Proposing, ProposalType, Attestable
<1>8. CASE FinalizeSigners
  BY <1>8 DEF FinalizeSigners, CoreSettle, CoreVoid, CoreResolve, States,
              ProposalType, Attestable
<1>9. CASE CancelProposal
  BY <1>9 DEF CancelProposal
<1>10. ASSUME NEW d \in Disputers, NEW o \in Attestable, Dispute(d, o)
       PROVE  TypeOK'
  BY <1>10 DEF Dispute, DisputeType, States
<1>11. ASSUME NEW v \in Attestable, SettleDispute(v) PROVE TypeOK'
  BY <1>11 DEF SettleDispute, ApplyVerdict, CoreSettle, CoreVoid,
               CoreResolve, States, DisputeType, DisputeOpen, Attestable
<1>12. ASSUME NEW v \in Attestable, NEW j \in Judges, EscalationAttest(j, v)
       PROVE  TypeOK'
  BY <1>12 DEF EscalationAttest, ApplyVerdict, CoreSettle, CoreVoid,
               CoreResolve, States, DisputeType, DisputeOpen, Attestable
<1>13. CASE ExpireDispute
  BY <1>13 DEF ExpireDispute, CoreVoid, Refunded, States, DisputeType,
               DisputeOpen
<1>14. CASE ClaimDisputeBond
  BY <1>14 DEF ClaimDisputeBond, BondsEscrowed
<1>15. ASSUME NEW f \in FeedReads, ResolvePrice(f) PROVE TypeOK'
  BY <1>15 DEF ResolvePrice, SettleScaled, SettleTwap, HasPriceConfig,
              SettlePrice, CoreResolve, States
<1>16. ASSUME NEW f \in FeedReads, SnapshotPrice(f) PROVE TypeOK'
  BY <1>16 DEF SnapshotPrice, HasPriceConfig
<1>17. ASSUME NEW f \in FeedReads, OpenFallback(f) PROVE TypeOK'
  BY <1>17 DEF OpenFallback, SettlePrice, CoreResolve, States
<1>18. ASSUME NEW f \in FeedReads, ExpireMarket(f) PROVE TypeOK'
  BY <1>18 DEF ExpireMarket, SettlePrice, CoreResolve, CoreVoid, States
<1>19. ASSUME NEW f \in FeedReads, NEW r \in Reasons,
              GuardianVoidMarket(r, f)
       PROVE  TypeOK'
  BY <1>19 DEF GuardianVoidMarket, CoreVoid, Refunded, States, DisputeType,
               DisputeOpen
<1>20. ASSUME NEW p \in PolicyChoices, SetEvidenceConfig(p) PROVE TypeOK'
  BY <1>20 DEF SetEvidenceConfig, PolicyType
<1>21. ASSUME NEW b \in RoleChoices, MoveRole(b) PROVE TypeOK'
  BY <1>21 DEF MoveRole
<1>22. ASSUME NEW x \in Outcomes \cup {"void"}, OtherSettles(x) PROVE TypeOK'
  BY <1>22 DEF OtherSettles
<1>23. CASE Tick
  BY <1>23 DEF Tick
<1>24. CASE UNCHANGED vars
  BY <1>24 DEF vars
<1> QED
  BY <1>1, <1>2, <1>3, <1>4, <1>5, <1>6, <1>7, <1>8, <1>9, <1>10, <1>11,
     <1>12, <1>13, <1>14, <1>15, <1>16, <1>17, <1>18, <1>19, <1>20, <1>21,
     <1>22, <1>23, <1>24 DEF Next, Attest,
     AttestWithEvidence

-----------------------------------------------------------------------------
(* The non-type part of the inductive invariant.                           *)
Safe ==
    /\ TerminalIffSettled /\ NothingBeforeClose
    /\ DisputeIsRulable /\ BondsEscrowed
    /\ ProposedAfterClose /\ PayeeMeansTerminal

(* Every step keeps the two contracts in agreement, the bond in escrow and *)
(* the disputed proposal in place.                                         *)
LEMMA SafeStep == IInv /\ [Next]_vars => Safe'
<1> SUFFICES ASSUME IInv, [Next]_vars PROVE Safe'
  OBVIOUS
<1>0. TypeOK /\ TypeOK'
  BY TypeStep DEF IInv
<1> USE <1>0, ResolverAssumption
    DEF Safe, IInv, TypeOK, TerminalIffSettled, NothingBeforeClose,
        DisputeIsRulable, BondsEscrowed, ProposedAfterClose,
        PayeeMeansTerminal, Terminal, DisputeOpen, Mode,
        market, lifecycle, signing, disputes, rotations, inputs
<1>1. CASE Reveal
  BY <1>1, InitialStates DEF Reveal
<1>2. ASSUME NEW e \in Electorates,
             CreateCommittee(e) \/ ProposeRotation(e)
      PROVE  Safe'
  BY <1>2 DEF CreateCommittee, ProposeRotation
<1>3. CASE ExecuteRotation \/ CancelRotation
  BY <1>3 DEF ExecuteRotation, CancelRotation
<1>4. ASSUME NEW s \in Signers, NEW o \in Attestable,
             NEW t \in Traces \cup {NoTrace}, RecordAttestation(s, o, t)
      PROVE  Safe'
  BY <1>4 DEF RecordAttestation, AttestableNow
<1>5. ASSUME NEW o \in Outcomes, NEW keys \in SUBSET Signers,
             SubmitSignatures(o, keys)
      PROVE  Safe'
  BY <1>5 DEF SubmitSignatures
<1>6. CASE FinalizeSigners
  BY <1>6 DEF FinalizeSigners, CoreSettle, CoreVoid, CoreResolve,
              ProposalType, Attestable, Outcomes
<1>7. CASE CancelProposal
  BY <1>7 DEF CancelProposal
<1>8. ASSUME NEW d \in Disputers, NEW o \in Attestable, Dispute(d, o)
      PROVE  Safe'
  BY <1>8 DEF Dispute, DisputeType
<1>9. ASSUME NEW v \in Attestable, ApplyVerdict(v),
             Mode = "disputable", 
             UNCHANGED <<now, spec, revealed, proposal, escrow>>
      PROVE  Safe'
  BY <1>9 DEF ApplyVerdict, CoreSettle, CoreVoid, CoreResolve, DisputeType,
              Attestable, Outcomes
<1>10. ASSUME NEW v \in Attestable, SettleDispute(v) PROVE Safe'
  BY <1>9, <1>10 DEF SettleDispute
<1>11. ASSUME NEW v \in Attestable, NEW j \in Judges, EscalationAttest(j, v)
       PROVE  Safe'
  <2>1. CASE ApplyVerdict(v)
    BY <1>9, <1>11, <2>1 DEF EscalationAttest
  <2>2. CASE UNCHANGED <<core, by, isResolver, dispute, state>>
    BY <1>11, <2>2 DEF EscalationAttest
  <2> QED
    BY <1>11, <2>1, <2>2 DEF EscalationAttest
<1>12. CASE ExpireDispute
  BY <1>12 DEF ExpireDispute, CoreVoid, Refunded, DisputeType
<1>13. CASE ClaimDisputeBond
  BY <1>13 DEF ClaimDisputeBond
<1>14. ASSUME NEW f \in FeedReads, ResolvePrice(f) PROVE Safe'
  BY <1>14 DEF ResolvePrice, SettleScaled, SettleTwap, HasPriceConfig,
              SettlePrice, CoreResolve, FeedModes, Outcomes
<1>15. ASSUME NEW f \in FeedReads, SnapshotPrice(f) PROVE Safe'
  BY <1>15 DEF SnapshotPrice, HasPriceConfig
<1>16. ASSUME NEW f \in FeedReads, OpenFallback(f) PROVE Safe'
  BY <1>16 DEF OpenFallback, SettlePrice, CoreResolve, Outcomes
<1>17. ASSUME NEW f \in FeedReads, ExpireMarket(f) PROVE Safe'
  BY <1>17 DEF ExpireMarket, SettlePrice, CoreResolve, CoreVoid, Deadline,
               Outcomes
<1>18. ASSUME NEW f \in FeedReads, NEW r \in Reasons,
              GuardianVoidMarket(r, f)
       PROVE  Safe'
  <2>1. now >= CloseTime
    <3>1. CASE r = "DisputeUpheld"
      BY <1>18, <3>1 DEF GuardianVoidMarket, GuardianMayVoid
    <3>2. CASE r = "UnrevealedSpec"
      BY <1>18, <3>2 DEF GuardianVoidMarket, GuardianMayVoid
    <3>3. CASE r = "OracleUnavailable"
      BY <1>18, <3>3 DEF GuardianVoidMarket, GuardianMayVoid
    <3>4. CASE r = "SignersStalled"
      BY <1>18, <3>4 DEF GuardianVoidMarket, GuardianMayVoid
    <3> QED
      BY <3>1, <3>2, <3>3, <3>4 DEF Reasons
  <2> QED
    BY <1>18, <2>1 DEF GuardianVoidMarket, CoreVoid, Refunded, DisputeType
<1>19. ASSUME NEW p \in PolicyChoices, SetEvidenceConfig(p) PROVE Safe'
  BY <1>19 DEF SetEvidenceConfig
<1>20. ASSUME NEW b \in RoleChoices, MoveRole(b) PROVE Safe'
  BY <1>20 DEF MoveRole
<1>21. ASSUME NEW x \in Outcomes \cup {"void"}, OtherSettles(x) PROVE Safe'
  BY <1>21 DEF OtherSettles, Outcomes
<1>22. CASE Tick
  BY <1>22 DEF Tick
<1>23. CASE UNCHANGED vars
  BY <1>23 DEF vars
<1> QED
  BY <1>1, <1>2, <1>3, <1>4, <1>5, <1>6, <1>7, <1>8, <1>10, <1>11, <1>12,
     <1>13, <1>14, <1>15, <1>16, <1>17, <1>18, <1>19, <1>20, <1>21, <1>22,
     <1>23 DEF Next, Attest,
     AttestWithEvidence

(* The inductive invariant holds in every reachable state.                 *)
THEOREM Invariance == Spec => []IInv
<1>1. Init => IInv
  BY InitIInv
<1>2. IInv /\ [Next]_vars => IInv'
  BY TypeStep, SafeStep DEF IInv, Safe
<1> QED
  BY <1>1, <1>2, PTL DEF Spec

(* The storage entries always have their shape.                            *)
THEOREM TypeCorrect == Spec => []TypeOK
BY Invariance, PTL DEF IInv

(* This contract is terminal exactly when it settled the market in         *)
(* market-core, on every resolution path and through role rotations.       *)
THEOREM ContractsAgree == Spec => []TerminalIffSettled
BY Invariance, PTL DEF IInv

(* This contract never resolves or voids a market before its close_time,   *)
(* although void_market itself does not check it.                          *)
THEOREM NeverBeforeClose == Spec => []NothingBeforeClose
BY Invariance, PTL DEF IInv

(* An open dispute, the Disputed state and the disputed proposal come and  *)
(* go together, so apply_verdict always finds what it needs.               *)
THEOREM DisputesAreRulable == Spec => []DisputeIsRulable
BY Invariance, PTL DEF IInv

(* The contract's escrow is the bond of the market's Dispute entry.        *)
THEOREM BondsAreEscrowed == Spec => []BondsEscrowed
BY Invariance, PTL DEF IInv

-----------------------------------------------------------------------------
(* A market without signers never has a proposal: what keeps the           *)
(* guardian's DisputeUpheld away from a pinned price.                      *)
OnlySignersPropose ==
    Mode \notin SignerModes \cup {"hybrid"} => proposal = None

PinInv == OnlySignersPropose /\ SnapshotDecides

(* No step breaks a pinned price's hold on the outcome.                    *)
LEMMA PinStep == IInv /\ PinInv /\ [Next]_vars => PinInv'
<1> SUFFICES ASSUME IInv, PinInv, [Next]_vars PROVE PinInv'
  OBVIOUS
<1>0. /\ TypeOK /\ TypeOK'
      /\ by = "self" <=> state \in {"Finalized", "Expired"}
  BY TypeStep DEF IInv, TerminalIffSettled, Terminal
<1> USE <1>0, ResolverAssumption
    DEF PinInv, OnlySignersPropose, SnapshotDecides, TypeOK, Mode, Terminal,
        FeedModes, SignerModes, Outcomes,
        market, lifecycle, signing, disputes, rotations, inputs
<1>1. CASE Reveal
  BY <1>1 DEF Reveal
<1>2. ASSUME NEW e \in Electorates,
             CreateCommittee(e) \/ ProposeRotation(e)
      PROVE  PinInv'
  BY <1>2 DEF CreateCommittee, ProposeRotation
<1>3. CASE ExecuteRotation \/ CancelRotation
  BY <1>3 DEF ExecuteRotation, CancelRotation
<1>4. ASSUME NEW s \in Signers, NEW o \in Attestable,
             NEW t \in Traces \cup {NoTrace}, RecordAttestation(s, o, t)
      PROVE  PinInv'
  BY <1>4 DEF RecordAttestation, AttestableNow, MayAttest
<1>5. ASSUME NEW o \in Outcomes, NEW keys \in SUBSET Signers,
             SubmitSignatures(o, keys)
      PROVE  PinInv'
  BY <1>5 DEF SubmitSignatures
<1>6. CASE FinalizeSigners \/ CancelProposal
  BY <1>6 DEF FinalizeSigners, CancelProposal
<1>7. ASSUME NEW d \in Disputers, NEW o \in Attestable, Dispute(d, o)
      PROVE  PinInv'
  BY <1>7 DEF Dispute
<1>8. ASSUME NEW v \in Attestable, NEW j \in Judges, EscalationAttest(j, v)
      PROVE  PinInv'
  BY <1>8 DEF EscalationAttest
<1>9. ASSUME NEW v \in Attestable, SettleDispute(v) PROVE PinInv'
  BY <1>9 DEF SettleDispute
<1>10. CASE ExpireDispute \/ ClaimDisputeBond
  BY <1>10 DEF ExpireDispute, ClaimDisputeBond
<1>11. ASSUME NEW f \in FeedReads, ResolvePrice(f) PROVE PinInv'
  BY <1>11 DEF ResolvePrice, SettleScaled, SettleTwap, HasPriceConfig,
              SettlePrice, CoreResolve, Priced
<1>12. ASSUME NEW f \in FeedReads, SnapshotPrice(f) PROVE PinInv'
  BY <1>12 DEF SnapshotPrice, HasPriceConfig
<1>13. ASSUME NEW f \in FeedReads, OpenFallback(f) PROVE PinInv'
  BY <1>13 DEF OpenFallback
<1>14. ASSUME NEW f \in FeedReads, ExpireMarket(f) PROVE PinInv'
  BY <1>14 DEF ExpireMarket, SettlePrice, CoreResolve, CoreVoid, Priced,
               SignersDecide
<1>15. ASSUME NEW f \in FeedReads, NEW r \in Reasons,
              GuardianVoidMarket(r, f)
       PROVE  PinInv'
  <2>1. ~(Mode = "price" /\ snapshot # None)
    <3>1. CASE r = "DisputeUpheld"
      BY <1>15, <3>1 DEF GuardianVoidMarket, GuardianMayVoid
    <3>2. CASE r = "UnrevealedSpec"
      BY <1>15, <3>2 DEF GuardianVoidMarket, GuardianMayVoid
    <3>3. CASE r = "OracleUnavailable"
      BY <1>15, <3>3 DEF GuardianVoidMarket, GuardianMayVoid, Priced
    <3>4. CASE r = "SignersStalled"
      BY <1>15, <3>4 DEF GuardianVoidMarket, GuardianMayVoid, SignersDecide
    <3> QED
      BY <3>1, <3>2, <3>3, <3>4 DEF Reasons
  <2> QED
    BY <1>15, <2>1 DEF GuardianVoidMarket
<1>16. ASSUME NEW p \in PolicyChoices, SetEvidenceConfig(p) PROVE PinInv'
  BY <1>16 DEF SetEvidenceConfig
<1>17. ASSUME NEW b \in RoleChoices, MoveRole(b) PROVE PinInv'
  BY <1>17 DEF MoveRole
<1>18. ASSUME NEW x \in Outcomes \cup {"void"}, OtherSettles(x) PROVE PinInv'
  BY <1>18 DEF OtherSettles
<1>19. CASE Tick \/ UNCHANGED vars
  BY <1>19 DEF Tick, vars
<1> QED
  BY <1>1, <1>2, <1>3, <1>4, <1>5, <1>6, <1>7, <1>8, <1>9, <1>10, <1>11,
     <1>12, <1>13, <1>14, <1>15, <1>16, <1>17, <1>18, <1>19 DEF Next, Attest,
     AttestWithEvidence

(* Once snapshot_price has pinned the price of a price market, the market  *)
(* can only settle on that price's outcome.                                *)
THEOREM PinnedPriceDecides == Spec => []SnapshotDecides
<1>1. Init => PinInv
  BY ResolverAssumption DEF Init, PinInv, OnlySignersPropose, SnapshotDecides
<1>2. IInv /\ PinInv /\ [Next]_vars => PinInv'
  BY PinStep
<1>3. PinInv => SnapshotDecides
  BY DEF PinInv
<1> QED
  BY <1>1, <1>2, <1>3, Invariance, PTL DEF Spec
-----------------------------------------------------------------------------
(* What the settlement of a market rests on, besides the market itself.    *)
backing == <<spec, revealed, attested, seen, votes, proposal>>

(* A settled market stays backed while its votes, its rule and its         *)
(* proposal stay as they are: a window that is over stays over.            *)
LEMMA StaysBacked ==
    ASSUME TypeOK, TypeOK', OutcomeIsBacked, RoundIsOver,
           UNCHANGED <<core, by>>, UNCHANGED backing, now' >= now
    PROVE  OutcomeIsBacked' /\ RoundIsOver'
<1>1. \A o \in Outcomes : Mode # "committee" => (HasQuorum(o) <=> HasQuorum(o)')
  BY DEF HasQuorum, Quorum, RoundWeight, Backers, backing, Mode
<1>2. OutcomeIsBacked'
  BY <1>1 DEF OutcomeIsBacked, backing, Mode
<1>3. ASSUME by = "self", core \in Outcomes, Mode = "weighted"
      PROVE  (proposal # None /\ ~InWindow)'
  <2>1. proposal # None /\ ~InWindow
    BY <1>3 DEF RoundIsOver
  <2>2. /\ proposal.at \in Nat /\ spec.window \in Nat
        /\ now \in Nat /\ now' \in Nat
    BY <2>1, ResolverAssumption DEF TypeOK, ProposalType, SpecType
  <2> QED
    BY <2>1, <2>2 DEF InWindow, backing
<1> QED
  BY <1>2, <1>3 DEF RoundIsOver, backing, Mode

(* Every step keeps a settled market backed by the votes it settled on.    *)
LEMMA BackedStep ==
    IInv /\ OutcomeIsBacked /\ RoundIsOver /\ [Next]_vars
        => OutcomeIsBacked' /\ RoundIsOver'
<1> SUFFICES ASSUME IInv, OutcomeIsBacked, RoundIsOver, [Next]_vars
             PROVE  OutcomeIsBacked' /\ RoundIsOver'
  OBVIOUS
<1> DEFINE Goal == OutcomeIsBacked' /\ RoundIsOver'
<1>0. /\ TypeOK /\ TypeOK'
      /\ by = "self" <=> state \in {"Finalized", "Expired"}
      /\ core = "open" <=> by = None
      /\ state = "Disputed" <=> DisputeOpen
      /\ now \in Nat
  BY TypeStep, ResolverAssumption
     DEF IInv, TerminalIffSettled, Terminal, DisputeIsRulable, TypeOK
(* Before this contract settles the market there is nothing to back.       *)
<1>1. ASSUME by' # "self" \/ core' \notin Outcomes PROVE Goal
  BY <1>1 DEF OutcomeIsBacked, RoundIsOver
<1>2. ASSUME UNCHANGED <<core, by>>, UNCHANGED backing, now' \in Nat, now' >= now
      PROVE  Goal
  BY <1>0, <1>2, StaysBacked
(* A void backs itself, and so does a market of another mode.              *)
<1>3. ASSUME CoreVoid PROVE Goal
  BY <1>1, <1>3 DEF CoreVoid, Outcomes
<1>4. ASSUME Mode \notin {"signers", "weighted", "disputable"},
             UNCHANGED <<spec, revealed>>
      PROVE  Goal
  BY <1>4 DEF OutcomeIsBacked, RoundIsOver, Mode
<1>5. ASSUME ~Terminal, UNCHANGED by PROVE Goal
  BY <1>0, <1>1, <1>5 DEF Terminal
<1> USE DEF market, lifecycle, signing, disputes, rotations, inputs
<1>6. CASE Reveal
  BY <1>5, <1>6 DEF Reveal
<1>7. ASSUME NEW e \in Electorates,
             CreateCommittee(e) \/ ProposeRotation(e)
      PROVE  Goal
  BY <1>0, <1>2, <1>7 DEF CreateCommittee, ProposeRotation, backing
<1>8. CASE ExecuteRotation \/ CancelRotation
  BY <1>0, <1>2, <1>8 DEF ExecuteRotation, CancelRotation, backing
<1>9. ASSUME NEW s \in Signers, NEW o \in Attestable,
             NEW t \in Traces \cup {NoTrace}, RecordAttestation(s, o, t)
      PROVE  Goal
  BY <1>5, <1>9 DEF RecordAttestation, AttestableNow
<1>10. ASSUME NEW o \in Outcomes, NEW keys \in SUBSET Signers,
              SubmitSignatures(o, keys)
       PROVE  Goal
  BY <1>5, <1>10 DEF SubmitSignatures
<1>11. CASE FinalizeSigners
  <2>1. /\ proposal # None /\ ~InWindow /\ HasQuorum(proposal.outcome)
        /\ CoreSettle(proposal.outcome)
        /\ UNCHANGED <<now, spec, revealed, attested, proposal, seen, votes,
                       committee>>
    BY <1>11 DEF FinalizeSigners
  <2>2. CASE proposal.outcome = "invalid"
    BY <1>3, <2>1, <2>2 DEF CoreSettle
  <2>3. CASE proposal.outcome # "invalid"
    <3>1. core' = proposal.outcome
      BY <2>1, <2>3 DEF CoreSettle, CoreResolve
    <3>2. HasQuorum(core)'
      BY <2>1, <3>1
         DEF HasQuorum, Quorum, RoundWeight, Backers, CommitteeVotes,
             EpochInBounds
    <3>3. OutcomeIsBacked'
      BY <3>2 DEF OutcomeIsBacked
    <3>4. RoundIsOver'
      BY <2>1 DEF RoundIsOver, InWindow
    <3> QED
      BY <3>3, <3>4
  <2> QED
    BY <2>2, <2>3
(* Only here does the window matter: a weighted market that settled on     *)
(* Yes or No is out of it, and the other modes keep their votes.           *)
<1>12. CASE CancelProposal
  <2>1. /\ proposal # None /\ InWindow
        /\ UNCHANGED <<now, core, by, spec, revealed, attested, votes>>
        /\ Mode # "weighted" => seen' = seen
    BY <1>12 DEF CancelProposal
  <2>2. CASE Mode = "weighted"
    BY <1>1, <2>1, <2>2 DEF RoundIsOver
  <2>3. CASE Mode # "weighted"
    <3>1. \A o \in Outcomes :
              Mode \in {"signers", "disputable"} =>
                  (HasQuorum(o) <=> HasQuorum(o)')
      BY <2>1, <2>3 DEF HasQuorum, Quorum, Backers, Mode
    <3> QED
      BY <2>1, <2>3, <3>1 DEF OutcomeIsBacked, RoundIsOver, Mode
  <2> QED
    BY <2>2, <2>3
<1>13. ASSUME NEW d \in Disputers, NEW o \in Attestable, Dispute(d, o)
       PROVE  Goal
  BY <1>5, <1>13 DEF Dispute
<1>14. ASSUME NEW v \in Attestable, SettleDispute(v) PROVE Goal
  <2>1. /\ Mode = "disputable" /\ spec.escalation = "guardian"
        /\ UNCHANGED <<spec, revealed>>
    BY <1>14 DEF SettleDispute
  <2> QED
    BY <2>1 DEF OutcomeIsBacked, RoundIsOver, Mode
<1>15. ASSUME NEW v \in Attestable, NEW j \in Judges, EscalationAttest(j, v)
       PROVE  Goal
  <2>1. /\ Mode = "disputable" /\ ~Terminal
        /\ UNCHANGED <<now, spec, revealed, attested, seen, proposal>>
    BY <1>0, <1>15 DEF EscalationAttest, Terminal
  <2>2. CASE VerdictReached(votes', v) /\ CoreSettle(v)
    <3>1. CASE v = "invalid"
      BY <1>3, <2>2, <3>1 DEF CoreSettle
    <3>2. CASE v # "invalid"
      <4>1. core' = v
        BY <2>2, <3>2 DEF CoreSettle, CoreResolve
      <4>2. Cardinality({i \in Judges : votes'[i] = core'}) >= spec'.k
        BY <2>1, <2>2, <4>1 DEF VerdictReached
      <4> QED
        BY <2>1, <4>2 DEF OutcomeIsBacked, RoundIsOver, Mode
    <3> QED
      BY <3>1, <3>2
  <2>3. CASE UNCHANGED by
    BY <1>5, <2>1, <2>3
  <2> QED
    BY <1>15, <2>2, <2>3 DEF EscalationAttest, ApplyVerdict
<1>16. CASE ExpireDispute
  BY <1>3, <1>16 DEF ExpireDispute
<1>17. CASE ClaimDisputeBond
  BY <1>0, <1>2, <1>17 DEF ClaimDisputeBond, backing
<1>18. ASSUME NEW f \in FeedReads, ResolvePrice(f) PROVE Goal
  BY <1>4, <1>18
     DEF ResolvePrice, SettleScaled, SettleTwap, HasPriceConfig
<1>19. ASSUME NEW f \in FeedReads, SnapshotPrice(f) PROVE Goal
  BY <1>5, <1>19 DEF SnapshotPrice
<1>20. ASSUME NEW f \in FeedReads, OpenFallback(f) PROVE Goal
  BY <1>4, <1>20 DEF OpenFallback
<1>21. ASSUME NEW f \in FeedReads, ExpireMarket(f) PROVE Goal
  BY <1>3, <1>4, <1>21 DEF ExpireMarket, FeedModes
<1>22. ASSUME NEW f \in FeedReads, NEW r \in Reasons,
              GuardianVoidMarket(r, f)
       PROVE  Goal
  BY <1>3, <1>22 DEF GuardianVoidMarket
<1>23. ASSUME NEW p \in PolicyChoices, SetEvidenceConfig(p) PROVE Goal
  BY <1>0, <1>2, <1>23 DEF SetEvidenceConfig, backing
<1>24. ASSUME NEW b \in RoleChoices, MoveRole(b) PROVE Goal
  BY <1>0, <1>2, <1>24 DEF MoveRole, backing
<1>25. ASSUME NEW x \in Outcomes \cup {"void"}, OtherSettles(x) PROVE Goal
  BY <1>1, <1>25 DEF OtherSettles
<1>26. CASE Tick
  BY <1>0, <1>2, <1>26 DEF Tick, backing
<1>27. CASE UNCHANGED vars
  BY <1>0, <1>2, <1>27 DEF vars, backing
<1> QED
  BY <1>6, <1>7, <1>8, <1>9, <1>10, <1>11, <1>12, <1>13, <1>14, <1>15,
     <1>16, <1>17, <1>18, <1>19, <1>20, <1>21, <1>22, <1>23, <1>24, <1>25,
     <1>26, <1>27 DEF Next, Attest, AttestWithEvidence
(* Under a policy that asks for evidence, each signer's traces and         *)
(* attestations are as many.                                               *)
Cited(s) == {t \in used : t.agent = s}
Given(s) == {o \in Attestable : <<o, s>> \in attested}

(* The evidence part of the backing invariant.                             *)
EvidenceInv == NothingBeforeReveal /\ IsFiniteSet(used) /\ EvidenceBacked

(* A step that neither attests nor reveals leaves the evidence as it is.   *)
LEMMA EvidenceUntouched ==
    ASSUME EvidenceInv, UNCHANGED <<revealed, attested, used>>,
           evidence'.frozen = evidence.frozen
    PROVE  EvidenceInv'
BY DEF EvidenceInv, NothingBeforeReveal, EvidenceBacked

(* An attestation under a required policy cites one new trace of its own   *)
(* signer, so both counts of that signer, and no other, grow by one.       *)
LEMMA AttestationCites ==
    ASSUME TypeOK, EvidenceInv,
           NEW s \in Signers, NEW o \in Attestable,
           NEW t \in Traces \cup {NoTrace}, RecordAttestation(s, o, t)
    PROVE  EvidenceInv'
<1>1. /\ MayAttest(s) /\ EvidenceOk(s, t) /\ <<o, s>> \notin attested
      /\ used' = IF t = NoTrace THEN used ELSE used \cup {t}
      /\ attested' = attested \cup {<<o, s>>}
      /\ UNCHANGED <<revealed, evidence>>
  BY DEF RecordAttestation, lifecycle
<1>2. revealed' /\ NothingBeforeReveal'
  BY <1>1 DEF MayAttest, Mode, NothingBeforeReveal
<1>3. IsFiniteSet(used')
  BY <1>1, FS_AddElement DEF EvidenceInv
<1>4. ASSUME evidence.frozen = "required", NEW x \in Signers
      PROVE  Cardinality(Cited(x)') = Cardinality(Given(x)')
  <2>1. Policy = "required"
    <3>1. evidence.frozen # None
      BY <1>4, ResolverAssumption
    <3> QED
      BY <1>4, <3>1 DEF Policy
  <2>2. /\ t # NoTrace /\ t \notin used /\ t.agent = s
        /\ used' = used \cup {t}
    BY <1>1, <2>1 DEF EvidenceOk
  <2>3. Cardinality(Cited(x)) = Cardinality(Given(x))
    BY <1>4 DEF EvidenceInv, EvidenceBacked, Cited, Given
  <2>4. IsFiniteSet(Cited(x)) /\ IsFiniteSet(Given(x))
    <3>1. IsFiniteSet(Cited(x))
      BY FS_Subset DEF EvidenceInv, Cited
    <3>2. IsFiniteSet(Attestable)
      <4>1. IsFiniteSet({"yes"})
        BY FS_Singleton
      <4>2. IsFiniteSet({"yes"} \cup {"no"})
        BY <4>1, FS_AddElement
      <4>3. IsFiniteSet({"yes"} \cup {"no"} \cup {"invalid"})
        BY <4>2, FS_AddElement
      <4>4. Attestable = {"yes"} \cup {"no"} \cup {"invalid"}
        BY DEF Attestable, Outcomes
      <4> QED
        BY <4>3, <4>4
    <3> QED
      BY <3>1, <3>2, FS_Subset DEF Given
  <2>5. CASE x = s
    <3>1. Cited(x)' = Cited(x) \cup {t} /\ t \notin Cited(x)
      BY <2>2, <2>5 DEF Cited
    <3>2. Given(x)' = Given(x) \cup {o} /\ o \notin Given(x)
      BY <1>1, <2>5 DEF Given
    <3>3. Cardinality(Cited(x)') = Cardinality(Cited(x)) + 1
      BY <2>4, <3>1, FS_AddElement
    <3>4. Cardinality(Given(x)') = Cardinality(Given(x)) + 1
      BY <2>4, <3>2, FS_AddElement
    <3> QED
      BY <2>3, <3>3, <3>4
  <2>6. CASE x # s
    <3>1. Cited(x)' = Cited(x)
      BY <2>2, <2>6 DEF Cited
    <3>2. Given(x)' = Given(x)
      BY <1>1, <2>6 DEF Given
    <3> QED
      BY <2>3, <3>1, <3>2
  <2> QED
    BY <2>5, <2>6
<1>5. EvidenceBacked'
  BY <1>1, <1>4 DEF EvidenceBacked, Cited, Given
<1> QED
  BY <1>2, <1>3, <1>5 DEF EvidenceInv

(* Every step keeps attestations and traces in step.                       *)
LEMMA EvidenceStep == IInv /\ EvidenceInv /\ [Next]_vars => EvidenceInv'
<1> SUFFICES ASSUME IInv, EvidenceInv, [Next]_vars PROVE EvidenceInv'
  OBVIOUS
<1>0. TypeOK
  BY DEF IInv
<1> USE DEF market, lifecycle, signing, disputes, rotations, inputs
(* The policy is frozen while nothing was attested yet.                    *)
<1>1. CASE Reveal
  <2>1. ~revealed /\ revealed' /\ UNCHANGED <<attested, used>>
    BY <1>1 DEF Reveal
  <2>2. attested = {} /\ used = {}
    BY <2>1 DEF EvidenceInv, NothingBeforeReveal
  <2>3. EvidenceBacked'
    <3>1. ASSUME NEW s \in Signers PROVE Cited(s)' = {} /\ Given(s)' = {}
      BY <2>1, <2>2 DEF Cited, Given
    <3> QED
      BY <3>1 DEF EvidenceBacked, Cited, Given
  <2> QED
    BY <2>1, <2>3 DEF EvidenceInv, NothingBeforeReveal
<1>2. ASSUME NEW s \in Signers, NEW o \in Attestable,
             NEW t \in Traces \cup {NoTrace}, RecordAttestation(s, o, t)
      PROVE  EvidenceInv'
  BY <1>0, <1>2, AttestationCites
<1>3. ASSUME NEW p \in PolicyChoices, SetEvidenceConfig(p) PROVE EvidenceInv'
  <2>1. evidence'.frozen = evidence.frozen
    BY <1>0, <1>3 DEF SetEvidenceConfig, TypeOK
  <2> QED
    BY <1>3, <2>1, EvidenceUntouched DEF SetEvidenceConfig
<1>4. ASSUME UNCHANGED <<revealed, attested, used, evidence>>
      PROVE  EvidenceInv'
  BY <1>4, EvidenceUntouched
<1>5. ASSUME NEW e \in Electorates, CreateCommittee(e) \/ ProposeRotation(e)
      PROVE  EvidenceInv'
  BY <1>4, <1>5 DEF CreateCommittee, ProposeRotation
<1>6. CASE ExecuteRotation \/ CancelRotation
  BY <1>4, <1>6 DEF ExecuteRotation, CancelRotation
<1>7. ASSUME NEW o \in Outcomes, NEW keys \in SUBSET Signers,
             SubmitSignatures(o, keys)
      PROVE  EvidenceInv'
  BY <1>4, <1>7 DEF SubmitSignatures
<1>8. CASE FinalizeSigners \/ CancelProposal
  BY <1>4, <1>8 DEF FinalizeSigners, CancelProposal
<1>9. ASSUME NEW d \in Disputers, NEW o \in Attestable, Dispute(d, o)
      PROVE  EvidenceInv'
  BY <1>4, <1>9 DEF Dispute
<1>10. ASSUME NEW v \in Attestable, SettleDispute(v) PROVE EvidenceInv'
  BY <1>4, <1>10 DEF SettleDispute
<1>11. ASSUME NEW v \in Attestable, NEW j \in Judges, EscalationAttest(j, v)
       PROVE  EvidenceInv'
  BY <1>4, <1>11 DEF EscalationAttest
<1>12. CASE ExpireDispute \/ ClaimDisputeBond
  BY <1>4, <1>12 DEF ExpireDispute, ClaimDisputeBond
<1>13. ASSUME NEW f \in FeedReads, ResolvePrice(f) \/ SnapshotPrice(f)
       PROVE  EvidenceInv'
  BY <1>4, <1>13 DEF ResolvePrice, SnapshotPrice
<1>14. ASSUME NEW f \in FeedReads, OpenFallback(f) \/ ExpireMarket(f)
       PROVE  EvidenceInv'
  BY <1>4, <1>14 DEF OpenFallback, ExpireMarket
<1>15. ASSUME NEW f \in FeedReads, NEW r \in Reasons,
              GuardianVoidMarket(r, f)
       PROVE  EvidenceInv'
  BY <1>4, <1>15 DEF GuardianVoidMarket
<1>16. ASSUME NEW b \in RoleChoices, MoveRole(b) PROVE EvidenceInv'
  BY <1>4, <1>16 DEF MoveRole
<1>17. ASSUME NEW x \in Outcomes \cup {"void"}, OtherSettles(x)
       PROVE  EvidenceInv'
  BY <1>4, <1>17 DEF OtherSettles
<1>18. CASE Tick \/ UNCHANGED vars
  BY <1>4, <1>18 DEF Tick, vars
<1> QED
  BY <1>1, <1>2, <1>3, <1>5, <1>6, <1>7, <1>8, <1>9, <1>10, <1>11, <1>12,
     <1>13, <1>14, <1>15, <1>16, <1>17, <1>18
     DEF Next, Attest, AttestWithEvidence

(* Settled markets stay backed and required evidence stays cited.          *)
THEOREM BackingInvariance == Spec => []BackingInv
<1>1. Init => OutcomeIsBacked /\ RoundIsOver /\ EvidenceInv
  <2> SUFFICES ASSUME Init PROVE OutcomeIsBacked /\ RoundIsOver /\ EvidenceInv
    OBVIOUS
  <2>1. OutcomeIsBacked /\ RoundIsOver
    BY DEF Init, OutcomeIsBacked, RoundIsOver, Outcomes
  <2>2. EvidenceInv
    BY FS_EmptySet, ResolverAssumption
       DEF Init, EvidenceInv, NothingBeforeReveal, EvidenceBacked
  <2> QED
    BY <2>1, <2>2
<1>2. IInv /\ OutcomeIsBacked /\ RoundIsOver /\ EvidenceInv /\ [Next]_vars
          => (OutcomeIsBacked /\ RoundIsOver /\ EvidenceInv)'
  BY BackedStep, EvidenceStep
<1>3. OutcomeIsBacked /\ RoundIsOver /\ EvidenceInv => BackingInv
  BY DEF BackingInv, EvidenceInv
<1> QED
  BY <1>1, <1>2, <1>3, Invariance, PTL DEF Spec

(* finalize_signers and escalation_attest settle a market on Yes or No     *)
(* only with the quorum its rule asks for, and no later cancel, rotation   *)
(* or vote takes that backing away.                                        *)
THEOREM SettlementIsBacked == Spec => []OutcomeIsBacked
BY BackingInvariance, PTL DEF BackingInv

(* attest and attest_with_evidence: under a policy frozen as Required no   *)
(* attestation goes without a trace of its own.                            *)
THEOREM RequiredEvidenceIsCited == Spec => []EvidenceBacked
BY BackingInvariance, PTL DEF BackingInv

(* A market of a rotating committee settles on Yes or No only in           *)
(* finalize_signers, which recounts the votes of the members of the moment.*)
THEOREM OnlyMembersDecide == Spec => RotatedOutKeysDoNotDecide
<1> DEFINE Settling == core = "open" /\ core' \in Outcomes /\ by' = "self"
                          /\ Mode = "committee"
           Decided == Cardinality(Backers(attested, core')
                                  \cap committee.members)
                          >= committee.threshold
<1>1. TypeOK /\ [Next]_vars => (Settling => Decided)
  <2> SUFFICES ASSUME TypeOK, [Next]_vars, Settling PROVE Decided
    OBVIOUS
  <2>0. /\ spec.mode = "committee" /\ core' # core /\ core' # "void"
        /\ Mode \notin FeedModes
    BY DEF Mode, Outcomes, FeedModes
  <2> USE DEF market, lifecycle, signing, disputes, rotations, inputs
  <2>1. CASE FinalizeSigners
    <3>1. core' = proposal.outcome
      BY <2>0, <2>1 DEF FinalizeSigners, CoreSettle, CoreVoid, CoreResolve
    <3> QED
      BY <2>0, <2>1, <3>1
         DEF FinalizeSigners, HasQuorum, Quorum, CommitteeVotes
  <2>2. ASSUME ~FinalizeSigners PROVE FALSE
    <3>1. ASSUME NEW v \in Attestable, NEW j \in Judges,
                 SettleDispute(v) \/ EscalationAttest(j, v)
          PROVE  FALSE
      BY <3>1 DEF SettleDispute, EscalationAttest
    <3>2. ASSUME NEW v \in Attestable, SettleDispute(v) PROVE FALSE
      BY <3>2 DEF SettleDispute
    <3>3. ASSUME NEW f \in FeedReads,
                 ResolvePrice(f) \/ OpenFallback(f) \/ ExpireMarket(f)
          PROVE  FALSE
      BY <2>0, <3>3
         DEF ResolvePrice, SettleScaled, SettleTwap, HasPriceConfig,
             OpenFallback, ExpireMarket, CoreVoid, FeedModes
    <3>4. ASSUME NEW f \in FeedReads, NEW r \in Reasons,
                 GuardianVoidMarket(r, f)
          PROVE  FALSE
      BY <2>0, <3>4 DEF GuardianVoidMarket, CoreVoid
    <3>5. CASE ExpireDispute \/ ClaimDisputeBond
      BY <2>0, <3>5 DEF ExpireDispute, ClaimDisputeBond, CoreVoid
    <3>6. ASSUME NEW x \in Outcomes \cup {"void"}, OtherSettles(x)
          PROVE  FALSE
      BY <3>6 DEF OtherSettles
    <3>7. CASE UNCHANGED core
      BY <2>0, <3>7
    <3>8. ASSUME NEW s \in Signers, NEW o \in Attestable,
                 NEW t \in Traces \cup {NoTrace}, RecordAttestation(s, o, t)
          PROVE  FALSE
      BY <3>7, <3>8 DEF RecordAttestation
    <3>9. ASSUME NEW o \in Outcomes, NEW keys \in SUBSET Signers,
                 SubmitSignatures(o, keys)
          PROVE  FALSE
      BY <3>7, <3>9 DEF SubmitSignatures
    <3>10. ASSUME NEW d \in Disputers, NEW o \in Attestable, Dispute(d, o)
           PROVE  FALSE
      BY <3>7, <3>10 DEF Dispute
    <3>11. ASSUME NEW e \in Electorates,
                  CreateCommittee(e) \/ ProposeRotation(e)
           PROVE  FALSE
      BY <3>7, <3>11 DEF CreateCommittee, ProposeRotation
    <3>12. ASSUME NEW f \in FeedReads, SnapshotPrice(f) PROVE FALSE
      BY <3>7, <3>12 DEF SnapshotPrice
    <3>13. ASSUME NEW p \in PolicyChoices, SetEvidenceConfig(p) PROVE FALSE
      BY <3>7, <3>13 DEF SetEvidenceConfig
    <3>14. ASSUME NEW b \in RoleChoices, MoveRole(b) PROVE FALSE
      BY <3>7, <3>14 DEF MoveRole
    <3>15. CASE \/ Reveal \/ ExecuteRotation \/ CancelRotation
                \/ CancelProposal \/ Tick \/ UNCHANGED vars
      BY <3>7, <3>15 DEF Reveal, ExecuteRotation, CancelRotation,
                         CancelProposal, Tick, vars
    <3> QED
      BY <2>2, <3>1, <3>2, <3>3, <3>4, <3>5, <3>6, <3>8, <3>9, <3>10,
         <3>11, <3>12, <3>13, <3>14, <3>15
         DEF Next, Attest, AttestWithEvidence
  <2> QED
    BY <2>1, <2>2
<1>2. TypeOK /\ [Next]_vars => [Settling => Decided]_vars
  BY <1>1
<1> QED
  BY <1>2, TypeCorrect, PTL DEF Spec, RotatedOutKeysDoNotDecide

-----------------------------------------------------------------------------
(* The refinement.                                                         *)

(* What the resolver's entries say of the promised market.                 *)
Contested ==
    IF DisputeOpen THEN {[by |-> dispute.disputer,
                          against |-> Status(proposal.outcome)]}
    ELSE {}
Owed == IF dispute = None THEN {} ELSE {dispute.payee} \ {None}
Promised == <<now >= CloseTime, core, by = "self", Contested, Owed, escrow>>

(* Steps that touch neither market nor dispute, and no disputed proposal,  *)
(* change nothing that was promised.                                       *)
LEMMA NothingPromised ==
    ASSUME UNCHANGED <<now, core, by, dispute, escrow>>,
           DisputeOpen => UNCHANGED proposal
    PROVE  UNCHANGED Promised
BY DEF Promised, Contested, Owed, DisputeOpen

(* A settlement while no dispute is open is a decision.                    *)
LEMMA Decision ==
    ASSUME IInv, NEW o \in Outcomes \cup {"void"}, ~DisputeOpen,
           core = "open", now >= CloseTime, now \in Int,
           core' = o, by' = "self", UNCHANGED <<now, dispute, escrow>>
    PROVE  S!SettlementNext
<1>1. ~DisputeOpen'
  BY DEF DisputeOpen
<1>2. o \in S!Finals
  BY DEF S!Finals, Outcomes
<1>3. S!Decide(o)
  BY <1>1 DEF S!Decide, S!DecideHere
<1> QED
  BY <1>2, <1>3 DEF S!SettlementNext

(* A step of the resolver is a step of the promised market or none.        *)
LEMMA StepIsPromised ==
    IInv /\ [Next]_vars => [S!SettlementNext]_(S!settlementVars)
<1> SUFFICES ASSUME IInv, [Next]_vars
             PROVE  S!SettlementNext \/ UNCHANGED Promised
  BY DEF S!settlementVars, Promised, Contested, Owed
<1> DEFINE Goal == S!SettlementNext \/ UNCHANGED Promised
<1>0. /\ TypeOK /\ now \in Nat /\ CloseTime \in Nat
      /\ by = "self" <=> Terminal
      /\ core = "open" <=> by = None
      /\ by = "self" => now >= CloseTime
      /\ state = "Disputed" <=> DisputeOpen
      /\ DisputeOpen => Mode = "disputable" /\ proposal # None
      /\ proposal # None => now >= CloseTime
      /\ dispute # None /\ dispute.payee # None => Terminal
      /\ None \notin {"self", "other"}
  BY ResolverAssumption
     DEF IInv, TypeOK, TerminalIffSettled, NothingBeforeClose,
         DisputeIsRulable, ProposedAfterClose, PayeeMeansTerminal
<1>1. Terminal => state # "Disputed"
  BY DEF Terminal
<1> USE DEF market, lifecycle, signing, disputes, rotations, inputs
(* Most steps are nobody's business.                                       *)
<1>2. ASSUME UNCHANGED <<now, core, by, dispute, escrow>>,
             state # "Disputed" \/ UNCHANGED proposal
      PROVE  Goal
  BY <1>0, <1>2, NothingPromised
<1>3. CASE Reveal
  BY <1>2, <1>3 DEF Reveal
<1>4. ASSUME NEW e \in Electorates,
             CreateCommittee(e) \/ ProposeRotation(e)
      PROVE  Goal
  BY <1>2, <1>4 DEF CreateCommittee, ProposeRotation
<1>5. CASE ExecuteRotation \/ CancelRotation
  BY <1>2, <1>5 DEF ExecuteRotation, CancelRotation
<1>6. ASSUME NEW s \in Signers, NEW o \in Attestable,
             NEW t \in Traces \cup {NoTrace}, RecordAttestation(s, o, t)
      PROVE  Goal
  BY <1>2, <1>6 DEF RecordAttestation, AttestableNow
<1>7. ASSUME NEW o \in Outcomes, NEW keys \in SUBSET Signers,
             SubmitSignatures(o, keys)
      PROVE  Goal
  <2>1. state # "Disputed"
    BY <1>0, <1>7 DEF SubmitSignatures
  <2> QED
    BY <1>2, <1>7, <2>1 DEF SubmitSignatures
<1>8. CASE CancelProposal
  BY <1>2, <1>8 DEF CancelProposal
<1>9. ASSUME NEW f \in FeedReads, SnapshotPrice(f) PROVE Goal
  BY <1>2, <1>9 DEF SnapshotPrice
<1>10. ASSUME NEW p \in PolicyChoices, SetEvidenceConfig(p) PROVE Goal
  BY <1>2, <1>10 DEF SetEvidenceConfig
<1>11. ASSUME NEW b \in RoleChoices, MoveRole(b) PROVE Goal
  BY <1>2, <1>11 DEF MoveRole
(* Settlements without a dispute.                                          *)
<1>12. ASSUME NEW o \in Attestable, CoreSettle(o), ~DisputeOpen,
              now >= CloseTime, UNCHANGED <<now, dispute, escrow>>
       PROVE  Goal
  <2>1. CASE o = "invalid"
    <3>1. core = "open" /\ core' = "void" /\ by' = "self"
      BY <1>12, <2>1 DEF CoreSettle, CoreVoid
    <3> QED
      BY <1>0, <1>12, <3>1, Decision
  <2>2. CASE o # "invalid"
    <3>1. core = "open" /\ core' = o /\ by' = "self" /\ o \in Outcomes
      BY <1>12, <2>2 DEF CoreSettle, CoreResolve, Attestable
    <3> QED
      BY <1>0, <1>12, <3>1, Decision
  <2> QED
    BY <2>1, <2>2
<1>13. ASSUME NEW o, SettlePrice(o), ~DisputeOpen,
              UNCHANGED <<now, dispute, escrow>>
       PROVE  Goal
  <2>1. o \in Attestable /\ CoreSettle(o) /\ now >= CloseTime
    BY <1>13 DEF SettlePrice, Attestable, Outcomes, CoreSettle, CoreResolve
  <2> QED
    BY <1>12, <1>13, <2>1
<1>14. CASE FinalizeSigners
  <2>1. proposal.outcome \in Attestable /\ now >= CloseTime
    BY <1>0, <1>14 DEF FinalizeSigners, TypeOK, ProposalType
  <2> QED
    BY <1>0, <1>12, <1>14, <2>1 DEF FinalizeSigners
<1>15. ASSUME NEW f \in FeedReads, ResolvePrice(f) PROVE Goal
  <2>1. Mode # "disputable"
    BY <1>15 DEF ResolvePrice, HasPriceConfig, SettleScaled, SettleTwap
  <2>2. PICK o : SettlePrice(o)
    BY <1>15 DEF ResolvePrice, SettleScaled, SettleTwap
  <2> QED
    BY <1>0, <1>13, <1>15, <2>1, <2>2 DEF ResolvePrice
<1>16. ASSUME NEW f \in FeedReads, OpenFallback(f) PROVE Goal
  <2>1. ~DisputeOpen
    BY <1>0, <1>16 DEF OpenFallback
  <2>2. CASE SettlePrice(Priced(f))
    BY <1>13, <1>16, <2>1, <2>2 DEF OpenFallback
  <2>3. CASE UNCHANGED market
    BY <1>0, <1>2, <1>16, <2>1, <2>3 DEF OpenFallback
  <2> QED
    BY <1>16, <2>2, <2>3 DEF OpenFallback
<1>17. ASSUME NEW f \in FeedReads, ExpireMarket(f) PROVE Goal
  <2>1. ~DisputeOpen /\ now >= CloseTime
    BY <1>0, <1>17, ResolverAssumption DEF ExpireMarket, Deadline
  <2>2. CASE SettlePrice(Priced(f))
    BY <1>13, <1>17, <2>1, <2>2 DEF ExpireMarket
  <2>3. CASE CoreVoid
    BY <1>12, <1>17, <2>1, <2>3 DEF ExpireMarket, CoreSettle, Attestable
  <2> QED
    BY <1>17, <2>2, <2>3 DEF ExpireMarket
(* Disputes.                                                               *)
<1>18. ASSUME NEW d \in Disputers, NEW o \in Attestable, Dispute(d, o)
       PROVE  Goal
  <2>1. /\ proposal \in ProposalType /\ now >= CloseTime /\ by # "self"
        /\ ~DisputeOpen /\ dispute = None
    BY <1>0, <1>18 DEF Dispute, DisputeOpen, TypeOK
  <2>2. DisputeOpen' /\ dispute'.disputer = d /\ dispute'.payee = None
    <3>1. dispute' \in DisputeType
      BY <1>0, <1>18 DEF Dispute, DisputeType
    <3> QED
      BY <1>18, <3>1, ResolverAssumption DEF Dispute, DisputeOpen
  <2>3. Status(proposal.outcome) \in S!Finals
    BY <2>1 DEF ProposalType, Status, Attestable, Outcomes, S!Finals
  <2>4. dispute' # None
    BY <2>2 DEF DisputeOpen
  <2>5. S!Contest(d, Status(proposal.outcome))
    BY <1>0, <1>18, <2>1, <2>2, <2>4 DEF S!Contest, Dispute
  <2> QED
    BY <2>3, <2>5 DEF S!SettlementNext
<1>19. ASSUME NEW v \in Attestable, ApplyVerdict(v),
              UNCHANGED <<now, proposal, escrow>>
       PROVE  Goal
  <2>1. /\ dispute \in DisputeType /\ dispute.payee = None
        /\ proposal \in ProposalType /\ now >= CloseTime
    BY <1>0, <1>19 DEF ApplyVerdict, DisputeOpen, TypeOK
  <2>2. /\ core = "open" /\ core' = Status(v) /\ by' = "self"
    BY <1>19 DEF ApplyVerdict, CoreSettle, CoreVoid, CoreResolve, Status
  <2>3. /\ dispute' \in DisputeType /\ dispute' # None
        /\ dispute'.payee = IF v = proposal.outcome THEN Treasury
                            ELSE dispute.disputer
        /\ dispute'.payee # None
    BY <1>19, <2>1, ResolverAssumption DEF ApplyVerdict, DisputeType
  <2>4. ~DisputeOpen'
    BY <2>3 DEF DisputeOpen
  <2>5. Status(v) = Status(proposal.outcome) <=> v = proposal.outcome
    BY <2>1 DEF Status, ProposalType, Attestable, Outcomes
  <2>6. Status(v) \in S!Finals
    BY DEF Status, Attestable, Outcomes, S!Finals
  <2>7. DisputeOpen /\ dispute # None
    BY <1>19 DEF ApplyVerdict, DisputeOpen
  <2>8. S!Rule(Status(v))
    BY <1>19, <2>1, <2>2, <2>3, <2>4, <2>5, <2>7 DEF S!Rule, S!DecideHere
  <2> QED
    BY <2>6, <2>8 DEF S!SettlementNext
<1>20. ASSUME NEW v \in Attestable, SettleDispute(v) PROVE Goal
  BY <1>19, <1>20 DEF SettleDispute
<1>21. ASSUME NEW v \in Attestable, NEW j \in Judges, EscalationAttest(j, v)
       PROVE  Goal
  <2>1. CASE ApplyVerdict(v)
    BY <1>19, <1>21, <2>1 DEF EscalationAttest
  <2>2. CASE UNCHANGED <<core, by, isResolver, dispute, state>>
    BY <1>2, <1>21, <2>2 DEF EscalationAttest
  <2> QED
    BY <1>21, <2>1, <2>2 DEF EscalationAttest
(* A void in the middle of a dispute returns the bond.                     *)
<1>22. ASSUME CoreVoid, DisputeOpen, dispute' = Refunded,
              UNCHANGED <<now, proposal, escrow>>
       PROVE  Goal
  <2>1. dispute \in DisputeType /\ now >= CloseTime
    BY <1>0, <1>22 DEF DisputeOpen, TypeOK
  <2>2. /\ dispute' \in DisputeType /\ dispute' # None
        /\ dispute'.payee = dispute.disputer /\ dispute'.payee # None
    BY <1>22, <2>1, ResolverAssumption DEF Refunded, DisputeType
  <2>3. ~DisputeOpen'
    BY <2>2 DEF DisputeOpen
  <2>4. dispute # None
    BY <1>22 DEF DisputeOpen
  <2>5. S!CallOff
    BY <1>22, <2>1, <2>2, <2>3, <2>4 DEF S!CallOff, S!DecideHere, CoreVoid
  <2> QED
    BY <2>5 DEF S!SettlementNext
<1>23. CASE ExpireDispute
  BY <1>22, <1>23 DEF ExpireDispute
<1>24. ASSUME NEW f \in FeedReads, NEW r \in Reasons,
              GuardianVoidMarket(r, f)
       PROVE  Goal
  <2>1. now >= CloseTime
    <3>1. by' = "self" /\ now' = now
      BY <1>24 DEF GuardianVoidMarket, CoreVoid
    <3>2. Safe'
      BY SafeStep
    <3> QED
      BY <3>1, <3>2 DEF Safe, NothingBeforeClose
  <2>2. CASE DisputeOpen
    BY <1>22, <1>24, <2>2 DEF GuardianVoidMarket
  <2>3. CASE ~DisputeOpen
    BY <1>12, <1>24, <2>1, <2>3
       DEF GuardianVoidMarket, Refunded, CoreSettle, Attestable
  <2> QED
    BY <2>2, <2>3
<1>25. CASE ClaimDisputeBond
  <2>1. /\ ~DisputeOpen /\ dispute # None /\ dispute.payee # None
        /\ dispute' = None /\ escrow' = escrow - Bond
        /\ UNCHANGED <<now, core, by>>
    BY <1>25 DEF ClaimDisputeBond, DisputeOpen
  <2>2. ~DisputeOpen'
    BY <2>1 DEF DisputeOpen
  <2>3. S!Pay
    BY <2>1, <2>2 DEF S!Pay
  <2> QED
    BY <2>3 DEF S!SettlementNext
(* The other resolver, and time.                                           *)
<1>26. ASSUME NEW x \in Outcomes \cup {"void"}, OtherSettles(x) PROVE Goal
  <2>1. x \in S!Finals
    BY DEF Outcomes, S!Finals
  <2>2. DisputeOpen' = DisputeOpen /\ (by = "self") = (by' = "self")
    BY <1>0, <1>26 DEF OtherSettles, DisputeOpen
  <2>3. S!DecideElsewhere(x)
    BY <1>26, <2>2 DEF S!DecideElsewhere, OtherSettles
  <2> QED
    BY <2>1, <2>3 DEF S!SettlementNext
<1>27. CASE Tick
  <2>1. DisputeOpen' = DisputeOpen
    BY <1>27 DEF Tick, DisputeOpen
  <2>2. CASE now >= CloseTime
    BY <1>0, <1>27, <2>1, <2>2 DEF Tick, Promised, Contested, Owed
  <2>3. CASE ~(now >= CloseTime) /\ now' >= CloseTime
    <3>1. S!Close
      BY <1>27, <2>1, <2>3 DEF Tick, S!Close
    <3> QED
      BY <3>1 DEF S!SettlementNext
  <2>4. CASE ~(now >= CloseTime) /\ ~(now' >= CloseTime)
    BY <1>27, <2>1, <2>4 DEF Tick, Promised, Contested, Owed
  <2> QED
    BY <2>2, <2>3, <2>4
<1>28. CASE UNCHANGED vars
  BY <1>2, <1>28 DEF vars
<1> QED
  BY <1>3, <1>4, <1>5, <1>6, <1>7, <1>8, <1>9, <1>10, <1>11, <1>14, <1>15,
     <1>16, <1>17, <1>18, <1>20, <1>21, <1>23, <1>24, <1>25, <1>26, <1>27,
     <1>28 DEF Next, Attest, AttestWithEvidence

(* A market and its bond are settled as promised (Settlement), in every    *)
(* mode and whoever calls whatever entrypoint when: the market once and    *)
(* after it closed, a contest only by that, the bond once and to the right *)
(* one.                                                                    *)
THEOREM MarketsSettleAsPromised == Spec => BehavesAsSettlement
<1>1. Init => S!SettlementInit
  BY ResolverAssumption DEF Init, S!SettlementInit, DisputeOpen
<1> QED
  BY <1>1, StepIsPromised, Invariance, PTL
     DEF Spec, BehavesAsSettlement, S!SettlementSpec
=============================================================================
