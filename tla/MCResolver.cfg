SPECIFICATION Spec
CONSTANTS
    s1 = s1
    s2 = s2
    s3 = s3
    j1 = j1
    j2 = j2
    Signers = {s1, s2, s3}
    Judges = {j1, j2}
    Disputers = {d1}
    Treasury = Treasury
    None = None
    NoTrace = NoTrace
    Specs <- AllSpecs
    Electorates <- TwoElectorates
    Traces <- SomeTraces
    PolicyChoices <- Policies
    RoleChoices <- Roles
    CloseTime = 1
    RevealGrace = 2
    OracleGrace = 1
    SignerGrace = 2
    ResolutionGrace = 3
    MaxCancels = 2
    MaxSigs = 3
    RotationDelay = 1
    Bond = 5
    MaxTime = 4
    LastMove = 4
    MaxEpoch = 2
CHECK_DEADLOCK FALSE
ACTION_CONSTRAINT OneConcern
INVARIANT TerminalIffSettled
INVARIANT DisputeIsRulable
INVARIANT OutcomeIsBacked
INVARIANT EvidenceBacked
PROPERTY RotatedOutKeysDoNotDecide
PROPERTY BehavesAsSettlement
