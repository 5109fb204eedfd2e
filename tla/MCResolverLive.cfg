SPECIFICATION LiveSpec
CONSTANTS
    s1 = s1
    s2 = s2
    s3 = s3
    j1 = j1
    j2 = j2
    Signers = {s1, s2, s3}
    Judges = {j1, j2}
    Disputers = {d1}
    Treasury = Treasury
    None = None
    NoTrace = NoTrace
    Specs <- FixedSpecs
    Electorates <- NoElectorates
    Traces <- NoTraces
    PolicyChoices <- NoPolicies
    RoleChoices <- NoRoles
    CloseTime = 1
    RevealGrace = 2
    OracleGrace = 1
    SignerGrace = 2
    ResolutionGrace = 3
    MaxCancels = 2
    MaxSigs = 3
    RotationDelay = 1
    Bond = 5
    MaxTime = 8
    LastMove = 5
    MaxEpoch = 1
CHECK_DEADLOCK FALSE
PROPERTY EventuallySettled
PROPERTY BondComesBack
