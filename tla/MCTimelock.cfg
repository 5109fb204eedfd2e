SPECIFICATION Spec
CONSTANTS
    a1 = a1
    a2 = a2
    core = core
    Self = Self
    None = None
    Addrs = {a1, a2}
    Targets = {core}
    Calls <- SomeCalls
    NewAdmins = {a2}
    RoleChoices <- BothRoles
    DelayChoices = {0, 1, 2}
    DelayKeys <- OneKey
    MinDelay = 1
    MaxDelay = 2
    ExecutionGrace = 1
    AdminTransferTtl = 1
    MaxOps = 2
    MaxTime = 3
INVARIANTS
    WaitsWhatItWasGiven
PROPERTIES
    AnnouncedFirst
