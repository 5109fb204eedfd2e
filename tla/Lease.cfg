SPECIFICATION LeaseSpec
CONSTANTS
    Processes = {"p1", "p2", "p3"}
    Elsewhere = {}
    TTL = 1
    MaxTime = 2
CHECK_DEADLOCK FALSE
INVARIANT
    OneTakerWins
