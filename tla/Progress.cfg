SPECIFICATION RunSpec
CONSTANTS
    Areas = {"poller", "cache", "scheduler"}
    s1 = s1
    s2 = s2
    Subs <- TwoSubs
    ProofTypes <- Known
    Sources <- Known
    Auctioned <- NoAuction
    Casts <- MCCasts
    Callers = {"a1", "a2", "b1"}
    Proc <- MCProc
    HasStore <- MCHasStore
    Good = {"x"}
    Bad = {"bad"}
    None = None
    Err = Err
    MaxFaults = 1
INVARIANTS
    OnlyValidated
    GoneAreForgotten
PROPERTIES
    WorkIsKept
    WaitersEnd
CHECK_DEADLOCK FALSE
