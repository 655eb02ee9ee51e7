SPECIFICATION RunSpec
CONSTANTS
    None = None
    Casts <- AllCasts
    Areas = {"server", "retention", "roots", "publication"}
PROPERTIES
    DrainSeals
    ReadyIsServing
    ShutdownEnds
    NothingStarves
    OnlyExpiredLeave
CHECK_DEADLOCK FALSE
