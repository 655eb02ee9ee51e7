SPECIFICATION RunSpec
CONSTANTS
    Areas = {"network", "poller", "publication"}
    r1 = r1
    r2 = r2
    w1 = w1
    w2 = w2
    s1 = s1
    s2 = s2
    p1 = p1
    p2 = p2
    p3 = p3
    h1 = h1
    h2 = h2
    x = x
    y = y
    None = None
    SagaCasts <- AllSagas
    Roots <- MCRoots
    Workers <- MCWorkers
    Casts <- AllCasts
SYMMETRY Symmetry
INVARIANTS
    OneRequest
    AwaitedIsDurable
    AnswersAreSound
    RegistryIsTrue
    RootsAreServed
PROPERTY PaymentsAreSound
CHECK_DEADLOCK FALSE
