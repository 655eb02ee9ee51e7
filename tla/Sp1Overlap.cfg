SPECIFICATION RunSpec
CONSTANTS
    Areas = {"network"}
    s1 = s1
    s2 = s2
    r1 = r1
    r2 = r2
    w1 = w1
    w2 = w2
    p1 = p1
    p2 = p2
    p3 = p3
    h1 = h1
    h2 = h2
    x = x
    y = y
    None = None
    SagaCasts <- OtherBytes
    Roots <- MCRoots
    Workers <- MCWorkers
    Casts <- OvertakenOnly
SYMMETRY Symmetry
INVARIANT RetainedAgree
CHECK_DEADLOCK FALSE
