CONSTANTS
    p1 = p1
    agg = agg
    o1 = o1
    o2 = o2
    w1 = w1
    w2 = w2
    Owners = {o1, o2}
    Workers = {w1, w2}
    Tokens = {k1, k2, k3, k4}
    Tasks <- MCTasks
    Graphs <- MCGraphs
    Key <- MCKey
    MaxAttempt = 2
    BatchLimit = 1
    None = None
SPECIFICATION Spec
SYMMETRY Symmetry
INVARIANTS
    OwnershipSound
    RunnableAfterDependencies
    NothingForgotten
    LeaseExclusive
PROPERTIES
    DetachIsolated
