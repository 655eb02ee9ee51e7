CONSTANTS
    Areas = {"roots", "admission", "stages"}
    Roots = {r1, r2, r3}
    Nodes = {prop1, prop2, batch}
    Aggregates = {batch}
    Plan <- MCPlan
    Deps <- MCDeps
    Workers = {w1, w2}
    Callers = {c1, c2}
    MaxInc = 4
    Casts <- MCCasts
    None = None
    Err = Err
    r1 = r1
    r2 = r2
    r3 = r3
    prop1 = prop1
    prop2 = prop2
    batch = batch
    w1 = w1
    w2 = w2
    c1 = c1
    c2 = c2
SPECIFICATION RunSpec
INVARIANTS
    RootsAreSound
    HostMatchesGuest
    AdmissionIsSound
    RecordsSurvive
PROPERTIES
    RecordsAdvance
    AnswersAreTrue
CHECK_DEADLOCK FALSE
