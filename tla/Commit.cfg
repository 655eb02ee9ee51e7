SPECIFICATION Spec
CONSTANTS
    m1 = m1
    s1 = s1
    Foreign = Foreign
    Nobody = Nobody
    Probe = Probe
    Mutators <- OneMutator
    Submitters <- OneSubmitter
    Encodings <- OneEncoding
    MaxAttempts = 2
    MaxLate = 1
    MaxForeign = 1
    MaxRestarts = 1
    Strays = TRUE
    Deadlines = TRUE
INVARIANTS
    AckedDurable
    CoherenceIsTrue
    CleanDrainCheckpointed
PROPERTIES
    WritesAreSound
CHECK_DEADLOCK FALSE
