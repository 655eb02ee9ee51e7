SPECIFICATION Spec
CONSTANTS
    m1 = m1
    s1 = s1
    Foreign = Foreign
    Nobody = Nobody
    Probe = Probe
    Mutators <- OneMutator
    Submitters <- OneSubmitter
    Encodings <- TwoEncodings
    MaxAttempts = 2
    MaxLate = 1
    MaxForeign = 0
    MaxRestarts = 0
    Strays = TRUE
    Deadlines = FALSE
INVARIANT
    ViolatedMeansForeign
CHECK_DEADLOCK FALSE
