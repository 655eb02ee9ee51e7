-------------------------- MODULE MCRuntimeCommit --------------------------
EXTENDS RuntimeCommit, TLC

CONSTANTS m1, s1

OneMutator == {m1}
OneSubmitter == {s1}

OneEncoding == {1}
TwoEncodings == {1, 2}
=============================================================================
