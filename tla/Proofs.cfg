SPECIFICATION RunSpec
CONSTANTS
  Areas = {"witness", "mpt", "proving", "provider"}
  Keys <- MCKeys
  UnzenTime = 10
  ShastaTime = 5
  eip1186_proof_chunk_size = 2
  Scenes <- MCScenes
  NodeFaults <- MCNodeFaults
  Tampers <- MCTampers
  Ancestors <- MCAncestors
  None = None
  Err = Err
  MaxU48 = 50
INVARIANTS
  ReplayIsTrue
  HonestWorkPasses
  AggregatesAreTrue
  HashWorkIsCharged
  AnswersLineUp
CHECK_DEADLOCK FALSE
