CONSTANTS
  Dir = {"d1", "d2", "d3"}
  Empty = "empty"
  Itself = "itself"
  DefaultPath <- MCDefaultPath
  Jobs <- BlankJobs
SPECIFICATION Spec
INVARIANTS
  Transplants
CHECK_DEADLOCK FALSE
