CONSTANTS
  Dir = {"d1", "d2", "d3"}
  Empty = "empty"
  Itself = "itself"
  DefaultPath <- MCDefaultPath
  Jobs <- AllJobs
SPECIFICATION Spec
INVARIANTS
  SearchInv
  LookupExact
CHECK_DEADLOCK FALSE
