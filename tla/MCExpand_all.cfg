CONSTANTS
  Lit = {"l", "g", "dollar"}
  Dollar = "dollar"
  Escape = "escape"
  Var = {"x", "y"}
  Undefined = Undefined
  Cap = 3
  Jobs <- SmallJobs
SPECIFICATION FairSpec
INVARIANTS
  LimitExact
  OutputPreserved
PROPERTIES
  Terminates
CHECK_DEADLOCK FALSE
