CONSTANTS
  Ident = {"?", "@", "a"}
  Other = {" ", "newline"}
  SymbolMax = 4
  InCap = 2
  OutCap = 3
  Jobs <- SmallJobs
SPECIFICATION Spec
INVARIANTS
  OutputIsFiltered
CHECK_DEADLOCK FALSE
