CONSTANTS
  Arg <- MCArg
  Kind <- MCKind
  Dedupable <- MCDedupable
  Jobs <- AllJobs
  Unmatched = Unmatched
  Delim = Delim
  Newline = Newline
SPECIFICATION Spec
INVARIANTS
  LinkOrder
  SearchOrder
  OutputExact
CHECK_DEADLOCK FALSE
