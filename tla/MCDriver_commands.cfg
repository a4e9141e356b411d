CONSTANTS
  OutCap = 3
  ErrCap = 2
  Jobs <- CommandJobs
  Presses <- SomePresses
SPECIFICATION LaunchSpec
INVARIANTS
  StreamsArePrefixes
  SuccessMeansDone
  FailureIsExplained
  OwnChecksObey
  AliasRelays
CHECK_DEADLOCK FALSE
