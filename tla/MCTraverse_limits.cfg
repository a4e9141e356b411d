CONSTANTS
  Token <- MixedToken
  RealName <- MixedName
  Rank <- MixedRank
  Jobs <- MixedJobs
  Cap = 5
  NoPackage = NoPackage
  Null = Null
SPECIFICATION FairSpec
INVARIANTS
  TypeOK
  StackWithinNeed
  DepthBounded
  DirectExact
  CommandLineChecked
  ConstraintsChecked
PROPERTIES
  NothingRevoked
  Terminates
CHECK_DEADLOCK FALSE
