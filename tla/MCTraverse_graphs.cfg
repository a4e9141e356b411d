CONSTANTS
  Token <- GraphToken
  RealName <- GraphName
  Rank <- GraphRank
  Jobs <- GraphJobs
  Cap = 8
  NoPackage = NoPackage
  Null = Null
SPECIFICATION Spec
PROPERTY Resolves
INVARIANTS
  PublicSound
  PublicClosed
  LoadOrderIsPreorder
CHECK_DEADLOCK FALSE
