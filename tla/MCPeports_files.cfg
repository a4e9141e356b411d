CONSTANTS
  Bits = 6
  SectionMax = 2
  OutCap = 3
  Room = 3
  Jobs <- SmallJobs
SPECIFICATION Spec
INVARIANTS
  MapSound
  ExportsExact
  ImportsExact
  OutputInOrder
  StatusTells
