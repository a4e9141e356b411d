CONSTANTS
  OutCap = 3
  ErrCap = 2
  Jobs <- DashDashJobs
  Presses <- SomePresses
SPECIFICATION LaunchSpec
INVARIANTS
  NoPackageIsRefused
CHECK_DEADLOCK FALSE
