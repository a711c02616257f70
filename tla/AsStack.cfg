SPECIFICATION FairSpec
CONSTANTS
  r1 = r1
  r2 = r2
  Requests <- MCRequests
  Tls = TRUE
  MaxStarts = 2
INVARIANTS
  TypeOK
  ArmedIsReachable
  StopLeavesNoTimer
  StopReleasesAll
PROPERTY SignalStopsStack
CHECK_DEADLOCK FALSE
