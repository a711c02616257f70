SPECIFICATION FairSpec
CONSTANTS
  a = a
  b = b
  c = c
  CallIds <- MCCallIds
  MaxCalls = 2
  MaxTraces = 1
  MaxRecords = 6
PROPERTY SeenCallWasPushed
CHECK_DEADLOCK FALSE
