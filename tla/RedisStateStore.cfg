SPECIFICATION FairSpec
CONSTANTS
  c1 = c1
  c2 = c2
  k1 = k1
  k2 = k2
  opaque = opaque
  text = text
  None = None
  Callers <- MCCallers
  Keys <- MCKeys
  Values <- MCValues
  JsonOf <- MCJsonOf
  Prefixes <- MCPrefixes
  Family <- MCFamily
  Limits <- MCLimits
  Requests <- MCRequests
  MaxItems = 2
  MaxStarts = 2
INVARIANTS
  TypeOK
  SettledInOrder
  ReadSeesLastWrite
  DrainedByStop
  ClientOutlivesWorker
PROPERTIES
  TrimBoundsFamily
  EveryCallReturns
  StopReturns
  IdleWorkerLeaves
CHECK_DEADLOCK FALSE
