SPECIFICATION FairBoth
CONSTANTS
  a = a
  b = b
  c = c
  CallIds <- MCCallIds
  MaxCalls = 2
  MaxTraces = 2
  MaxRecords = 5
  Originals <- MCOriginals
  MaxLegs = 1
  MaxMessages = 2
  MaxWrites = 3
INVARIANTS
  TypeOK
  LatestAreRetained
  PushedOnce
  AnswerIsEndOfExchange
PROPERTIES
  SeenIsSent
  NewCallIsPushed
CHECK_DEADLOCK FALSE
