SPECIFICATION FairSpec
CONSTANT Levels <- MCLevels
INVARIANTS
  TypeOK
  CallsStartTogether
  LevelAddsUp
  CompletedCallsEnded
PROPERTY RunReturns
CHECK_DEADLOCK FALSE
