SPECIFICATION FairSpec
CONSTANTS
  h1 = h1
  h2 = h2
  h3 = h3
  TrunkPeer = trunk
  Hops <- MCHops
  HopLists <- MCHopLists
INVARIANTS
  TypeOK
  SingleLiveLeg
  HopsTriedInOrder
  CallerHasItsHop
  PeerStatusFollowsHunt
  FirstTimerFollowsHop
  OutcomesBounded
PROPERTIES
  ImplementsHopHunt
  ImplementsStackCall
  ReplacedLegIsIgnored
  AnsweredCallSurvivesTimer
  FirstHopGivenUp
  SingleHopCallerHears
CHECK_DEADLOCK FALSE
