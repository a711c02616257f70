SPECIFICATION FairSpec
CONSTANTS
  h1 = h1
  h2 = h2
  h3 = h3
  TrunkPeer = trunk
  Hops <- MCHops
  HopLists <- MCHopLists
PROPERTY RingingHopIsNotTimedOut
CHECK_DEADLOCK FALSE
