SPECIFICATION FairSpec
CONSTANTS
  h1 = h1
  h2 = h2
  h3 = h3
  TrunkPeer = trunk
  Hops <- MCHops
  HopLists <- MCHopLists
INVARIANT AttemptIsWatched
CHECK_DEADLOCK FALSE
