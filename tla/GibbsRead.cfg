SPECIFICATION FairSpec
CONSTANTS
  N = 3
  Rounds = 6
  Nodes <- MCNodes
  Neighbors <- MCNeighbors
  Classes <- MCClasses
  Start <- MCStart
  Spins <- MCSpins
  Resample <- MCResample
INVARIANTS
  MatchesReference
  NoArrivalLost
PROPERTIES
  ImplementsRendezvous
  ReadEnds
