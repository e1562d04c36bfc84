SPECIFICATION MCSpec
CONSTANTS
  N = 3
  Rounds = 4
  NumNodes = 3
  Wall = 2
  ControlScale = 5
  DeadZone = 7
  GuideScale = 40
  Zero = 0
  Edges <- MCEdges
  Couplings <- MCCouplings
  Biases <- MCBiases
  M <- NumParticles
  Reads <- NodesRead
  Starts <- MCStarts
  Couple <- MCCouple
  Prepare <- MCPrepare
  Move <- MCMove
  SbRequests <- MCSbRequests
  Drawn <- MCDrawn
INVARIANTS
  MatchesSequential
  GaugeKeepsEnergy
  RingIsSimultaneous
  LeaderIsBest
  GaugeIsASymmetry
