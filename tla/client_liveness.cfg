SPECIFICATION FairSpec
CONSTANTS
  MAXIMUM_TUNNELS = 2
  MAXIMUM_TCP_SESSIONS = 1
  Connections = {c1}
  NoConnection = NoConnection
  MaxCandidates = 2
  MaxReady = 2
  MaxPackets = 1
PROPERTIES
  StopEnds
  CandidatesAreServed
