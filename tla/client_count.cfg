SPECIFICATION Spec
CONSTANTS
  MAXIMUM_TUNNELS = 1
  MAXIMUM_TCP_SESSIONS = 2
  Connections = {c1, c2}
  NoConnection = NoConnection
  MaxCandidates = 1
  MaxReady = 1
  MaxPackets = 1
INVARIANT SelectCountSpent
