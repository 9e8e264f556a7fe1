SPECIFICATION Spec
CONSTANTS
  MAXIMUM_TUNNELS = 2
  MAXIMUM_TCP_SESSIONS = 2
  Connections = {c1, c2}
  NoConnection = NoConnection
  MaxCandidates = 2
  MaxReady = 2
  MaxPackets = 2
INVARIANTS
  TypeOK
  OpenTunnelsFirst
  SessionLoopInList
PROPERTIES
  CountedUntilClosed
