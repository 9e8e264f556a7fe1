SPECIFICATION Spec
CONSTANTS
  Sources = {a1, a2, a3}
  Servers = {a1, b}
  NoAddress = NoAddress
  MaxConnections = 4
INVARIANTS
  TypeOK
  OneSessionPerSource
  HandledOnce
  PoolBounded
