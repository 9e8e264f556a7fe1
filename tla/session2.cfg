SPECIFICATION Spec
CONSTANTS
  Modulus = 16
  ISSs = {13}
  ClientISNs = {14}
  Windows = {1, 4}
  BUFFER_SIZE = 5
  mss = 2
  UpLen = 2
  DownLen = 5
INVARIANTS
  TypeOK
  SegmentsFaithful
  WaitsAreRegistered
  FirstFlushFaithful
PROPERTIES
  OrderlyEnd
  ImplementsSessionLife2
