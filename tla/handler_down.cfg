SPECIFICATION Spec
CONSTANTS
  N = 3
  MaxPending = 1
INVARIANTS
  TypeOK
  PassedOverBehindIdle
PROPERTY AskedUnlessBehindIdle
