SPECIFICATION Spec
CONSTANTS
  N = 2
  MaxPending = 1
PROPERTY EverySessionIsAsked
