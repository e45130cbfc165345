SPECIFICATION Spec
CONSTANTS
  N = 4
  Concs <- MCConcs
INVARIANTS TypeOK ConcurrencyBound SendNeverBlocks NoSendOnClosed EveryTargetOnce
PROPERTY Termination
CHECK_DEADLOCK FALSE
