SPECIFICATION Spec
CONSTANTS
  Cases <- MCCases
  Attempts = 3
  Timeout = 7
  Now <- MCNow
  RivalTimes <- MCRivals
  MaxDrops = 3
  MaxPause = 3
INVARIANTS TypeOK VerdictJustified PhaseBudget   RefusalDetected
PROPERTY Termination
CHECK_DEADLOCK FALSE
