SPECIFICATION Spec
CONSTANTS
  Files <- MCFiles
  Commands <- MCCommands
  MaxRounds = 2
  MaxCuts = 1
INVARIANTS TypeOK ExitTruthful  PushHonest LivenessHonest IdentityStable
CHECK_DEADLOCK FALSE
