SPECIFICATION Spec
CONSTANTS
  Files <- MCFiles
  Commands <- MCCommands
  MaxRounds = 2
  MaxCuts = 1
INVARIANT PublishedComplete
CHECK_DEADLOCK FALSE
