SPECIFICATION Spec
CONSTANTS
  Files <- MCFiles
  Commands <- MCCommands
  MaxRounds = 2
  MaxCuts = 1
INVARIANT DownIsPublished
CHECK_DEADLOCK FALSE
