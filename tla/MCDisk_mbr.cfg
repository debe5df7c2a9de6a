SPECIFICATION Spec
CONSTANTS
  Images <- OneImages
  Args <- MCArgs
  SuperblockAt = 1
  RaidAt = 1
INVARIANT RightCredentialUnlocks
\* the program ends
CHECK_DEADLOCK FALSE
