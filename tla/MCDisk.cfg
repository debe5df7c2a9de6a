SPECIFICATION Spec
CONSTANTS
  Images <- MCImages
  Args <- MCArgs
  SuperblockAt = 1
  RaidAt = 1
INVARIANTS TypeOK HandlerIsUnlocks RecordsTrue LostBehindUnlocked ReadsBack UnlockedExactly SoundDiskNeverPanics
\* the program ends
CHECK_DEADLOCK FALSE
