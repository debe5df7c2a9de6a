SPECIFICATION FairSpec
CONSTANTS
  Disks <- MCDisks
  ChannelSize = 1
  Height = 2
  Fan = 4
INVARIANTS TypeOK LeavesExact EntriesExact PathOfALink
PROPERTY Termination
