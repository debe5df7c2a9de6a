SPECIFICATION FairSpec
CONSTANTS
  Disks <- MCDisks
  Starts <- MCStarts
  Chunk = 4
  ChCap = 2
  OutCap = 1
  Workers = {w1, w2, w3}
  MinOffset = 2
  Cluster = 2
INVARIANTS TypeOK NoSendAfterClose PartsSound PartsComplete
PROPERTIES CarvesEveryTarget Termination
