SPECIFICATION Spec
CONSTANTS
  Disks <- DriveDisks
  ChannelSize = 1
  Height = 2
  Fan = 4
INVARIANT DriveExplored
