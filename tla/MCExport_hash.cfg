SPECIFICATION Spec
CONSTANTS
  Jobs <- ManyJobs
  Options <- HashOptions
  DiskSize = 16
  Sector = 2
  Cluster = 4
  Location <- MCLocation
INVARIANT ExportedHashed
