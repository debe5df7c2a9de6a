SPECIFICATION Spec
CONSTANTS
  Jobs <- ManyJobs
  Options <- MCOptions
  DiskSize = 16
  Sector = 2
  Cluster = 4
  Location <- MCLocation
INVARIANT ResidentExported
