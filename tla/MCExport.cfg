SPECIFICATION FairSpec
CONSTANTS
  Jobs <- MCJobs
  Options <- MCOptions
  DiskSize = 16
  Sector = 2
  Cluster = 4
  Location <- MCLocation
INVARIANTS TypeOK RunsExported PanicOnlyOnOverrun FilesWhole ExportComplete HashOfOwnContent
PROPERTY Termination
