SPECIFICATION Spec
CONSTANTS
  Jobs <- MCJobs
  SectorCells = 2
  Header = 2
  RangeUnit = 8
  PageCells = 2
  Lower <- MCLower
  Upper <- MCUpper
INVARIANTS
  TypeOK
  JournalExact
  UnallocatedExact
  SelectionExact
  TreeExact
  LogFileExact
  ShadowExact
