SPECIFICATION Spec
CONSTANTS
  SectorUnits = 2
  ClusterSectors = 8
  RamUnits = 8
  Clusters = {2, 3, 4}
  Sizes = {0, 1, 3, 8, 9, 16, 17}
  InitSize = 3
  MaxSaves = 3
  ForeignAnywhere = FALSE
INVARIANTS TypeOK FileIsSaved MountFindsFile ReadInBounds
CHECK_DEADLOCK FALSE
