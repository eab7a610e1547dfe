CONSTANTS
  d1 = d1
  d2 = d2
  bootstrap = bootstrap
  rotation = rotation
  Database = {d1}
  Job = {bootstrap}
  Bootstrap = {bootstrap}
  MaxRuns = 2
  MaxClusters = 1
  MaxFaults = 1
SPECIFICATION Spec
PROPERTIES
  LiveNotOverwritten
