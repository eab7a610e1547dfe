CONSTANTS
  d1 = d1
  d2 = d2
  bootstrap = bootstrap
  rotation = rotation
  Database = {d1, d2}
  Job = {bootstrap, rotation}
  Bootstrap = {bootstrap}
  MaxRuns = 3
  MaxClusters = 2
  MaxFaults = 1
SPECIFICATION Spec
INVARIANTS
  TypeOK
  LossReported
  LossContained
PROPERTIES
  ProvisioningBurnt
