CONSTANTS
  lane = lane
  job = job
  Rotator = {lane}
  Bootstrap = {job}
  KeepNewest = 2
  MaxFaults = 1
  MaxUpsets = 1
  MaxAges = 1
SPECIFICATION FairSpec
INVARIANT TypeOK
PROPERTY ConsumersRecover
