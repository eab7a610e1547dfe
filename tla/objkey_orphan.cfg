CONSTANTS
  lane = lane
  job = job
  Rotator = {lane}
  Bootstrap = {}
  KeepNewest = 2
  MaxFaults = 1
  MaxUpsets = 0
  MaxAges = 1
SPECIFICATION Spec
INVARIANT HeldNotDrained
