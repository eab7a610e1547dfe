CONSTANTS
  lane = lane
  job = job
  Rotator = {lane}
  Bootstrap = {}
  KeepNewest = 5
  MaxFaults = 2
  MaxUpsets = 1
  MaxAges = 3
SPECIFICATION Spec
INVARIANTS RecordedNotDrained HeldNotDrained
PROPERTY ImplementsCredential
