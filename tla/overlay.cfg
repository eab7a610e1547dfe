CONSTANTS
  r1 = r1
  r2 = r2
  otomi = otomi
  team = team
  Replica = {r1, r2}
  Merged = {otomi}
  Team = team
  MaxAttempts = 2
  MaxPushes = 2
  MaxCreds = 2
  MaxFaults = 1
SPECIFICATION FairSpec
INVARIANTS
  TypeOK
PROPERTIES
  LossIsRecent
  Delivered
  QuietWhenSynced
