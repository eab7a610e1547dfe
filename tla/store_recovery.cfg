CONSTANTS
  r1 = r1
  r2 = r2
  read1 = read1
  push = push
  Replica = {r1, r2}
  Nobody = Nobody
  ExternalSecret = {read1}
  PushSecret = {push}
  Budget = 3
  MaxUpsets = 3
SPECIFICATION FairSpec
INVARIANTS
  TypeOK
  TransitionDelivered
PROPERTIES
  RecoveryCompletes
  WriteLoopEnds
