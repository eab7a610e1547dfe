CONSTANTS
  r1 = r1
  r2 = r2
  Replica = {r1, r2}
  Outgoing = Outgoing
  NoHolder = NoHolder
  LeaseDuration = 9
  RenewInterval = 3
  OpTimeout = 1
  StaleAfter = 9
  ProbeLag = 1
  Lag = 0
  WireLife = 2
  AgeCap = 11
  Skew <- UnevenSkew
  MaxFaults = 2
  Long = 16
SPECIFICATION FairTimedSpec
INVARIANTS
  TypeOK
  LiveLeaderNotExpired
  OverlapBounded
  HandoffBounded
PROPERTIES
  LeadershipKept
  EventuallySettled
