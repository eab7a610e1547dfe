CONSTANTS
  dep1 = dep1
  dep2 = dep2
  t1 = t1
  t2 = t2
  t3 = t3
  t4 = t4
  t5 = t5
  t6 = t6
  t7 = t7
  Deployment = {dep1, dep2}
  First = dep1
  Token = {t1, t2, t3, t4, t5, t6, t7}
  None = None
  RotateAfter = 9
  Month = 4
  Grace = 1
  Validity = 13
  MaxFaults = 3
SPECIFICATION FairSpec
INVARIANTS
  TypeOK
  CopiesNotRevoked
  InFlightSpared
  StampTruthful
  CopiesUnexpired
PROPERTIES
  RotationConverges
