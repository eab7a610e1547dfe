CONSTANTS
  sc = sc
  vol = vol
  apl = apl
  obs = obs
  Lane = {vol}
  Gated = {vol}
  Streamed = {vol}
  Credentialed = {vol}
  Waits = {vol}
  Ticking = {}
  MaxWaiters = 2
  MaxErrors = 1
SPECIFICATION FairSpec
INVARIANTS
  TypeOK
PROPERTIES
  EdgesSuffice
  ShutdownCompletes
