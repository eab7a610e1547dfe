CONSTANTS
  sc = sc
  vol = vol
  apl = apl
  obs = obs
  Lane = {apl, obs}
  Gated = {apl}
  Streamed = {}
  Credentialed = {apl}
  Waits = {apl}
  Ticking = {apl, obs}
  MaxWaiters = 2
  MaxErrors = 1
SPECIFICATION FairSpec
INVARIANTS
  NoLostWakeup
PROPERTIES
  ResyncCovers
