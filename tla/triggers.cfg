SPECIFICATION FairSpec
CONSTANTS
  Events = {e1, e2}
  Triggered = {e1}
  SingleInstance = TRUE
  Workers = {w1, w2}
  MaxRetries = 2
  MaxFaults = 1
  Hazards = {"crash", "transient", "slow"}
INVARIANTS TypeOK LaunchedOnce FiredOnce
PROPERTIES KeepsContract
