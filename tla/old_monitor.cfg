SPECIFICATION Spec
CONSTANTS
  Clients = {c1}
  Slots <- MCSlots
  Commands = {"start", "resume"}
  Hazards = {}
  MaxCheckpoints = 0
  MaxAutoRestarts = 1
  AutoRecover = TRUE
PROPERTIES OldMonitorIsHarmless
CHECK_DEADLOCK FALSE
