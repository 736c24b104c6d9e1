SPECIFICATION Spec
CONSTANTS
  Clients = {c1}
  Slots <- MCSlots
  Commands = {"start", "custom"}
  Hazards = {}
  MaxCheckpoints = 0
  MaxAutoRestarts = 1
  AutoRecover = TRUE
INVARIANTS OneGuest
CHECK_DEADLOCK FALSE
