SPECIFICATION Spec
CONSTANTS
  Clients = {c1}
  Slots <- MCSlots
  Commands = {"start", "pause", "unpause", "cancel", "debug"}
  Hazards = {"crash", "trap"}
  MaxCheckpoints = 1
  MaxAutoRestarts = 1
  AutoRecover = TRUE
PROPERTIES PauseHolds
