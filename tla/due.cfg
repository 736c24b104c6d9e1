SPECIFICATION FairSpec
CONSTANTS
  Clients = {c1}
  Slots <- OneSlot
  Commands = {"start", "custom"}
  Hazards = {"crash", "launch_error", "drain", "retry"}
  MaxCheckpoints = 1
  MaxAutoRestarts = 1
  AutoRecover = TRUE
PROPERTIES DueIsWoken
