SPECIFICATION LoopSpec
CONSTANTS
  Clients = {c1}
  Slots <- OneSlot
  Commands = {"start"}
  Hazards = {"crash", "launch_error", "elapse"}
  MaxCheckpoints = 2
  MaxAutoRestarts = 2
  AutoRecover = TRUE
INVARIANTS RestartsBounded
PROPERTIES GivenUpAfterCap
