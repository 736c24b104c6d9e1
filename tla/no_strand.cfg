SPECIFICATION Spec
CONSTANTS
  Clients = {c1}
  Slots <- OneSlot
  Commands = {"start", "pause", "stop"}
  Hazards = {"timeout", "launch_error", "elapse"}
  MaxCheckpoints = 0
  MaxAutoRestarts = 1
  AutoRecover = TRUE
INVARIANTS NeverStranded
\* The instance may reach its end and stay there.
CHECK_DEADLOCK FALSE
