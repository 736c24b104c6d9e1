SPECIFICATION Spec
CONSTANTS
  Clients = {c1, c2}
  Slots <- MCSlots
  Commands = {"start"}
  Hazards = {"crash", "drain", "trap", "load_error"}
  MaxCheckpoints = 0
  MaxAutoRestarts = 1
  AutoRecover = TRUE
SYMMETRY Symmetry
INVARIANTS TypeOK OneGuest
PROPERTIES CompletedIsFinal
