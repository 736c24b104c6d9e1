SPECIFICATION FairSpec
CONSTANTS
  Clients = {c1}
  Slots <- OneSlot
  Commands = {"start", "resume"}
  Hazards = {"crash", "elapse", "launch_error"}
  MaxCheckpoints = 0
  MaxAutoRestarts = 1
  AutoRecover = FALSE
INVARIANTS RegistryOwned
PROPERTIES ZombieIsRepaired
