SPECIFICATION FairSpec
CONSTANTS
  Versions = {v1}
  Definitions = {d1, d2}
  Broken = {d2}
  Images = {i1, i2}
  Clients = {c1}
  Commands = {"run", "edit", "force", "compile"}
  Hazards = {"crash", "cleanup", "transient"}
INVARIANTS TypeOK BuiltOneAtATime PendingIsQueued SettledReadyIsCurrent
PROPERTIES RequestSettles
