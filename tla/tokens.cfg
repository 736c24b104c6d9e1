SPECIFICATION Spec
CONSTANTS
  t1 = t1
  t2 = t2
  t3 = t3
  proc1 = proc1
  proc2 = proc2
  Tasks = {t1, t2, t3}
  Processes = {proc1, proc2}
  Home <- TwoAndOne
  MaxTokens = 3
  Hazards = {"crash", "lost", "drop", "database", "reauthorize"}
INVARIANTS TypeOK LockIsOwned NoSelfInvalidation LossShows
