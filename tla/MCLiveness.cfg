SPECIFICATION FairSpec
CONSTANTS
  s1 = s1
  s2 = s2
  First = First
  NoTask = NoTask
  Runs = {r1, r2}
  Stories = {s1}
  InitialRole = "fake"
  DevMode = "local"
  Schedulers = {l1}
  Backlogs <- NoBacklogs
  Keys = {k1}
  MaxCalls = 1
  MaxCrashes = 0
  Faults = {"runtime"}
PROPERTIES
  EveryTaskSettles
  EveryRunSettles
CHECK_DEADLOCK FALSE
