SPECIFICATION Spec
CONSTANTS
  s1 = s1
  s2 = s2
  First = First
  NoTask = NoTask
  Runs = {r1}
  Stories = {s1}
  InitialRole = "po"
  DevMode = "container"
  Schedulers = {l1}
  Backlogs <- OneStory
  Keys = {k1}
  MaxCalls = 2
  MaxCrashes = 1
  Faults = {"db"}
INVARIANTS
  OneStart
  OneOutcome
CHECK_DEADLOCK FALSE
