SPECIFICATION Spec
CONSTANTS
  s1 = s1
  s2 = s2
  First = First
  NoTask = NoTask
  Runs = {r1}
  Stories = {s1, s2}
  InitialRole = "po"
  DevMode = "local"
  Schedulers = {l1}
  Backlogs <- AnyBacklog
  Keys = {k1}
  MaxCalls = 1
  MaxCrashes = 0
  Faults = {"runtime"}
INVARIANTS
  OutcomeHasCause
  OneWorkerAtATime
  FrozenStoriesAreQueued
  DevsStartInOrder
CHECK_DEADLOCK FALSE
