SPECIFICATION Spec
CONSTANTS
  s1 = s1
  s2 = s2
  First = First
  NoTask = NoTask
  Runs = {r1}
  Stories = {s1}
  InitialRole = "fake"
  DevMode = "local"
  Schedulers = {l1, l2}
  Backlogs <- NoBacklogs
  Keys = {k1, k2}
  MaxCalls = 2
  MaxCrashes = 1
  Faults = {"runtime", "kill"}
INVARIANTS
  TypeOK
  StartIsAccepted
  LogIsAuditable
  FailedRunHasNoSuccess
PROPERTIES
  TerminalIsFinal
  RefinesLedger
CHECK_DEADLOCK FALSE
