SPECIFICATION Spec
CONSTANTS
  Callers = {c1, c2}
  Paths = {p1, p2}
  Contents = {d1, d2}
  Metas = {m1}
  MaxCrashes = 1
  MaxFailures = 1
  StreamedPaths = {p1}
  NoOne = NoOne
  NoFile = NoFile
  NoRef = NoRef
INVARIANTS
  TypeOK
  HandedOutIsReadable
  FailureLeavesNothing
PROPERTIES
  RetryGetsTheReference
  ImplementsWriteOnce
