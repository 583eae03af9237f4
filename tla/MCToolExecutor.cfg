SPECIFICATION FairSpec
CONSTANTS
  Leader = leader
  Descendants = {child, grandchild}
  Requests <- SomeRequests
  Allowlist <- GitOnly
  Directories = {"/workspace"}
  Limit = 3
  Chunk = 2
  MaxBytes = 3
INVARIANTS
  TypeOK
  OutputIsAPrefix
  TimeoutKillsTheGroup
PROPERTIES
  ExecuteReturns
CHECK_DEADLOCK FALSE
