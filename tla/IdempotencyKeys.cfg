SPECIFICATION FairSpec
CONSTANTS
  Requests = {r1, r2, r3}
  Keys = {k1, k2}
  Payloads = {p1, p2}
  PoolSize = 2
  MayFail = TRUE
  NoCommand = NoCommand
  NoRow = NoRow
  NoOne = NoOne
  Waiting = Waiting
  Failed = Failed
  Conflict = Conflict
  InFlight = InFlight
INVARIANTS
  TypeOK
  InFlightIsNeverSeen
PROPERTIES
  RefinesOnce
  EveryRequestIsAnswered
CHECK_DEADLOCK FALSE
