SPECIFICATION FairSpec
CONSTANTS
  Created = 1
  MaxEvents = 3
  BatchSize = 2
  MaxBreaks = 3
  MaxRefreshes = 1
  RefreshMayFail = TRUE
INVARIANTS
  TypeOK
PROPERTIES
  RefinesFeed
  EveryEncodableEventIsShown
CHECK_DEADLOCK FALSE
