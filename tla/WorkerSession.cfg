SPECIFICATION FairSpec
CONSTANTS
  Roles = {"po", "dev", "qa"}
  Answers <- AllAnswers
  NotJson = NotJson
  Criteria <- SomeCriteria
  MaxRepairs = 2
  ConfigPath = "config"
  EvidencePath = "evidence"
  SourcePath = "source"
  ManifestPath = "manifest"
  Faults = TRUE
  None = None
INVARIANTS
  TypeOK
  ValidatorsAgree
  SubmissionIsTaken
  UsageIsComplete
  StoredIsWhatWasMade
PROPERTIES
  WorkerEnds
CHECK_DEADLOCK FALSE
