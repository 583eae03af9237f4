SPECIFICATION Spec
CONSTANTS
  Roles = {"po", "dev", "qa"}
  Answers <- AllAnswers
  NotJson = NotJson
  Criteria <- SomeCriteria
  MaxRepairs = 2
  ConfigPath = "config"
  EvidencePath = "evidence"
  SourcePath = "source"
  ManifestPath = "manifest"
  Faults = FALSE
  None = None
INVARIANTS
  EvidenceIsStored
CHECK_DEADLOCK FALSE
