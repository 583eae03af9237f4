SPECIFICATION Spec
CONSTANTS
  Creators = {c1, c2}
  Keys = {k1}
  NumFiles = 2
  Versions = {v1, v2}
  RenameErrors = {"EEXIST", "ENOTEMPTY"}
  MaxEdits = 2
  NoTree = NoTree
  NoKey = NoKey
  NoDir = NoDir
INVARIANTS
  TypeOK
  SnapshotIsExact
  WorkspaceIsItsSnapshot
PROPERTIES
  WorkIsNeverLost
