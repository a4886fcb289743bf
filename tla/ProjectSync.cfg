SPECIFICATION Spec
CONSTANTS
  None = None
  Absent = Absent
  Folder = Folder
  Bad = Bad
  Empty = Empty
  ModelOf <- MCModelOf
  Normalized <- MCNormalized
  Path <- MCPath
  Folders <- MCFolders
  Service <- MCService
  MetaOf <- MCMetaOf
  ProjectOf <- MCProjectOf
  Contents <- MCContents
  SnapshotFromPath <- FromPath
  SnapshotFromNode <- FromNode
  InitialDisks <- MCInitialDisks
  RootProject <- Proj
  MaxEdits = 2
INVARIANTS
  TypeOK
  PathIndexIsExact
  TreeIsFresh
  OutputIsCurrent
CHECK_DEADLOCK FALSE
