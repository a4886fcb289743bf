SPECIFICATION FairSpec
CONSTANTS
  None = None
  Path <- MCPath
  Folder <- MCFolder
  Content <- MCContent
  InitialDisk <- MCInitialDisk
  MaxDiskEdits = 3
  MaxStudioEdits = 1
INVARIANTS
  TypeOK
  TreeIsWellFormed
  TreeMatchesDisk
  StudioMatchesTree
  NoParentlessAddition
PROPERTIES
  TreeCatchesUp
CHECK_DEADLOCK FALSE
