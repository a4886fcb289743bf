SPECIFICATION Spec
CONSTANTS
  None = None
  Path <- MCPath
  Folder <- MCFolder
  Content <- MCContent
  InitialDisk <- MCInitialDisk
  MaxDiskEdits = 3
  MaxStudioEdits = 0
INVARIANT VanishingFileIsNotFatal
CHECK_DEADLOCK FALSE
