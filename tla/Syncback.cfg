SPECIFICATION Spec
CONSTANTS
  None = None
  Absent = Absent
  Folder = Folder
  Bad = Bad
  Empty = Empty
  Torn = Torn
  Path <- MCPath
  Service = {}
  MetaOf <- MCOf
  ProjectOf <- MCOf
  ModelOf <- MCOf
  Normalized <- MCNormalized
  FileName <- MCFileName
  Cases <- MCCases
  RootProject <- Proj
  Lower <- MCLower
  Extends <- MCExtends
  Forbidden = {}
  Reserved = {"CON"}
  Ancestry <- MCAncestry
  Defaults <- MCDefaults
  RefProps = {"Ref", "CurrentCamera"}
  Hidden = {}
  Unscriptable = {"Locked"}
  Internal = {"RBX_x"}
  SourceOrder <- MCSourceOrder
  Meanwhile <- MCMeanwhile
INVARIANTS
  TypeOK
  
  
  IgnoredSurvives
  PointersResolve
  NothingLostEarly
CHECK_DEADLOCK FALSE
