SPECIFICATION Spec
CONSTANTS
  None = None
  Fields <- MCFields
  CasePairs <- MCCasePairs
  SearchLimit = 2
  PageLimit = 2
  Texts <- MCTexts
  FilterModels <- MCFilterModels
  SortModels <- MCSortModels
  NewRows <- MCNewRows
  BlockSize = 1
  Blocks = 2
  MaxRows = 3
  MaxDeleted = 1
  MaxPurges = 1
INVARIANTS
  TotalIsMatching
CHECK_DEADLOCK FALSE
