\* The same run with nobody else about: does the write-back keep what it finds?
SPECIFICATION Spec
CONSTANTS
  PageSize = 2
  MaxPages = 2
  MaxChanges = 0
  MaxEdits = 0
  MaxInterference = 0
  MaxCuration = 0
  MaxPushes = 0
  Catalogues <- OneCatalogue
INVARIANT CompletedPreserves
CHECK_DEADLOCK FALSE
