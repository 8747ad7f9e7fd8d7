\* One run of the worker, with everything others may do to it.
SPECIFICATION Spec
CONSTANTS
  PageSize = 2
  MaxPages = 2
  MaxChanges = 1
  MaxEdits = 1
  MaxInterference = 2
  MaxCuration = 2
  MaxPushes = 2
  Catalogues <- ManyCatalogues
INVARIANTS
  CollectedWasTrue NothingLeftBehind EvidenceIsEarned
  ReceiptIsExact EffectsAreGated CompletedMeansDone
PROPERTIES TerminalRowStays RunEnds
CHECK_DEADLOCK FALSE
