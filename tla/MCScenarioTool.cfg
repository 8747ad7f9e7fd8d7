\* Two processes prepare, seed, reset and reconcile one scenario, rerun a part
\* of the chain, or are disturbed: by a death, a failure, an edit of somebody
\* else, and by requests and children that arrive late.
SPECIFICATION Spec
CONSTANTS
  Procs = {p1, p2}
  NoProc = NoProc
  MaxObservations = 2
  MaxChainRuns = 6
  MaxEdits = 1
  MaxDisturbances = 2
  MaxEvents = 7
SYMMETRY Symmetric
INVARIANTS ToolInv SettledJournalIsTrue NoConflictWithoutEdits
PROPERTIES NoClobber OnlyOwnDeleted WrittenAhead WritesOnCurrentChain
CHECK_DEADLOCK FALSE
