\* A seed dies, is reconciled, and is run again; nobody else edits.
SPECIFICATION Spec
CONSTANTS
  Procs = {p1}
  NoProc = NoProc
  MaxObservations = 2
  MaxChainRuns = 6
  MaxEdits = 0
  MaxDisturbances = 1
  MaxEvents = 7
INVARIANTS ReconciledSeedGoesOn
CHECK_DEADLOCK FALSE
