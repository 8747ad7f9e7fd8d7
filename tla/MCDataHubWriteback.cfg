\* Two calls of one run and one of another with the same candidate.
SPECIFICATION Spec
CONSTANTS
  Callers = {"a1", "a2", "b"}
  RunOf <- RunOfCallers
  Candidate <- OneCandidate
  MaxCalls = 3
  MaxEdits = 1
INVARIANT DecisionInv
CHECK_DEADLOCK FALSE
