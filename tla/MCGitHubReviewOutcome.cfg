\* What the port says of the outcome CREATED.
CONSTANTS
  Callers = {c1, c2}
  MaxAttempts = 2
  MaxCalls = 2
  MaxMeddling = 0
SYMMETRY Symmetry
SPECIFICATION Spec
INVARIANT CreatedByThisCall
CHECK_DEADLOCK FALSE
