\* Two processes, one authorized effect, and a repository others change.
CONSTANTS
  Callers = {c1, c2}
  MaxAttempts = 2
  MaxCalls = 3
  MaxMeddling = 2
SPECIFICATION FairSpec
INVARIANTS
  PostsSentOnce
  ReceiptsAgree
  ReviewInv
PROPERTIES
  ReceiptsAreTrue
  ImplementsEffect
  CallsEnd
CHECK_DEADLOCK FALSE
