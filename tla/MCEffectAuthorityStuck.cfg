\* What the specification of the run store says of an expired lease.
SPECIFICATION FairSpec
CONSTANTS
  Intents <- OnePerKind
  Kind <- OnePerKindKind
  LeaseTerm = 1
  ApprovalTerm = 2
  InvokeTerm = 1
  MaxGeneration = 2
  MaxVersion = 5
  MaxCandidates = 1
  MaxClock = 3
PROPERTIES ExpiredLeaseIsReclaimed
CHECK_DEADLOCK FALSE
