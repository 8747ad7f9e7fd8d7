\* One run with one effect of each kind, up to its completion.
SPECIFICATION FairSpec
CONSTANTS
  Intents <- OnePerKind
  Kind <- OnePerKindKind
  LeaseTerm = 2
  ApprovalTerm = 2
  InvokeTerm = 2
  MaxGeneration = 2
  MaxVersion = 9
  MaxCandidates = 2
  MaxClock = 3
INVARIANTS AtMostOnce UnresolvedCallHoldsRun TerminalAccounted EffectInv
PROPERTIES CallsUnderReservation AuthorizedAsValidated LostTokenIsFinal
  TakenOverRunNeverCompletes ImplementsExternalEffects LapsedLeaseIsReclaimed
CHECK_DEADLOCK FALSE
