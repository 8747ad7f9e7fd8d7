\* Two workers contend for one run, its lease and its records, and hand it
\* over through two retries.
SPECIFICATION Spec
CONSTANTS
  Workers = {w1, w2}
  NoWorker = NoWorker
  Runs = {0}
  LeaseTerms = {1}
  MaxEvents = 9
  MaxRecords = 1
  MaxClock = 2
  RetryDelay <- GrowingDelays
SYMMETRY Symmetric
INVARIANTS ExclusiveLease ClaimRefusedOnlyWhenFull StoreInv
PROPERTIES NoUnseenRecord TerminalImmutable ImplementsLifecycle BackoffHonoured
CHECK_DEADLOCK FALSE
