\* Two runs and one polling worker: who is claimed, and when.
SPECIFICATION FairSpec
CONSTANTS
  Workers = {w1}
  NoWorker = NoWorker
  Runs = {0, 1}
  LeaseTerms = {1}
  MaxEvents = 4
  MaxRecords = 0
  MaxClock = 2
  RetryDelay <- ShortDelays
PROPERTIES WaitingRunIsClaimed
CHECK_DEADLOCK FALSE
