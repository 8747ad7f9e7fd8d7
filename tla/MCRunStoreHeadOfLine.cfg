\* Two runs and one polling worker: a run whose stream is full is selected
\* first every time, and the run behind it is never claimed.
SPECIFICATION FairSpec
CONSTANTS
  Workers = {w1}
  NoWorker = NoWorker
  Runs = {0, 1}
  LeaseTerms = {1}
  MaxEvents = 4
  MaxRecords = 0
  MaxClock = 2
  RetryDelay <- ShortDelays
PROPERTIES AvailableRunIsClaimed
CHECK_DEADLOCK FALSE
