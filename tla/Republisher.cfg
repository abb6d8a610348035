\* Two runs that publish, have their publications confirmed, fail and overlap; one restart.
SPECIFICATION FairSpec
CONSTANTS
  MaxRuns = 2
  MaxSent = 1
  MaxPending = 4
  Autostart = TRUE
INVARIANTS TypeOK QuiescentMeansStopped CountersBelongToRun DeliveredWithinQueued
PROPERTIES OverlapOnlyInWindow StopSettles
