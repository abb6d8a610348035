\* Two starts before the drain applies the first report.
SPECIFICATION Spec
CONSTANTS
  MaxRuns = 2
  MaxSent = 1
  MaxPending = 3
  Autostart = FALSE
INVARIANTS OneRunAtATime
