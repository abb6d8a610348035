\* Two threads and two addresses: the budget is overrun by one. Two tokens: one session beside another.
SPECIFICATION FairSpec
CONSTANTS
  Ips = {i1, i2}
  Attempts = {a1, a2, a3, a4}
  Tokens = {t1, t2}
  Threads = {h1, h2}
  MaxFailures = 2
  Window = 2
  Ttl = 2
  Idle = Idle
INVARIANTS TypeOK AttemptsWithinBudget AdmittedOnlyInLife KeptForLife
PROPERTIES ThrottleEnds
