\* As BipNetwork.cfg, with one foreign device and no fault: nothing is amiss but
\* that b2, with which it registers, hears itself.
SPECIFICATION Spec
CONSTANTS
  Nodes = {"b1", "n1", "b2", "b3", "f1"}
  Subnets = {"s1", "s2", "s3", "s4"}
  Home <- MCHome
  Bbmds = {"b1", "b2", "b3"}
  InitialBdt <- MCInitialBdt
  Tables <- MCTables
  Foreign = {"f1"}
  Registrar <- MCRegistrar
  Echoing = {"b2", "n1"}
  Nobody = Nobody
  MaxBdt = 2
  MaxFdt = 1
  MaxSends = 1
  MaxFaults = 0
  MaxCount = 3
INVARIANTS ForwardingEnds
