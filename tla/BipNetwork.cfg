\* Three BBMDs, one of them with a neighbour, and two foreign devices competing
\* for one entry of b2, which hears its own broadcasts.
SPECIFICATION Spec
CONSTANTS
  Nodes = {"b1", "n1", "b2", "b3", "f1", "f2"}
  Subnets = {"s1", "s2", "s3", "s4"}
  Home <- MCHome
  Bbmds = {"b1", "b2", "b3"}
  InitialBdt <- MCInitialBdt
  Tables <- MCTables
  Foreign = {"f1", "f2"}
  Registrar <- MCRegistrar
  Echoing = {"b2", "n1"}
  Nobody = Nobody
  MaxBdt = 2
  MaxFdt = 1
  MaxSends = 1
  MaxFaults = 2
  MaxCount = 3
INVARIANTS TypeOK AllHear CopiesBounded EchoesStayHome
PROPERTIES RestartKeepsTable ImplementsDelivery
