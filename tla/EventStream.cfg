\* One page (pages do not affect each other); more events than the buffer and than the log hold.
SPECIFICATION FairSpec
CONSTANTS
  Topics = {"points", "stats"}
  Pages = {g1}
  EventBuffer = 2
  LogCapacity = 2
  MaxEvents = 4
  MaxSilent = 2
INVARIANTS TypeOK PageLogIsOrdered WrongOnlyWhereMissed
PROPERTIES ImplementsPageView PagesCatchUp
