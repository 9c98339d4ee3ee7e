CONSTANTS
  Lookups = {l1, l2, l3}
  Reaper = Reaper
  Shutdown = Shutdown
  NoTask = NoTask
  Attempts = 2
  IdleTimeout = 2
SPECIFICATION FairSpec
INVARIANTS TypeOK InUseIsOpen ProfileExclusive DeadChromeIsDropped ExitLeavesNothing
PROPERTIES LookupIsServed IdleIsClosed ShutdownEnds
