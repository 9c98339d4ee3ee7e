CONSTANTS
  Lookups = {l1, l2}
  Reaper = Reaper
  Shutdown = Shutdown
  NoTask = NoTask
  Attempts = 2
  IdleTimeout = 2
SYMMETRY LookupSymmetry
SPECIFICATION Spec
INVARIANT NoOrphanedDriver
