CONSTANTS
  r1 = r1 r2 = r2 r3 = r3
  b1 = b1 b2 = b2 b3 = b3
  g1 = g1 g2 = g2
  Requests = {r1, r2, r3}
  Slots = {b1, b2, b3}
  NoGroup = NoGroup
  NoSlot = NoSlot
  GroupOf <- MCGroupOf
  Interval = 1
  Cooldown = 2
  MaxBrowsers = 2
  MaxQueueWait = 3
  InitialAvg = 1
  Far = 2
SYMMETRY Symmetry
SPECIFICATION Spec
INVARIANTS TypeOK PendingCountsInFlight LockDiscipline BrowserBudget
PROPERTIES ImplementsPacedPool ImplementsLookupGate
