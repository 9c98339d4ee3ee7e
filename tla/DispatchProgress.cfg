CONSTANTS
  r1 = r1 r2 = r2 r3 = r3
  b1 = b1 b2 = b2 b3 = b3
  g1 = g1 g2 = g2
  Requests = {r1, r2, r3}
  Slots = {b1, b2}
  NoGroup = NoGroup
  NoSlot = NoSlot
  GroupOf <- MCGroupOf2
  Interval = 2
  Cooldown = 2
  MaxBrowsers = 2
  MaxQueueWait = 2
  InitialAvg = 1
  Far = 2
SPECIFICATION FairSpec
PROPERTIES QueueGuarded AdmittedIsAnswered
