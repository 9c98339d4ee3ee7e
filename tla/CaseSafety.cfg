CONSTANTS
  Requests = {r1, r2}
  Keys = {k1}
  NoEntry = NoEntry
  Ttl = 2
  Cooldown = 3
  Waits = {5}
  Slow = 1
  Horizon = 3
SYMMETRY Symmetry
SPECIFICATION Spec
INVARIANTS TypeOK OnlyCasesServed LogAgreesWithReply
PROPERTIES HitsAreFresh CacheRunsForward DuplicateOnlyInRace RetryAfterNotOverstated
