CONSTANTS
  Tenants = {acme, zeta}
  Writers = {w1}
  None = None
  PAGE_SIZE = 2
  SESSION_MAX_AGE = 4
  Retention = 3
  DayLength = 2
  Days = {1}
  Slow = 1
  MaxRows = 4
  Horizon = 4
SYMMETRY Symmetry
SPECIFICATION Spec
INVARIANTS TypeOK PagesDescend OnlyTiesSkipped ShownInRange SessionBounded
