CONSTANTS
  Bodies <- MCBodies
  MaxRequests = 2
SPECIFICATION FairSpec
INVARIANTS TypeOK CooldownJustified OneAnswerOneVerdict
PROPERTY AttemptEnds
CHECK_DEADLOCK FALSE
