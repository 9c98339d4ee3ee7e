CONSTANTS
  None = None
  Unread = Unread
  Blank <- MCBlank
  Scopes <- MCScopes
  Amendments = 2
SPECIFICATION Spec
INVARIANTS TypeOK NothingMissed ReportedOnce HearingMirrors
