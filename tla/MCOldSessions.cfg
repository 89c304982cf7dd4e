SPECIFICATION Spec
CONSTANTS
  Steps = {"suspend"}
  MaxVersion = 2
  MaxAdmitted = 2
INVARIANTS
  ResetEndsOldSessions
