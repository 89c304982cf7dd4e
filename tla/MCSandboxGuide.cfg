SPECIFICATION Spec
CONSTANTS
  Steps = {"pause", "activate", "suspend", "reactivate", "complete", "cancel", "hold", "release", "void", "settle", "fail", "retry", "refund", "claim"}
  MaxVersion = 2
  MaxAdmitted = 2
INVARIANTS
  TypeOK
  StagesAreEarned
  OldSessionsAdvanceNothing
