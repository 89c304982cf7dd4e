SPECIFICATION Spec
CONSTANTS
  Steps = {"claim", "refund"}
  MaxVersion = 1
  MaxAdmitted = 1
INVARIANTS
  RefundWasOfSettled
