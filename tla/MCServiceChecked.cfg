SPECIFICATION Spec
CONSTANTS
  Steps = {"complete", "claim"}
  MaxVersion = 1
  MaxAdmitted = 1
INVARIANTS
  CompletedServiceCounts
