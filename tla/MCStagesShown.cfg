SPECIFICATION Spec
CONSTANTS
  StageRole <- TwoChecks
  SwitchStages = {}
  Slots = {s1}
  Faults = {"lost"}
  MaxMoves = 4
  MaxChanges = 1
  MaxVersion = 2
CHECK_DEADLOCK FALSE
INVARIANTS
  StagesWereShown
