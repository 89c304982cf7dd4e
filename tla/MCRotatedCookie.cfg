SPECIFICATION Spec
CONSTANTS
  StageRole <- ThreeStages
  SwitchStages = {2}
  Slots = {s1}
  Faults = {"body"}
  MaxMoves = 3
  MaxChanges = 1
  MaxVersion = 2
CHECK_DEADLOCK FALSE
INVARIANTS
  RenderedIsSigned
