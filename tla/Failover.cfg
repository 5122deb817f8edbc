SPECIFICATION Spec
CONSTANTS
  primary = primary
  alternate = alternate
  NoTimer = NoTimer
  Selection <- Redundant
  Grace = 2
  MaxHeats = 1
  MaxCrossings = 1
  MaxDeletions = 0
  MaxDrops = 1
INVARIANTS
  NoDoubleCount
