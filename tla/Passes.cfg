SPECIFICATION Spec
CONSTANTS
  primary = primary
  alternate = alternate
  NoTimer = NoTimer
  Selection <- Single
  Grace = 2
  MaxHeats = 2
  MaxCrossings = 2
  MaxDeletions = 1
  MaxDrops = 1
INVARIANTS
  ToldOnceOverAgain
  FlownInItsHeat
  NothingSwallowed
