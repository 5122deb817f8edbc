SPECIFICATION Spec
CONSTANTS
  h1 = h1
  h2 = h2
  Heats = {h1, h2}
  Protests = {}
  NoHeat = NoHeat
  Unseated = {h1}
  Endless = {}
  ZeroGrace = {h2}
  UntilScored = {}
  AutoOfficial = {h1}
  MaxLag = 2
  MaxLate = 0
  MaxCrashes = 1
  MaxIoErrors = 1
INVARIANTS
  NeverOrphaned
