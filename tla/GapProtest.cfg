SPECIFICATION Spec
CONSTANTS
  h1 = h1
  h2 = h2
  Heats = {h1, h2}
  Protests = {p1}
  NoHeat = NoHeat
  Unseated = {}
  Endless = {}
  ZeroGrace = {}
  UntilScored = {}
  AutoOfficial = {h1}
  MaxLag = 2
  MaxLate = 1
  MaxCrashes = 0
  MaxIoErrors = 0
INVARIANTS
  ProtestsAreVisible
