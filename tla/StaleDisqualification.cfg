SPECIFICATION Spec
CONSTANTS
  h1 = h1
  h2 = h2
  p1 = p1
  Heats = {h1, h2}
  Pilots = {p1}
  Instants = {1, 2, 3}
  NoHeat = NoHeat
  MinLap = 0
  Bounce = 0
  Openings <- AllOpenings
  MaxSteps = 3
INVARIANTS
  RefusedIsDisqualified
CHECK_DEADLOCK FALSE
