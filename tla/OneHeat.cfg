SPECIFICATION FairSpec
CONSTANTS
  h1 = h1
  h2 = h2
  Heats = {h1}
  Protests = {p1}
  NoHeat = NoHeat
  Unseated = {}
  Endless = {}
  ZeroGrace = {}
  UntilScored = {}
  AutoOfficial = {h1}
  MaxLag = 3
  MaxLate = 1
  MaxCrashes = 1
  MaxIoErrors = 0
INVARIANTS
  QuietWhenCaughtUp
  NeverOrphaned
PROPERTIES
  ImplementsHeatLoop
  StartsAreAnnounced
  OfficialsAreAnnounced
  GraceIsMarked
  NoOfficialOverProtest
  ArmedGoes
  RaceCloses
  WindowCloses
  EmissionStops
