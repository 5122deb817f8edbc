SPECIFICATION Spec
CONSTANTS
  odd = odd
  even = even
  first = first
  second = second
  desk = desk
  tent = tent
  N = 2
  Layouts = {odd, even}
  Standings = {first, second}
  Configs <- MCConfigs
  FirstConfig <- MCFirst
  Editors = {desk, tent}
  MaxEdits = 2
  MaxChoices = 1
  MaxFaults = 1
SYMMETRY Interchangeable
INVARIANTS
  ScheduledFollowsRound
  StampedAsFlown
PROPERTIES
  KeepsWhatItFlew
  FieldStands
CHECK_DEADLOCK FALSE
