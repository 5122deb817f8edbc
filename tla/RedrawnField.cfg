SPECIFICATION Spec
CONSTANTS
  odd = odd
  even = even
  first = first
  second = second
  desk = desk
  tent = tent
  N = 2
  Layouts = {odd, even}
  Standings = {first, second}
  Configs <- MCConfigs
  FirstConfig <- MCFirst
  Editors = {desk, tent}
  MaxEdits = 1
  MaxChoices = 0
  MaxFaults = 0
PROPERTIES
  RacedFieldStands
CHECK_DEADLOCK FALSE
