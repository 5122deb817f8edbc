SPECIFICATION FairSpec
CONSTANTS
  wrong = wrong
  right = right
  Urls = {wrong, right}
  FirstUrl = right
  Cap = 2
  MaxEdits = 1
  MaxFlaps = 2
  MaxWrites = 1
  MaxHeats = 1
INVARIANTS
  OneConnection
  WritesStayWithTheirLink
PROPERTIES
  RestsUntilAsked
  ArmedHeatsReconnect
CHECK_DEADLOCK FALSE
