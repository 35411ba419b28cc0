SPECIFICATION FairSpec
CONSTANTS
  Slots = {p1, p2}
  TornWrites = TRUE
  MaxExits = 1
  Nobody = Nobody
CHECK_DEADLOCK FALSE
PROPERTIES
  DesktopConnects
