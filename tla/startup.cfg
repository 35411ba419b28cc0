SPECIFICATION FairSpec
CONSTANTS
  Slots = {p1, p2}
  TornWrites = FALSE
  MaxExits = 2
  Nobody = Nobody
CHECK_DEADLOCK FALSE
PROPERTIES
  ServingIsFound
  DesktopConnects
