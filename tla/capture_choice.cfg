SPECIFICATION Spec
CONSTANTS
  Connections = {c1}

  Reports = {}
  Documents <- MCLists
  Pages = {"p", "q"}
  Streams = {"m"}
  Masters = {"m"}
  Capacity = 2
  MaxConnections = 2
  QueueLimit = 1
  MaxInputs = 4
  Nobody = Nobody
CHECK_DEADLOCK FALSE
INVARIANTS
  ListedChoiceKept
