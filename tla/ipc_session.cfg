SPECIFICATION FairSpec
CONSTANTS
  MaxCommands = 2
  MaxChanges = 1
  MaxExits = 1
  MaxSessions = 6
  QueueLimit = 1
CHECK_DEADLOCK FALSE
PROPERTIES
  CommandAnswered
  ViewConverges
