SPECIFICATION FairSpec
CONSTANTS
  Connections = {c1, c2}
  Reports <- MCReports
  Documents <- MCDocuments
  Pages = {"p", "q"}
  Streams = {"m"}
  Masters = {"m"}
  Capacity = 2
  MaxConnections = 2
  QueueLimit = 1
  MaxInputs = 3
  Nobody = Nobody
INVARIANTS
  AnswersTheQuestion
  TracksAreWanted
PROPERTIES
  Answered
  BrowserDownloadFindsItsCapture
CHECK_DEADLOCK FALSE
