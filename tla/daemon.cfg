SPECIFICATION FairDaemonSpec
CONSTANTS
  MaxBytes = 0
  Downloads <- TwoDownloads
  Executions = {e1}
  Client = Client
  Nobody = Nobody
  Plans <- MCOnePlan
  MaxConcurrent = 1
  MaxAttempts = 2
INVARIANTS
  WorkConserving
  PublicationIsKept
PROPERTIES
  ServesManager
  StopFreesSlot
