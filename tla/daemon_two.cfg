SPECIFICATION DaemonSpec
CONSTANTS
  MaxBytes = 0
  Downloads <- TwoDownloads
  Executions = {e1, e2}
  Client = Client
  Nobody = Nobody
  Plans <- MCOnePlan
  MaxConcurrent = 2
  MaxAttempts = 1
INVARIANTS
  SlotsMatchWorkers
  ExecutionHoldsLatest
