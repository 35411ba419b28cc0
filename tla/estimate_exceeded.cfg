SPECIFICATION ResumingSpec
CONSTANTS
  MaxBytes = 2
  Downloads <- OneDownload
  Executions = {e1}
  Client = Client
  Nobody = Nobody
  Plans <- MCEstimatedPlans
INVARIANTS
  ActiveMeansOwned
