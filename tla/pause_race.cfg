SPECIFICATION Spec
CONSTANTS
  MaxBytes = 0
  Downloads <- OneDownload
  Executions = {e1}
  Client = Client
  Nobody = Nobody
  Plans <- MCChangingPlans
PROPERTIES
  PausedTransferIsPausable
