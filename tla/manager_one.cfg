SPECIFICATION Spec
CONSTANTS
  MaxBytes = 2
  Downloads <- OneDownload
  Executions = {e1}
  Client = Client
  Nobody = Nobody
  Plans <- MCPlans
INVARIANTS
  TypeOK
  RegistryMatchesStore
  CompletedIsPublished
PROPERTIES
  StrandedOnlyByError
  StepsKeepPromises
  ImplementsLifecycle
