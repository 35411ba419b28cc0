SPECIFICATION Spec
CONSTANTS
  Versions <- MCVersions
  Fingerprint <- MCFingerprint
  Segments <- MCSegments
  Declared <- MCDeclared
  Estimate <- MCEstimate
  Policies = {"fail", "overwrite"}
  Garbage <- MCGarbage
  MaxNames = 1
INVARIANTS
  AttemptsStartSafely
  CompletedIsWhole
