SPECIFICATION FairSpec
CONSTANTS
  Versions <- MCSplit
  Fingerprint <- MCFingerprint
  Segments <- MCSegments
  Declared <- MCDeclared
  Estimate <- MCEstimate
  Policies = {"fail"}
  Garbage <- MCGarbage
  MaxNames = 1
PROPERTY EstimateGivesWay
