SPECIFICATION FairSpec
CONSTANTS
  Versions <- MCVersions
  Size <- MCSize
  Sized <- MCSized
  Tagged <- MCTagged
  Garbage = "garbage"
  MaxNames = 2
INVARIANTS
  ResumeIsSafe
  FilesAreOneVersion
  NoLeftoverBlocksAttempt
PROPERTIES
  StopAnswered
