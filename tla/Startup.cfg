\* Two instances and the five migrations; two kills, two failing statements.
CONSTANTS
  i1 = i1  i2 = i2
  None = None
  Instance <- TwoInstances
  Last = 5
  Repeatable <- OfTheFiles
  MaxCrashes = 2
  MaxErrors = 2
SPECIFICATION FairSpec
INVARIANTS TypeOK SchemaRecorded TokensVerify
PROPERTIES AllServe
CHECK_DEADLOCK FALSE
