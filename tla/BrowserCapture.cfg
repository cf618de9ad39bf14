SPECIFICATION CalmSpec
CONSTANTS
  Jobs = {j1, j2}
  NoJob = NoJob
  Listed = 2
INVARIANTS TypeOK CapturesAreSound FailedJoinIsSilent
PROPERTIES ImportedOnce OnlyBrokenBlocks
CHECK_DEADLOCK FALSE
