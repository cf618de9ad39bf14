SPECIFICATION FairSpec
CONSTANTS
  Jobs = {j1, j2}
  NoJob = NoJob
PROPERTIES OutcomeStands OrphanedByLostWriteOnly QueueDrains
CHECK_DEADLOCK FALSE
