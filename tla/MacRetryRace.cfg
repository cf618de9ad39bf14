SPECIFICATION Spec
CONSTANTS
  Jobs = {j1, j2}
  NoJob = NoJob
PROPERTIES RetryWaitsForInference
CHECK_DEADLOCK FALSE
