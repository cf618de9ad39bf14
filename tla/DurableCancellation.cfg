SPECIFICATION Spec
CONSTANTS
  j1 = j1
  j2 = j2
  Jobs = {j1}
  NoJob = NoJob
  BrowserJobs = {}
  Formats = {"json", "pdf"}
  LateRequests = FALSE
  MaxIntents = 3
INVARIANTS DurableCancellation
