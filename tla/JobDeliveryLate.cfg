SPECIFICATION CalmSpec
CONSTANTS
  Jobs = {j1}
  NoJob = NoJob
  BrowserJobs = {j1}
  Formats = {"json", "pdf"}
  LateRequests = TRUE
  MaxIntents = 3
INVARIANTS CancelReachesWorker
PROPERTIES ImplementsLifecycle Settles CommandDelivered
CHECK_DEADLOCK FALSE
