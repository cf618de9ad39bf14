SPECIFICATION Spec
CONSTANTS
  j1 = j1
  j2 = j2
  Jobs = {j1, j2}
  NoJob = NoJob
  BrowserJobs = {}
  Formats = {"pdf"}
  LateRequests = FALSE
  MaxIntents = 2
INVARIANTS TypeOK GenerationGuardsRow CommandIsLatestIntent CompletedIsArchived
PROPERTIES CancelSticks StaleAnswerKeepsIntent
SYMMETRY JobSymmetry
