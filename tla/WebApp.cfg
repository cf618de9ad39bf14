SPECIFICATION WebSpec
CONSTANTS
  None = None
  Attempts = {1, 2}
  Batches = {1, 2}
  Sources = {"f", "g"}
  Requests = {r1, r2}
  Timer = Timer
  MaxVersion = 5
  Jobs = {j1, j2}
  MultiJobs = {j2}
  NoJob = NoJob
  Filters = {{j1, j2}}
  MaxBusy = 1
  Families = {"whisper"}
  Diarizers = {"pyannote"}
  Profiles = {p1}
  MultiProfiles = {}
  NoProfile = NoProfile
  MaxLoads = 1
  MaxVisits = 2
  MaxWork = 2
  MaxReads = 1
  MaxChanges = 1
  ProfileIds = {p1}
  NewProfile = NewProfile
  Templates = {t1}
  New = New
  Texts = {x}
  NoText = NoText
  Models = {m1, m2}
  NoModel = NoModel
  Keys = {k1, k2}
  NoKey = NoKey
  ChatIds = {c1, c2}
  NoChat = NoChat
  MaxAsked = 1
  MaxQuestions = 1
  MaxEdits = 1
INVARIANTS WebType AudioIsSafe FormsAreTrue ChatIsItsOwn
PROPERTIES SessionsStayApart OperationsAreAccounted
CHECK_DEADLOCK FALSE
