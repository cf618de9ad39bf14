SPECIFICATION ServicesSpec
CONSTANTS
  Recordings = {r1, r2}
  Stops = {s1, s2}
  NoRecording = NoRecording
  NoTopic = NoTopic
  NoJob = NoJob
  Jobs = {j1, q1}
  Quick = {q1}
  Workers = {w1, w2}
  Capacity = 1
  MultiTrack = {j1}
  Renamed = {j1}
  MaxFailed = 1
  Slots = 1
  Streams = {a, b}
  Callers = {c1, c2}
  Topics = {t1, t2}
  Buffer = 1
  MaxEvents = 2
INVARIANTS ServicesType JobsHaveOneOwner JobsAreKept QuickIsSound StreamsAreSound
PROPERTIES VerdictsStand JobsEnd RecordingsAreSound RecordingsEnd StreamsEnd
CHECK_DEADLOCK FALSE
