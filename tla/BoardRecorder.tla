--------------------------- MODULE BoardRecorder ---------------------------
(***************************************************************************)
(* The board's microphone recorder (station/src/meeting_station/           *)
(* recorder.py): one arecord process, a watcher that waits for its end,    *)
(* and start() and stop(), all under one asyncio lock.  A holder of the    *)
(* lock is split where it awaits.  The rows are those of StationStore; the *)
(* rest of the station appears as the delivery that takes a queued row on. *)
(***************************************************************************)
EXTENDS StationStore, FiniteSets

CONSTANTS Recordings,
          Stops,         \* requests to stop under way at one time
          NoRecording

ASSUME NoRecordingAssumption == NoRecording \notin Recordings

VARIABLES
  recording,   \* the station's rows of these recordings
  active,      \* active_id
  spawning,    \* the recording whose process start() is creating
  process,     \* arecord
  audio,       \* recordings whose file holds more than a header
  watcher,     \* _watch()
  stops,       \* stop(): where the requests stand, and for what
  lost         \* history: rows whose finish_recording() raised

recorderVars == <<recording, active, spawning, process, audio, watcher, stops, lost>>

NoStop == [at |-> "none", job |-> NoRecording, error |-> FALSE]
HoldsLock == {"awaiting", "ending", "finishing"}

RecorderType ==
  /\ recording \in [Recordings -> Rows] /\ active \in Recordings \cup {NoRecording}
  /\ spawning \in Recordings \cup {NoRecording} /\ audio \subseteq Recordings
  /\ lost \subseteq Recordings
  /\ process \in [Recordings -> {"none", "running", "ended", "failed"}]
  /\ watcher \in [Recordings -> {"none", "waiting", "locking", "finishing"}]
  /\ stops \in [Stops -> [at : {"none", "locking"} \cup HoldsLock,
                         job : Recordings \cup {NoRecording}, error : BOOLEAN]]

RecorderInit ==
  /\ recording = [j \in Recordings |-> AbsentRow]
  /\ active = NoRecording /\ spawning = NoRecording
  /\ process = [j \in Recordings |-> "none"] /\ audio = {}
  /\ watcher = [j \in Recordings |-> "none"]
  /\ stops = [s \in Stops |-> NoStop]
  /\ lost = {}

LockFree ==
  /\ spawning = NoRecording
  /\ \A j \in Recordings : watcher[j] # "finishing"
  /\ \A s \in Stops : stops[s].at \notin HoldsLock

FinishedRow(j, error) == [recording EXCEPT ![j] = FinishRecording(@, error, j \in audio)]
IsStopping(j) == \E s \in Stops : stops[s].job = j /\ stops[s].at \in HoldsLock

-----------------------------------------------------------------------------
\* Mutant: the row is left as it is when arecord cannot be started.
StartFailsSilently(j) ==
  /\ spawning = j
  /\ spawning' = NoRecording
  /\ UNCHANGED <<recording, active, process, audio, watcher, stops, lost>>

\* start(): the row exists before the process does.
StartBegins(j) ==
  /\ LockFree /\ active = NoRecording /\ recording[j].stage = "absent"
  /\ recording' = [recording EXCEPT ![j] = CreateRow(@, TRUE)]
  /\ spawning' = j
  /\ UNCHANGED <<active, process, audio, watcher, stops, lost>>

StartSpawns(j) ==
  /\ spawning = j
  /\ spawning' = NoRecording /\ active' = j
  /\ process' = [process EXCEPT ![j] = "running"]
  /\ watcher' = [watcher EXCEPT ![j] = "waiting"]
  /\ UNCHANGED <<recording, audio, stops, lost>>

StartFails(j) ==
  /\ spawning = j
  /\ spawning' = NoRecording
  /\ recording' = FinishedRow(j, TRUE)
  /\ UNCHANGED <<active, process, audio, watcher, stops, lost>>

\* arecord: its time is up, its device is unplugged, ...
Capture(j) ==
  /\ process[j] = "running"
  /\ audio' = audio \cup {j}
  /\ UNCHANGED <<recording, active, spawning, process, watcher, stops, lost>>

ProcessEnds(j) ==
  /\ process[j] = "running"
  /\ \E how \in {"ended", "failed"} : process' = [process EXCEPT ![j] = how]
  /\ UNCHANGED <<recording, active, spawning, audio, watcher, stops, lost>>

\* _watch(): process.wait(), the lock, finish_recording() in a thread.
WatcherWakes(j) ==
  /\ watcher[j] = "waiting" /\ process[j] # "running"
  /\ watcher' = [watcher EXCEPT ![j] = "locking"]
  /\ UNCHANGED <<recording, active, spawning, process, audio, stops, lost>>

WatcherLocks(j) ==
  /\ watcher[j] = "locking" /\ LockFree
  /\ watcher' = [watcher EXCEPT ![j] = IF active = j THEN "finishing" ELSE "none"]
  /\ active' = IF active = j THEN NoRecording ELSE active
  /\ UNCHANGED <<recording, spawning, process, audio, stops, lost>>

WatcherFinishes(j) ==
  /\ watcher[j] = "finishing"
  /\ recording' = FinishedRow(j, ~(process[j] = "ended" /\ j \in audio))
  /\ watcher' = [watcher EXCEPT ![j] = "none"]
  /\ UNCHANGED <<active, spawning, process, audio, stops, lost>>

\* The file cannot be hashed, or the row not written.
WatcherRaises(j) ==
  /\ watcher[j] = "finishing"
  /\ watcher' = [watcher EXCEPT ![j] = "none"]
  /\ lost' = lost \cup {j}
  /\ UNCHANGED <<recording, active, spawning, process, audio, stops>>

-----------------------------------------------------------------------------
\* stop(), by a user or by close() at the end of the station.
StopArrives(s, j) ==
  /\ stops[s].at = "none" /\ recording[j].stage # "absent"
  /\ stops' = [stops EXCEPT ![s] = [NoStop EXCEPT !.at = "locking", !.job = j]]
  /\ UNCHANGED <<recording, active, spawning, process, audio, watcher, lost>>

\* Mutant: a second stop() of the same recording is carried out as well.
StopLocksAnyway(s) ==
  /\ stops[s].at = "locking" /\ LockFree
  /\ stops' = [stops EXCEPT ![s].at = "awaiting"]
  /\ active' = NoRecording
  /\ UNCHANGED <<recording, spawning, process, audio, watcher, lost>>

\* With another recording active the answer is the row as it is, or a
\* refusal while the row says "recording".
StopLocks(s) ==
  /\ stops[s].at = "locking" /\ LockFree
  /\ IF active = stops[s].job
     THEN stops' = [stops EXCEPT ![s].at = "awaiting"] /\ active' = NoRecording
     ELSE stops' = [stops EXCEPT ![s] = NoStop] /\ active' = active
  /\ UNCHANGED <<recording, spawning, process, audio, watcher, lost>>

\* Mutant: the watcher cannot be cancelled while it waits for the lock.
WatcherCancelledInProcess(j) ==
  /\ watcher[j] = "waiting"
  /\ \E s \in Stops : stops[s].at = "awaiting" /\ stops[s].job = j
  /\ watcher' = [watcher EXCEPT ![j] = "none"]
  /\ UNCHANGED <<recording, active, spawning, process, audio, stops, lost>>

\* The cancelled watcher ends at its await, be it the process or the lock.
WatcherCancelled(j) ==
  /\ watcher[j] \in {"waiting", "locking"}
  /\ \E s \in Stops : stops[s].at = "awaiting" /\ stops[s].job = j
  /\ watcher' = [watcher EXCEPT ![j] = "none"]
  /\ UNCHANGED <<recording, active, spawning, process, audio, stops, lost>>

StopAwaits(s) ==
  /\ stops[s].at = "awaiting" /\ watcher[stops[s].job] = "none"
  /\ stops' = [stops EXCEPT ![s].at = "ending"]
  /\ UNCHANGED <<recording, active, spawning, process, audio, watcher, lost>>

\* SIGINT, ten seconds, SIGKILL: the process has ended either way.
StopEndsProcess(s) ==
  LET j == stops[s].job IN
  /\ stops[s].at = "ending"
  /\ \E forced \in BOOLEAN :
       /\ forced => process[j] = "running"
       /\ process' = [process EXCEPT ![j] = IF @ = "running" THEN "ended" ELSE @]
       /\ stops' = [stops EXCEPT ![s].at = "finishing",
                               ![s].error = forced \/ j \notin audio]
  /\ UNCHANGED <<recording, active, spawning, audio, watcher, lost>>

StopFinishes(s) ==
  /\ stops[s].at = "finishing"
  /\ recording' = FinishedRow(stops[s].job, stops[s].error)
  /\ stops' = [stops EXCEPT ![s] = NoStop]
  /\ UNCHANGED <<active, spawning, process, audio, watcher, lost>>

StopRaises(s) ==
  /\ stops[s].at = "finishing"
  /\ stops' = [stops EXCEPT ![s] = NoStop]
  /\ lost' = lost \cup {stops[s].job}
  /\ UNCHANGED <<recording, active, spawning, process, audio, watcher>>

\* The station dies with its children and recovers its rows at startup.
StationRestarts ==
  /\ recording' = [j \in Recordings |->
               IF recording[j].stage = "recording"
               THEN FinishRecording(recording[j], TRUE, j \in audio) ELSE recording[j]]
  /\ active' = NoRecording /\ spawning' = NoRecording
  /\ process' = [j \in Recordings |-> IF process[j] = "running" THEN "failed" ELSE process[j]]
  /\ watcher' = [j \in Recordings |-> "none"]
  /\ stops' = [s \in Stops |-> NoStop]
  /\ lost' = {}
  /\ UNCHANGED audio

\* The delivery loop, whose steps are those of JobDelivery.
DeliverRecording(j) ==
  /\ recording[j].stage = "queued"
  /\ recording' = [recording EXCEPT ![j].stage = "completed"]
  /\ UNCHANGED <<active, spawning, process, audio, watcher, stops, lost>>

StartEnds(j) == StartSpawns(j) \/ StartFails(j)
Watcher(j) == WatcherWakes(j) \/ WatcherFinishes(j) \/ WatcherRaises(j) \/ WatcherCancelled(j)
StopGoesOn(s) == StopAwaits(s) \/ StopEndsProcess(s) \/ StopFinishes(s) \/ StopRaises(s)

RecorderNext ==
  \/ \E j \in Recordings :
       \/ StartBegins(j) \/ StartEnds(j) \/ Capture(j) \/ ProcessEnds(j)
       \/ Watcher(j) \/ WatcherLocks(j) \/ DeliverRecording(j)
  \/ \E s \in Stops : StopLocks(s) \/ StopGoesOn(s) \/ \E j \in Recordings : StopArrives(s, j)
  \/ StationRestarts

\* Handlers and the watcher, where they do not wait for the lock.
RecorderGoesOn ==
  \/ \E j \in Recordings : StartEnds(j) \/ Watcher(j)
  \/ \E s \in Stops : StopGoesOn(s)

-----------------------------------------------------------------------------
\* A row that is recording has somebody who will end it: start(), stop() or
\* the watcher.  Only an error of finish_recording() itself leaves it alone.
RecordingIsOwned ==
  \A j \in Recordings :
    recording[j].stage = "recording"
      => spawning = j \/ active = j \/ IsStopping(j) \/ watcher[j] = "finishing" \/ j \in lost

\* finish_recording() has no guard, so stop(), a second stop() and the watcher
\* must not all call it: what was delivered is never queued again.
FinishedOnce ==
  [][\A j \in Recordings :
       recording[j].stage \notin {"absent", "recording"}
         => recording'[j].stage \in {recording[j].stage, "completed"}]_recorderVars

\* The checksum of an archived recording is that of a file nobody writes to.
SourceIsClosed ==
  \A j \in Recordings :
    recording[j].stage \notin {"absent", "recording"} => process[j] # "running"

\* A recording that is stopped, or whose capture ended by itself, is archived
\* in the end: stop() holds the lock while it awaits the watcher, which may
\* itself wait for the lock.
RecordingEnds(j) ==
  process[j] \in {"ended", "failed"} \/ (active = j /\ \E s \in Stops : stops[s].job = j)
    ~> recording[j].stage # "recording" \/ j \in lost
=============================================================================
