---------------------------- MODULE JobDelivery ----------------------------
(***************************************************************************)
(* Delivery of jobs from the station to the Mac worker: the station's rows *)
(* (StationStore), its single delivery loop (station worker.py run_once),  *)
(* the users' cancel and retry, the HTTP exchange between the two          *)
(* machines, which may be lost or overtaken at any point, and the worker   *)
(* (MacWorker).  Both machines may restart, and the worker may lose its    *)
(* data.                                                                   *)
(***************************************************************************)
EXTENDS StationStore, MacWorker

CONSTANTS BrowserJobs,    \* the jobs recorded by the meeting browser
          Formats,        \* export files archived with a result
          LateRequests,   \* bound: are requests served after their client gave up?
          MaxIntents      \* bound on cancels and retries of one job

ASSUME DeliveryAssumption ==
  /\ BrowserJobs \subseteq Jobs
  /\ LateRequests \in BOOLEAN
  /\ MaxIntents \in Nat

VARIABLES station,   \* the row of each job in station.sqlite3
          files,     \* the export files on the station's disk
          loop,      \* run_once(): where it stands, with which row and files
          wire,      \* the loop's HTTP exchange with the worker
          late,      \* requests given up by the loop but not yet served
          overtaken  \* history: jobs a late request changed at the worker, with
                     \* no command of the loop served for them since

stationVars == <<station, files, loop, wire, late, overtaken>>
vars == <<macVars, stationVars>>

\* "request" : the action, upload or poll is under way
\* "result"  : the worker reported completion, its result is being fetched
\* "archive" : the exports are being downloaded
\* "dead"    : an exception has ended the task (LoopDies)
Steps    == {"idle", "request", "result", "archive", "dead"}
LoopIdle == [at |-> "idle", job |-> NoJob, row |-> AbsentRow, done |-> {}]
LoopDead == [LoopIdle EXCEPT !.at = "dead"]
InRound  == loop.job # NoJob

\* "recheck" is the GET that follows a retry answered with 409.
Requests == Commands \cup {"upload", "get", "recheck"}
Answers  == RemoteStages \cup {"404", "409", "refused", "unavailable"}
NoWire   == [request |-> "none", answer |-> "none"]

TypeOK ==
  /\ MacTypeOK
  /\ station \in [Jobs -> Rows]
  /\ files \in [Jobs -> SUBSET Formats]
  /\ loop \in [at : Steps, job : Jobs \cup {NoJob}, row : Rows, done : SUBSET Formats]
  /\ wire \in [request : Requests \cup {"none"}, answer : Answers \cup {"none", "pending"}]
  /\ late \subseteq (Requests \X Jobs)
  /\ overtaken \subseteq Jobs
  /\ InRound <=> loop.at \notin {"idle", "dead"}
  /\ wire.request = "none" <=> loop.at # "request"
  /\ wire.request = "none" <=> wire.answer = "none"

Init ==
  /\ MacInit
  /\ station = [j \in Jobs |-> AbsentRow]
  /\ files = [j \in Jobs |-> {}]
  /\ loop = LoopIdle
  /\ wire = NoWire
  /\ late = {}
  /\ overtaken = {}

SetRow(j, row) == station' = [station EXCEPT ![j] = row]

-----------------------------------------------------------------------------
(* The users of the station, and its recorders. *)

\* POST /v1/jobs with the source already archived.
Submit(j) ==
  /\ station[j].stage = "absent"
  /\ SetRow(j, CreateRow(station[j], FALSE))
  /\ UNCHANGED <<macVars, files, loop, wire, late, overtaken>>

StartRecording(j) ==
  /\ station[j].stage = "absent"
  /\ SetRow(j, CreateRow(station[j], TRUE))
  /\ UNCHANGED <<macVars, files, loop, wire, late, overtaken>>

\* The recorder or the browser capture stops: with an error or without, and
\* with an error possibly with no audio on disk.
StopRecording(j) ==
  /\ station[j].stage = "recording"
  /\ \E error, hasBytes \in BOOLEAN :
       /\ ~error => hasBytes
       /\ SetRow(j, FinishRecording(station[j], error, hasBytes))
  /\ UNCHANGED <<macVars, files, loop, wire, late, overtaken>>

UserCancel(j) ==
  /\ CanCancel(station[j])
  /\ station[j].gen < MaxIntents
  /\ SetRow(j, CancelRow(station[j]))
  /\ UNCHANGED <<macVars, files, loop, wire, late, overtaken>>

UserRetry(j) ==
  /\ CanRetry(station[j])
  /\ station[j].gen < MaxIntents
  /\ SetRow(j, RetryRow(station[j]))
  /\ UNCHANGED <<macVars, files, loop, wire, late, overtaken>>

-----------------------------------------------------------------------------
(* run_once() up to the first answer. *)

RequestFor(row) ==
  IF row.action # "none" THEN row.action
  ELSE IF row.submitted THEN "get" ELSE "upload"

\* work() picks a due row; its snapshot is what the rest of the round uses.
Pick(j) ==
  /\ loop.at = "idle"
  /\ WorkDue(station[j])
  /\ loop' = [at |-> "request", job |-> j, row |-> station[j], done |-> {}]
  /\ wire' = [request |-> RequestFor(station[j]), answer |-> "pending"]
  /\ UNCHANGED <<macVars, station, files, late, overtaken>>

\* The worker's handler of a request about job j, and the answer it gives.
Handle(request, j, answer) ==
  \/ /\ request = "upload"
     /\ CreateJob(j)
     /\ answer = mac'[j]
  \/ /\ request = "upload"
     /\ answer = "refused"          \* 400, 413, 415 or 422: not this source
     /\ UNCHANGED macVars
  \/ /\ request \in {"get", "recheck"}
     /\ answer = IF mac[j] = "absent" THEN "404" ELSE mac[j]
     /\ UNCHANGED macVars
  \/ /\ request \in Commands
     /\ mac[j] = "absent"
     /\ answer = "404"
     /\ UNCHANGED macVars
  \/ /\ request = "cancel"
     /\ CancelJob(j)
     /\ answer = mac'[j]
  \/ /\ request = "retry"
     /\ RetryJob(j)
     /\ answer = mac'[j]
  \/ /\ request = "retry"
     /\ mac[j] # "absent" /\ ~RetryAccepted(j)
     /\ answer = "409"
     /\ UNCHANGED macVars

\* Any other HTTP error (401, 5xx, 503 while the consumer is degraded).
Unavailable ==
  /\ wire.answer = "pending"
  /\ wire' = [wire EXCEPT !.answer = "unavailable"]
  /\ UNCHANGED <<macVars, station, files, loop, late, overtaken>>

ServeWaiting ==
  /\ wire.answer = "pending"
  /\ \E answer \in Answers :
       /\ Handle(wire.request, loop.job, answer)
       /\ wire' = [wire EXCEPT !.answer = answer]
  /\ overtaken' = IF wire.request \in Commands THEN overtaken \ {loop.job} ELSE overtaken
  /\ UNCHANGED late

\* A request served after its client gave up; nobody reads the answer.
ServeLate ==
  \E r \in late :
    /\ \E answer \in Answers : Handle(r[1], r[2], answer)
    /\ late' = late \ {r}
    /\ overtaken' = IF mac' # mac THEN overtaken \cup {r[2]} ELSE overtaken
    /\ UNCHANGED wire

\* The worker cannot tell the two apart.
Serve ==
  /\ ServeWaiting \/ ServeLate
  /\ UNCHANGED <<station, files, loop>>

-----------------------------------------------------------------------------
(* run_once() from the answer on.  The row is written, and the round ended  *)
(* or continued, without an await in between.                              *)

Row        == station[loop.job]
Generation == loop.row.gen
\* Mutant: the round ends with its exchange still open.
EndRoundKeepsWire == loop' = LoopIdle /\ UNCHANGED wire

EndRound == loop' = LoopIdle /\ wire' = NoWire

\* A failed attempt is final only for a first upload the worker refuses.
Final == ~loop.row.submitted /\ loop.row.action = "none"

ReceiveJob ==
  /\ wire.answer \in RemoteStages
  /\ ~(wire.request = "recheck" /\ wire.answer \in {"cancelled", "failed"})
  /\ SetRow(loop.job, ApplyRemote(Row, wire.answer, Generation))
  /\ IF Current(Row, Generation) /\ wire.answer = "completed" /\ Row.stage # "cancelled"
     THEN loop' = [loop EXCEPT !.at = "result"] /\ wire' = NoWire
     ELSE EndRound
  /\ UNCHANGED <<macVars, files, late, overtaken>>

\* Retry refused: look whether the job at the worker can satisfy it.
ReceiveConflict ==
  /\ wire.answer = "409"
  /\ wire' = [request |-> "recheck", answer |-> "pending"]
  /\ UNCHANGED <<macVars, station, files, loop, late, overtaken>>

\* The old inference has not exited: ENGINE_RETRY_PENDING, the command stays.
ReceiveRetryPending ==
  /\ wire.request = "recheck"
  /\ wire.answer \in {"cancelled", "failed"}
  /\ SetRow(loop.job, Defer(Row, Generation, FALSE))
  /\ EndRound
  /\ UNCHANGED <<macVars, files, late, overtaken>>

ReceiveMissing ==
  /\ wire.answer = "404"
  /\ SetRow(loop.job, RemoteMissing(Row, Generation))
  /\ EndRound
  /\ UNCHANGED <<macVars, files, late, overtaken>>

ReceiveRefused ==
  /\ wire.answer = "refused"
  /\ SetRow(loop.job, Defer(Row, Generation, Final))
  /\ EndRound
  /\ UNCHANGED <<macVars, files, late, overtaken>>

ReceiveUnavailable ==
  /\ wire.answer = "unavailable"
  /\ SetRow(loop.job, Defer(Row, Generation, FALSE))
  /\ EndRound
  /\ UNCHANGED <<macVars, files, late, overtaken>>

\* GET result of a completed job, then each export, written to its final
\* name only when the download is whole.
FetchResult ==
  /\ loop.at = "result"
  /\ mac[loop.job] = "completed"
  /\ loop' = [loop EXCEPT !.at = "archive"]
  /\ UNCHANGED <<macVars, station, files, wire, late, overtaken>>

ArchiveFile(f) ==
  /\ loop.at = "archive"
  /\ f \in Formats \ loop.done
  /\ mac[loop.job] = "completed"
  /\ loop' = [loop EXCEPT !.done = @ \cup {f}]
  /\ files' = [files EXCEPT ![loop.job] = @ \cup {f}]
  /\ UNCHANGED <<macVars, station, wire, late, overtaken>>

\* The worker no longer has a completed job: 404, or 409 after it was rebuilt.
FetchRefused ==
  /\ loop.at \in {"result", "archive"}
  /\ mac[loop.job] # "completed"
  /\ SetRow(loop.job, Defer(Row, Generation, Final /\ mac[loop.job] # "absent"))
  /\ EndRound
  /\ UNCHANGED <<macVars, files, late, overtaken>>

Complete ==
  /\ loop.at = "archive"
  /\ loop.done = Formats
  /\ SetRow(loop.job, CompleteRow(Row, Generation, 0))
  /\ EndRound
  /\ UNCHANGED <<macVars, files, late, overtaken>>

-----------------------------------------------------------------------------
(* Faults. *)

\* A request nobody waits for any more is lost, or still on its way.
Abandon ==
  \/ UNCHANGED late
  \/ /\ LateRequests
     /\ wire.answer = "pending"
     /\ wire.request \in Commands \cup {"upload"}
     /\ late' = late \cup {<<wire.request, loop.job>>}

\* Timeout, lost connection, or an error of the station's own.
GiveUp ==
  /\ InRound
  /\ Abandon
  /\ SetRow(loop.job, Defer(Row, Generation, FALSE))
  /\ EndRound
  /\ UNCHANGED <<macVars, files, overtaken>>

\* run() has no try: an error of the database in work(), or in the defer() or
\* remote_missing() of an except branch, ends the task, and nothing but a
\* restart of the station starts another.
LoopDies ==
  /\ loop.at # "dead"
  /\ Abandon
  /\ loop' = LoopDead
  /\ wire' = NoWire
  /\ UNCHANGED <<macVars, station, files, overtaken>>

\* recover(): interrupted recordings of the browser wait for their import,
\* board recordings fail with whatever audio is on disk.
Recovered(j, hasBytes) ==
  IF station[j].stage # "recording" THEN station[j]
  ELSE IF j \in BrowserJobs THEN BrowserImportPending(station[j])
  ELSE FinishRecording(station[j], TRUE, hasBytes)

StationRestart ==
  /\ Abandon
  /\ \E hasBytes \in [Jobs -> BOOLEAN] :
       station' = [j \in Jobs |-> Recovered(j, hasBytes[j])]
  /\ EndRound
  /\ UNCHANGED <<macVars, files, overtaken>>

ConsumerLosesWrite == (\E j \in Jobs : ConsumerErrorLost(j)) /\ UNCHANGED stationVars

Fault ==
  \/ Unavailable \/ GiveUp \/ LoopDies \/ StationRestart \/ ConsumerLosesWrite
  \/ (MacRestart \/ MacReset) /\ UNCHANGED stationVars

-----------------------------------------------------------------------------
User(j) == Submit(j) \/ StartRecording(j) \/ UserCancel(j) \/ UserRetry(j)

Receive ==
  \/ ReceiveJob \/ ReceiveConflict \/ ReceiveRetryPending
  \/ ReceiveMissing \/ ReceiveRefused \/ ReceiveUnavailable

Archive ==
  FetchResult \/ FetchRefused \/ Complete \/ \E f \in Formats : ArchiveFile(f)

MacStep == (\E j \in Jobs : Consume(j)) /\ UNCHANGED stationVars

\* Everything but the faults.
Work ==
  \/ \E j \in Jobs : User(j) \/ StopRecording(j) \/ Pick(j)
  \/ Serve \/ Receive \/ Archive
  \/ MacStep

Next == Work \/ Fault

Spec == Init /\ [][Next]_vars
-----------------------------------------------------------------------------
(* Properties. *)

Pending(j) == station[j].stage \in {"queued", "running", "exporting"}

\* The generation number is a sound guard for everything the loop does after
\* an await: while it is unchanged, the row is still the picked one, and once
\* completion was reported still the one apply_remote() left (store.py's
\* "row['generation'] != generation" checks rely on it).
GenerationGuardsRow ==
  InRound /\ Row.gen = Generation =>
    IF loop.at = "request" THEN Row = loop.row
    ELSE Row.stage = "exporting" /\ Row.submitted /\ Row.action = "none"

\* A pending command is always the user's latest intent, and only ever for a
\* job the worker is known to have: no stale answer re-arms an older command.
CommandMatches(row) ==
  /\ row.action = "cancel" => row.stage = "cancelled"
  /\ row.action = "retry"  => row.stage = "queued"
  /\ row.action # "none"   => row.submitted

CommandIsLatestIntent == \A j \in Jobs : CommandMatches(station[j])

\* "A job becomes completed only after all exports and its result are on the
\* board" (station/README.md): whatever overtakes the archiving round.
CompletedIsArchived ==
  \A j \in Jobs : station[j].stage = "completed" =>
    files[j] = Formats /\ station[j].result # NoResult

\* A cancelled job stays cancelled until its user retries it: no upload
\* answer, poll, archive or restart brings it back.
CancelSticks ==
  [][\A j \in Jobs :
       station[j].stage = "cancelled" /\ station'[j].stage # "cancelled"
         => station'[j].gen = station[j].gen + 1 /\ station'[j].stage = "queued"]_vars

\* The loop never changes what it learnt from an older generation into a
\* stage: with a newer intent in the row only "submitted" and its command move.
StaleAnswerKeepsIntent ==
  [][InRound /\ Row.gen # Generation /\ loop'.job = NoJob =>
       LET j == loop.job IN
       /\ station'[j].stage = Row.stage
       /\ Row.action # "none" => station'[j].action = Row.action]_vars

\* The cancel command of a job the worker has is dropped only when nothing is
\* left to cancel there.  The exception is a job that a request served after
\* its client gave up has changed behind the station's back: nothing fences
\* such a request until the next command of the loop is served.
CancelReachesWorker ==
  \A j \in Jobs \ overtaken :
    station[j].stage = "cancelled" /\ station[j].submitted /\ station[j].action = "none"
      => mac[j] \notin Live

\* "Durable cooperative cancellation" (station/README.md): a job cancelled at
\* the station and still live at the worker has its cancellation under way.
DurableCancellation ==
  \A j \in Jobs :
    station[j].stage = "cancelled" /\ mac[j] \in Live /\ loop.job # j
      => station[j].action = "cancel"

-----------------------------------------------------------------------------
\* What the station promises its users about a job.
Status(j) ==
  IF Pending(j) THEN "pending" ELSE station[j].stage

Lifecycle == INSTANCE JobLifecycle WITH
  status <- [j \in Jobs |-> Status(j)],
  intents <- [j \in Jobs |-> station[j].gen],
  overtaken <- overtaken

ImplementsLifecycle == Lifecycle!Spec
=============================================================================
