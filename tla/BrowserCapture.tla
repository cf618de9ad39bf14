--------------------------- MODULE BrowserCapture ---------------------------
(***************************************************************************)
(* Recording of online meetings: the station's BrowserCapture (station     *)
(* browser.py) and its reconciler, and the browser's Controller process    *)
(* (deploy/meeting-browser/controller.py), which talk over loopback HTTP   *)
(* and restart independently.  Station operations hold one asyncio lock    *)
(* across their awaits; the controller's handlers and threads hold one     *)
(* RLock each time they run, so each of those is a single step here.       *)
(* The "audio" of a record is its WAV, until the end one that may prove    *)
(* invalid.                                                                *)
(***************************************************************************)
EXTENDS StationStore, Sequences, SequencesExt

CONSTANTS Jobs,          \* recordings the station may start
          NoJob,
          Listed         \* how many recent records GET /v1/status returns (20)

ASSUME CaptureAssumption ==
  NoJob \notin Jobs /\ IsFiniteSet(Jobs) /\ Listed \in Nat \ {0}

VARIABLES
  row,       \* station: the row of each job
  op,        \* station: the operation that holds BrowserCapture.lock
  request,   \* station: its POST to the controller
  sweep,     \* station: reconcile_once(), the listed records still to look at
  late,      \* POSTs given up by the station but not yet served
  outlived,  \* history: whether there has been such a POST
  record,    \* controller: the JSON file of each recording
  listing,   \* controller: its records, latest written first
  capture,   \* controller: active, the ffmpeg process, join_state of active
  saveLost,  \* history: recordings whose end the disk refused to write down
  begun      \* history: the operation that began each recording

controllerVars == <<record, listing, capture, saveLost>>
stationVars    == <<row, op, request, sweep>>
vars == <<stationVars, late, outlived, controllerVars, begun>>

NoOp      == [at |-> "idle", job |-> NoJob, how |-> "none", error |-> FALSE]
NoSweep   == [todo |-> <<>>, wants |-> FALSE, alive |-> TRUE]
DeadSweep == [NoSweep EXCEPT !.alive = FALSE]
NoRecord  == [state |-> "none", error |-> FALSE, audio |-> FALSE]
NoCapture ==
  [job |-> NoJob, process |-> "none", watched |-> FALSE, admission |-> "none"]

Starts  == {"join", "start"}
Records ==
  {r \in [state : {"none", "recording", "stopped", "interrupted"},
          error : BOOLEAN, audio : BOOLEAN] : r.audio => r.state # "none"}

\* "post", "confirm"            : join() and start()
\* "stop", "download", "import" : stop(), for a user or for the reconciler, and
\* the error that the controller's answer reported
Ops ==
  [at : {"idle", "post", "confirm", "stop", "download", "import"},
   job : Jobs \cup {NoJob}, how : Starts \cup {"user", "sweep", "none"},
   error : BOOLEAN]

Sweeps ==
  [todo : Seq([job : Jobs, skip : BOOLEAN]), wants : BOOLEAN, alive : BOOLEAN]

\* A capture begun by start() asks for no admission.
Captures ==
  [job : Jobs, process : {"running", "exited", "crashed"}, watched : BOOLEAN,
   admission : {"none", "pending", "given"}] \cup {NoCapture}

TypeOK ==
  /\ row \in [Jobs -> Rows]
  /\ op \in Ops
  /\ op.at = "idle" <=> op = NoOp
  /\ request \in {"none", "pending", "ok", "refused"}
  /\ request = "none" <=> op.at \notin {"post", "stop"}
  /\ sweep \in Sweeps
  /\ sweep.wants => sweep.todo # <<>>
  /\ late \subseteq (Starts \cup {"stop"}) \X Jobs
  /\ outlived \in BOOLEAN /\ (late # {} => outlived)
  /\ record \in [Jobs -> Records]
  /\ listing \in Seq(Jobs)
  /\ capture \in Captures
  /\ saveLost \subseteq Jobs \ {capture.job}
  /\ begun \in [Jobs -> Starts \cup {"none"}]

Init ==
  /\ row = [j \in Jobs |-> AbsentRow]
  /\ op = NoOp /\ request = "none" /\ sweep = NoSweep
  /\ late = {} /\ outlived = FALSE
  /\ record = [j \in Jobs |-> NoRecord] /\ listing = <<>>
  /\ capture = NoCapture /\ saveLost = {}
  /\ begun = [j \in Jobs |-> "none"]

SetRow(j, r) == row' = [row EXCEPT ![j] = r]
Release == op' = NoOp /\ request' = "none"

-----------------------------------------------------------------------------
(* The controller. *)

Save(j, r) ==
  /\ record' = [record EXCEPT ![j] = r]
  /\ listing' = <<j>> \o RemoveFirst(listing, j)

StatusList == SubSeq(listing, 1, IF Len(listing) < Listed THEN Len(listing) ELSE Listed)

\* finalize(): a good WAV, one with an error to report (interrupted, repaired,
\* silent), or no valid WAV at all.
Ended(error, audio) ==
  [state |-> IF error THEN "interrupted" ELSE "stopped", error |-> error, audio |-> audio]

Finalized(forced) == {Ended(forced, TRUE), Ended(TRUE, TRUE), Ended(TRUE, FALSE)}

Interrupted(r) == [r EXCEPT !.state = "interrupted", !.error = TRUE]

Recording(audio) == [state |-> "recording", error |-> FALSE, audio |-> audio]

\* start(): a job is posted once, so an active capture is always another's.
StartCapture(j, admission, answer) ==
  /\ UNCHANGED saveLost
  /\ \/ /\ capture.job # NoJob \/ record[j].state # "none"
        /\ answer = "refused"
        /\ UNCHANGED <<record, listing, capture>>
     \/ /\ capture.job = NoJob /\ record[j].state = "none"
        /\ \/ /\ Save(j, Recording(TRUE))
              /\ capture' = [job |-> j, process |-> "running", watched |-> TRUE,
                              admission |-> admission]
              /\ answer = "ok"
           \/ /\ Save(j, Interrupted(NoRecord))     \* ffmpeg does not start
              /\ UNCHANGED capture
              /\ answer = "refused"

\* join(): the page must open first, then capture starts before admission.
JoinMeeting(j, answer) ==
  \/ /\ answer = "refused"
     /\ UNCHANGED controllerVars
  \/ /\ capture.job = NoJob
     /\ StartCapture(j, "pending", answer)

\* stop() of the active capture: a process that already exited is not
\* signalled, one that ignores SIGINT is killed.  What the disk can do to it is
\* StopNotSaved, below.
Forced == IF capture.process = "running" THEN BOOLEAN ELSE {capture.process = "crashed"}

StopActive(blocked) ==
  /\ \E forced \in Forced : \E r \in Finalized(forced) :
       Save(capture.job,
            IF blocked \/ capture.admission = "pending"
            THEN Interrupted(r) ELSE r)
  /\ capture' = NoCapture
  /\ UNCHANGED saveLost

\* A recording that is not the active one is answered as it is written down,
\* be it "recording".
HandleStop(j, answer) ==
  \/ /\ record[j].state = "none"
     /\ answer = "refused"
     /\ UNCHANGED controllerVars
  \/ /\ record[j].state # "none" /\ capture.job # j
     /\ answer = "ok"
     /\ UNCHANGED controllerVars
  \/ /\ capture.job = j
     /\ StopActive(FALSE)
     /\ answer = "ok"

Handle(post, j, answer) ==
  \/ post = "join" /\ JoinMeeting(j, answer)
  \/ post = "start" /\ StartCapture(j, "none", answer)
  \/ post = "stop" /\ HandleStop(j, answer)

\* automate(): the page shows the call controls, or it is over.
Admitted(j) ==
  /\ capture.job = j /\ capture.admission = "pending"
  /\ capture' = [capture EXCEPT !.admission = "given"]
  /\ UNCHANGED <<stationVars, late, outlived, record, listing, saveLost, begun>>

\* Blocked, timed out, or ended: without admission, or when blocked, the
\* record becomes a failed capture.
MeetingOver(j) ==
  /\ capture.job = j /\ capture.admission # "none"
  /\ \E blocked \in BOOLEAN : StopActive(blocked)
  /\ UNCHANGED <<stationVars, late, outlived, begun>>

\* ffmpeg ends by itself (time or size limit, audio server) or dies.
CaptureExits ==
  /\ capture.process = "running"
  /\ \E how \in {"exited", "crashed"} : capture' = [capture EXCEPT !.process = how]
  /\ UNCHANGED <<stationVars, late, outlived, record, listing, saveLost, begun>>

\* watch() finalizes such a capture unless stop() was faster.
Watch ==
  /\ capture.process \in {"exited", "crashed"} /\ capture.watched
  /\ \E r \in Finalized(capture.process = "crashed") : Save(capture.job, r)
  /\ capture' = NoCapture
  /\ UNCHANGED <<stationVars, late, outlived, saveLost, begun>>

ServeLate ==
  /\ \E p \in late :
       /\ \E answer \in {"ok", "refused"} : Handle(p[1], p[2], answer)
       /\ late' = late \ {p}
  /\ UNCHANGED <<stationVars, outlived, begun>>

-----------------------------------------------------------------------------
(* The station: join() and start(). *)

\* The status shows no active recording, then the row is created.
Begin(j, how) ==
  /\ op = NoOp
  /\ row[j].stage = "absent"
  /\ capture.job = NoJob
  /\ SetRow(j, CreateRow(row[j], TRUE))
  /\ op' = [at |-> "post", job |-> j, how |-> how, error |-> FALSE]
  /\ request' = "pending"
  /\ begun' = [begun EXCEPT ![j] = how]
  /\ UNCHANGED <<sweep, late, outlived, controllerVars>>

Post == IF op.at = "stop" THEN "stop" ELSE op.how

Serve ==
  /\ request = "pending"
  /\ \E answer \in {"ok", "refused"} :
       /\ Handle(Post, op.job, answer)
       /\ request' = answer
       /\ op' = [op EXCEPT !.error =
                    Post = "stop" /\ answer = "ok" /\ record'[op.job].error]
  /\ UNCHANGED <<row, sweep, late, outlived, begun>>

Started ==
  /\ op.at = "post" /\ request = "ok"
  /\ Release
  /\ UNCHANGED <<row, sweep, late, outlived, controllerVars, begun>>

\* The error branch: join() keeps the import pending and asks once more,
\* start() gives up.
NotStarted ==
  IF op.how = "join"
  THEN /\ SetRow(op.job, BrowserImportPending(row[op.job]))
       /\ op' = [op EXCEPT !.at = "confirm"]
       /\ request' = "none"
  ELSE /\ SetRow(op.job, FinishRecording(row[op.job], TRUE, FALSE))
       /\ Release

StartRefused ==
  /\ op.at = "post" /\ request = "refused"
  /\ NotStarted
  /\ UNCHANGED <<sweep, late, outlived, controllerVars, begun>>

\* Mutant: a failed join is given up without asking.
ConfirmUnasked ==
  /\ op.at = "confirm"
  /\ SetRow(op.job, FinishRecording(row[op.job], TRUE, FALSE))
  /\ Release
  /\ UNCHANGED <<sweep, late, outlived, controllerVars, begun>>

\* A status that knows nothing of the job confirms that it did not start; a
\* status that fails or is not available changes nothing (ConnectionLost).
Confirm ==
  /\ op.at = "confirm"
  /\ IF capture.job # op.job /\ op.job \notin ToSet(StatusList)
     THEN SetRow(op.job, FinishRecording(row[op.job], TRUE, FALSE))
     ELSE UNCHANGED row
  /\ Release
  /\ UNCHANGED <<sweep, late, outlived, controllerVars, begun>>

-----------------------------------------------------------------------------
(* The station: stop() and reconcile_once(). *)

\* Mutant: an archived recording is imported again.
BeginStopAgain(j, how) ==
  /\ op = NoOp
  /\ op' = [at |-> "stop", job |-> j, how |-> how, error |-> FALSE]
  /\ request' = "pending"

BeginStop(j, how) ==
  /\ op = NoOp
  /\ ~row[j].archived
  /\ op' = [at |-> "stop", job |-> j, how |-> how, error |-> FALSE]
  /\ request' = "pending"

UserStop(j) ==
  /\ row[j].stage # "absent"
  /\ BeginStop(j, "user")
  /\ UNCHANGED <<row, sweep, late, outlived, controllerVars, begun>>

Stopped ==
  /\ op.at = "stop" /\ request = "ok"
  /\ op' = [op EXCEPT !.at = "download"]
  /\ request' = "none"
  /\ UNCHANGED <<row, sweep, late, outlived, controllerVars, begun>>

\* Any error of stop(): the job waits for its import, and an error raised in
\* the reconciler ends its round.
StopFails ==
  /\ SetRow(op.job, BrowserImportPending(row[op.job]))
  /\ Release
  /\ sweep' = IF op.how = "sweep" THEN NoSweep ELSE sweep

StopRefused ==
  /\ op.at = "stop" /\ request = "refused"
  /\ StopFails
  /\ UNCHANGED <<late, outlived, controllerVars, begun>>

\* Mutant: whatever was downloaded is imported.
DownloadUnchecked ==
  /\ op.at = "download"
  /\ op' = [op EXCEPT !.at = "import"]
  /\ UNCHANGED <<row, request, sweep, late, outlived, controllerVars, begun>>

\* The WAV is downloaded, validated and renamed into the archive; that of a
\* record that still says "recording" is refused.
Download ==
  /\ op.at = "download"
  /\ IF record[op.job].state # "recording" /\ record[op.job].audio
     THEN op' = [op EXCEPT !.at = "import"] /\ UNCHANGED <<row, request, sweep>>
     ELSE StopFails
  /\ UNCHANGED <<late, outlived, controllerVars, begun>>

\* Mutant: the wish for the lock survives its recording.
SweepOnStillWants(s) == [s EXCEPT !.todo = Tail(@)]

SweepOn(s) == [NoSweep EXCEPT !.todo = Tail(s.todo)]

\* finish_recording() in a thread, with the error the answer to stop reported.
Import ==
  /\ op.at = "import"
  /\ SetRow(op.job, FinishRecording(row[op.job], op.error, TRUE))
  /\ Release
  /\ sweep' = IF op.how = "sweep" THEN SweepOn(sweep) ELSE sweep
  /\ UNCHANGED <<late, outlived, controllerVars, begun>>

\* The records as a status answer reports them.
Report(skipped) ==
  [i \in 1 .. Len(StatusList) |->
     [job |-> StatusList[i], skip |-> record[StatusList[i]].state \in skipped]]

\* Mutant: only records that stopped cleanly are imported.
SweepStatusClean ==
  /\ sweep = NoSweep
  /\ sweep' = [NoSweep EXCEPT !.todo = Report({"recording", "interrupted"})]
  /\ UNCHANGED <<row, op, request, late, outlived, controllerVars, begun>>

SweepStatus ==
  /\ sweep = NoSweep
  /\ sweep' = [NoSweep EXCEPT !.todo = Report({"recording"})]
  /\ UNCHANGED <<row, op, request, late, outlived, controllerVars, begun>>

\* A recording still under way is passed over; the row is read without the lock.
SweepLooks ==
  /\ sweep.todo # <<>> /\ ~sweep.wants
  /\ LET item == Head(sweep.todo)
         r    == row[item.job] IN
     sweep' = IF ~item.skip /\ r.stage = "recording" /\ ~r.archived
              THEN [sweep EXCEPT !.wants = TRUE] ELSE SweepOn(sweep)
  /\ UNCHANGED <<row, op, request, late, outlived, controllerVars, begun>>

\* stop() has the lock: a job archived in the meantime is left alone.
SweepStops ==
  /\ sweep.wants /\ op = NoOp
  /\ LET j == Head(sweep.todo).job IN
     IF row[j].archived
     THEN sweep' = SweepOn(sweep) /\ UNCHANGED <<op, request>>
     ELSE BeginStop(j, "sweep") /\ UNCHANGED sweep
  /\ UNCHANGED <<row, late, outlived, controllerVars, begun>>

\* Delivery of an archived recording (module JobDelivery), in one step.
Delivered(r) == [r EXCEPT !.stage = "completed", !.submitted = TRUE, !.result = 0]

Deliver(j) ==
  /\ row[j].archived /\ row[j].stage = "queued"
  /\ SetRow(j, Delivered(row[j]))
  /\ UNCHANGED <<op, request, sweep, late, outlived, controllerVars, begun>>

-----------------------------------------------------------------------------
(* Faults. *)

Abandon ==
  \/ UNCHANGED <<late, outlived>>
  \/ /\ request = "pending"
     /\ late' = late \cup {<<Post, op.job>>} /\ outlived' = TRUE

\* Timeout or lost connection in any request of the operation.
ConnectionLost ==
  /\ \/ op.at = "post" /\ NotStarted /\ Abandon /\ UNCHANGED sweep
     \/ op.at = "confirm" /\ Release /\ UNCHANGED <<row, sweep, late, outlived>>
     \/ op.at \in {"stop", "download"} /\ StopFails /\ Abandon
  /\ UNCHANGED <<controllerVars, begun>>

\* recover(): recordings that were not imported yet stay pending.
StationRestart ==
  /\ Abandon
  /\ row' = [j \in Jobs |-> IF row[j].stage = "recording"
                            THEN BrowserImportPending(row[j]) ELSE row[j]]
  /\ Release
  /\ sweep' = NoSweep
  /\ UNCHANGED <<controllerVars, begun>>

\* The station's database refuses a write or a read of the operation: that is
\* neither a StoreError nor an OSError, so the row stays as it is and, under
\* the reconciler, run() ends for good.
StoreFails ==
  /\ op # NoOp /\ ~(op.at = "stop" /\ request = "ok")
  /\ Release
  /\ sweep' = IF op.how = "sweep" THEN DeadSweep ELSE sweep
  /\ Abandon
  /\ UNCHANGED <<row, controllerVars, begun>>

\* The same where the reconciler reads a row for itself.
ReconcilerDies ==
  /\ sweep.todo # <<>> /\ (sweep.wants => op = NoOp)
  /\ sweep' = DeadSweep
  /\ UNCHANGED <<row, op, request, late, outlived, controllerVars, begun>>

\* The controller's answer to a POST, early or late, is an error.
PostFails(post, j) ==
  \/ /\ request = "pending" /\ Post = post /\ op.job = j
     /\ request' = "refused" /\ UNCHANGED late
  \/ /\ <<post, j>> \in late
     /\ late' = late \ {<<post, j>>} /\ UNCHANGED request

\* The controller's disk is full.  start() writes nothing and gives up, or
\* ffmpeg cannot be started and that is not written down any more.
StartNotSaved(j) ==
  /\ capture.job = NoJob /\ record[j].state = "none"
  /\ \E how \in Starts : PostFails(how, j)
  /\ \/ UNCHANGED <<record, listing, saveLost>>
     \/ Save(j, Recording(FALSE)) /\ saveLost' = saveLost \cup {j}
  /\ UNCHANGED <<row, op, sweep, outlived, capture, begun>>

\* stop(), for a POST or for automate(), forgets the active capture before it
\* writes the record: in finalize(), and once more for the admission.
StopNotSaved(j) ==
  /\ capture.job = j
  /\ PostFails("stop", j) \/ (capture.admission # "none" /\ UNCHANGED <<request, late>>)
  /\ capture' = NoCapture
  /\ \/ saveLost' = saveLost \cup {j} /\ UNCHANGED <<record, listing>>
     \/ /\ capture.admission = "pending"
        /\ \E forced \in Forced : \E r \in Finalized(forced) : Save(j, r)
        /\ UNCHANGED saveLost
  /\ UNCHANGED <<row, op, sweep, outlived, begun>>

\* watch() dies of the same error before it forgets the capture.
WatchFails ==
  /\ capture.process \in {"exited", "crashed"} /\ capture.watched
  /\ capture' = [capture EXCEPT !.watched = FALSE]
  /\ UNCHANGED <<stationVars, late, outlived, record, listing, saveLost, begun>>

\* Requests to a dead controller fail.
ControllerLost ==
  /\ capture' = NoCapture
  /\ late' = {}
  /\ request' = IF request = "pending" THEN "refused" ELSE request
  /\ UNCHANGED <<row, op, sweep, outlived, begun>>

\* Mutant: an interrupted capture is not finalized.
ControllerRestartForgets == ControllerLost /\ UNCHANGED <<record, listing, saveLost>>

\* The list after the records in "saved" have been written, in any order.
WrittenLast(saved) ==
  {s \in SetToSeqs(ToSet(listing)) : \A a, b \in 1 .. Len(s) : a < b =>
     /\ s[b] \in saved => s[a] \in saved
     /\ s[a] \in saved \/ \E c, d \in 1 .. Len(listing) :
          c < d /\ listing[c] = s[a] /\ listing[d] = s[b]}

\* stop() was between its two writes when the controller died.
StopHalfDone ==
  capture.admission # "none" \/ (op.at = "stop" /\ op.job = capture.job /\ request = "pending")

\* How a record that says "recording" ends when the controller dies.
Endings(j) ==
  IF ~record[j].audio THEN {Ended(TRUE, FALSE)}
  ELSE UNION {Finalized(f) : f \in
         {TRUE} \cup IF j = capture.job /\ StopHalfDone THEN Forced ELSE {}}

Open == {j \in Jobs : record[j].state = "recording"}

\* A new controller finalizes every record that says "recording", as far as the
\* disk lets it.
ControllerRestart ==
  /\ \E saved \in SUBSET Open :
       /\ \E r \in [saved -> UNION {Endings(j) : j \in saved}] :
            /\ \A j \in saved : r[j] \in Endings(j)
            /\ record' = [j \in Jobs |-> IF j \in saved THEN r[j] ELSE record[j]]
       /\ listing' \in WrittenLast(saved)
       /\ saveLost' = Open \ saved
  /\ ControllerLost

Fault ==
  \/ ConnectionLost \/ StationRestart \/ StoreFails \/ ReconcilerDies
  \/ ControllerRestart \/ WatchFails
  \/ \E j \in Jobs : StartNotSaved(j) \/ StopNotSaved(j)

-----------------------------------------------------------------------------
Controller ==
  (\E j \in Jobs : Admitted(j) \/ MeetingOver(j)) \/ CaptureExits \/ Watch \/ ServeLate

User(j) == (\E how \in Starts : Begin(j, how)) \/ UserStop(j)

Sweep == SweepStatus \/ SweepLooks \/ SweepStops

\* What the operation that holds the lock does next.
Operation ==
  Started \/ StartRefused \/ Confirm \/ Stopped \/ StopRefused \/ Download \/ Import

\* Everything but the faults.
Work ==
  \/ Controller \/ Serve \/ Operation \/ Sweep
  \/ \E j \in Jobs : User(j) \/ Deliver(j)

Next == Work \/ Fault

Spec == Init /\ [][Next]_vars

\* The same with no restart and no connection lost.
WorkSpec == Init /\ [][Work]_vars

-----------------------------------------------------------------------------
(* Properties. *)

\* A recording handed to delivery is never taken back or imported again: the
\* reconciler, which read the row before it had the lock, and a user's Stop
\* meet on the same finished capture.
ImportedOnce ==
  [][\A j \in Jobs : row[j].archived => row'[j] \in {row[j], Delivered(row[j])}]_vars

\* No part of a meeting that is still being captured is taken for the whole,
\* and every imported job's retained recording has audio.
ArchivedIsFinished ==
  \A j \in Jobs : row[j].archived =>
    capture.job # j /\ record[j].state # "recording" /\ record[j].audio

\* The controller's files say "recording" of the active capture, whoever ends
\* it and wherever a crash falls, and of recordings whose end the disk refused
\* to write down: nothing else is left open, and skipped by the reconciler.
RecordingIsActive ==
  \A j \in Jobs : record[j].state = "recording" <=> capture.job = j \/ j \in saveLost

\* What the station and the controller have written down agrees with what the
\* controller does.
CapturesAreSound == ArchivedIsFinished /\ RecordingIsActive

\* A join reported as failed has no capture that still records the meeting
\* unseen, unless a request has outlived its client.
FailedJoinIsSilent ==
  ~outlived => \A j \in Jobs :
    begun[j] = "join" /\ row[j].stage = "failed" /\ ~row[j].archived
      => capture.job # j

\* "Failed admission is recorded as a failed capture rather than a normal
\* report" (docs/APPLIANCE_ARCHITECTURE.md): a capture that ends before its
\* join was admitted leaves an error, with which its job is imported.
NoReportWithoutAdmission ==
  [][capture.admission = "pending" /\ capture'.job # capture.job
       => record'[capture.job].error]_vars
=============================================================================
