# Verification of the meeting station

TLA+ specifications of the parts of this repository that carry its own
protocols, the TLC runs that check them on small instances, and theorems about
them checked by TLAPS. Paths below are relative to the repository root; the
abbreviations are

| short | path |
|---|---|
| station | `station/src/meeting_station/` |
| worker  | `mac-worker/src/meeting_worker/` |
| controller | `deploy/meeting-browser/controller.py` |
| web | `web/frontend/src/` |
| Go | `internal/` |

## 1. The system

A meeting is recorded or uploaded on a small board (the *station*), transcribed
and summarised on a Mac (the *worker*), and read and reviewed in a browser. Online
meetings are recorded by a Chromium driven by a third process (the *controller*).

| component | state it keeps | operations | talks to |
|---|---|---|---|
| station store (`store.py`) | one SQLite row per job: stage, submitted, action, generation, result; source and export files | create, work, apply_remote, defer, complete, retry, cancel, remote_missing, finish_recording, recover, browser_import_pending | everything on the station; each method is one transaction under one lock |
| station delivery loop (`worker.py`) | the picked row, the HTTP exchange | run_once, archive_result | store; worker over HTTP |
| station API (`main.py`) | review lock | create, retry, cancel, review | store, worker |
| browser capture (`browser.py`) | one asyncio lock | join, start, stop, reconcile_once | store; controller over HTTP |
| board recorder (`recorder.py`) | active process, watcher | start, stop, _watch | store |
| controller | one JSON file and one WAV per recording; active process; join state | join, start, stop, watch, automate, finalize, restart | Chromium, ffmpeg |
| worker store and API (`store.py`, `main.py`) | one row per job; current result path | create, cancel, retry, result, export, review | pipeline |
| worker consumer and pipeline (`main.py`, `pipeline.py`) | `active_job`, stages | claim, run, cancellation checks, publication, recovery | worker store |
| review (`review.py`, `bundle.py`) | immutable revisions, one result pointer | save_review | worker store |

The repository also holds the service it grew from, the retained Go appliance
(`internal/`: task queue, repository, dropzone, quick transcription, server-sent
events, API), with its browser client (`web/frontend`), an earlier Python hub and
engine (`backend/`, `engine/`) and a macOS client. Of the Go service these parts
keep state under concurrency:

| part of the Go service | state it keeps | operations | talks to |
|---|---|---|---|
| task queue (`queue.go`, `lifecycle.go`) | channel of jobs, `runningJobs` with their cancel functions, the row's status | enqueue, claim, finish, kill, begin and complete a deletion, reset, recover, stop | job handlers, processors |
| quick transcription (`quick_transcription.go`) | jobs in memory, a manifest each, slots, a temporary row in the table of the jobs | submit, process, publish, purge, expire, restore, close | processor, repository |
| dropzone (`dropzone.go`) | archive and row per readiness marker | look up, copy and verify, create, acknowledge | file system, task queue |
| event broadcaster (`broadcaster.go`) | subscribers with a channel each | register, unregister, broadcast, shutdown | event streams, processors |

The browser client is the largest part of the repository and keeps state of its
own:

| part of the web client | state it keeps | operations | talks to |
|---|---|---|---|
| adding audio (`SystemAudioRecorder`, `AudioRecorder`, `GlobalUploadContext`, `Header`, the quick, YouTube and multi-track dialogs) | capture streams, blob, batches under way and one progress list, polls | start, pause, stop, upload, retry, close, drop files, submit, poll | the browser's media devices, upload endpoints |
| session (`authStore`, `authHelpers`, `authInterceptor`, `useAuth`, sign-in forms) | token and its version, one refresh under way | login, logout, fetch with one retry, refresh, reload | every other part, through `fetch` |
| job list (`AudioFilesTable`, its hooks and two start dialogs) | rows, selection, what was clicked, one dialog, a bulk operation | search, select, start, stop, delete, in bulk or one at a time | jobs and events of the service |
| settings (`SettingsPage` and eleven components) | rows and forms of the open tab, saves under way | create, edit, save, delete, change password | templates, keys, model, profiles, user |
| chat (`ChatSidePanel`, `ChatSessionsSidebar`, `ChatInterface`, `ChatEventsContext`) | sessions, the one followed, messages, titles being generated | create, rename, delete, select, ask | `internal/api/chat_handlers.go`; list and conversation talk by events |

`PROJECT.json` lists every component with its status.

### What is hard

* **Stale answers.** The delivery loop picks a row, awaits the worker for up to
  minutes, and then writes the row; users cancel and retry meanwhile. The only
  guard is a generation number.
* **Uncertain exchanges.** A request may be lost before or after it took effect,
  or take effect after its client gave up. Uploads and saves are repeated under
  the same identity.
* **Cancellation across three places** (row, worker table, running inference),
  each of which may be ahead of the others.
* **Crashes** of either machine, the controller, or between two writes of one
  operation; a worker whose disk was reset.
* **Publication.** Completion and review revisions must become visible only
  with all their files, on two machines.
* **Two owners of one capture.** A user's Stop, the reconciler, the watcher of
  ffmpeg and the join automation all end the same recording.
* **Late answers in the client.** Components are closed, opened for something
  else or unmounted while their requests are under way; few answers carry the
  identity of what they were asked for. A renewed token re-runs effects and with
  them loads that overwrite forms.
* **A table shared by several owners.** In the Go service a row's status is written
  by handlers, queue workers, the recovery at startup and quick transcription;
  locks in memory and conditional updates of the row share the protection.
* **One session, many requests.** Concurrent 401s share a refresh, and all of
  them may be answered in another login.

`PROJECT.json` lists each hazard at its line with the properties that cover it.

## 2. Modules

```
StationStore  (row operators)    MacWorker  (job table, handlers, consumer)
      |      \                    /      |
      |       JobDelivery --------       MacQueue   (many clients, retry in two steps)
      |        |     |    \
      |        |     |     JobDeliveryLiveness
      |        +--> JobLifecycle (abstract, implemented by JobDelivery)
      |
      |- BrowserCapture -- BrowserCaptureLiveness
      |- BoardRecorder
ReviewSync -- ReviewSyncLiveness
      \-- ReviewLog (abstract, implemented by ReviewSync)

SystemRecorder  MicRecorder  Uploads  QuickDialog -- AddAudio --+
Session --------------------------------------------------------+
ConfigDialog  ProfileChoice -- JobList -------------------------+-- WebApp
SettingsTable  TemplateEditor  ApiKeys  LlmForm                 |
       ProfileEditor  AccountForm -- Settings ------------------+
ChatServer -- ChatThread  ChatSidebar -- Chat ------------------+

BoardRecorder -------------------+
TaskQueue -- QuickTranscription -+-- Services
Broadcaster ---------------------+

MCJobDelivery: an instance for TLC

proofs:
MacWorkerProofs -+- JobDeliveryProofs        BrowserCaptureProofs
                 +- MacQueueProofs           ReviewSyncProofs
TaskQueueProofs ---- ServicesProofs          WebAppProofs
```

**StationStore** has one operator per method of `Store`, from the row before to
the row after; there are no variables. The six running stages of the worker are
one value `"running"`, since the station copies them without looking;
`available_at` and `attempts` only decide *when* a row is picked again and are
abstracted to "at any time".

**MacWorker** is the worker's table `mac` and its queue consumer. The consumer's
places are the points between which a handler thread can run: after `claim()`,
while `_run_locked()` is at work, after its last write, and between an exception
and the write of the consumer's own except branch, which can fail too.
`Update` is `JobStore.update` with its rule that only a requeue changes a
cancelled job.

**JobDelivery** composes the two with the loop, the exchange (`wire`) and the
users. `Pick` snapshots the row; `Serve` is the worker's handler; the `Receive*`
actions are the exits of `run_once()`: they write the row and end or continue
the round without an await in between, so each is one step. Any request can be
given up (`GiveUp`) before or after `Serve`; with `LateRequests` it can also be
served after that (`ServeLate`, the other case of `Serve`). An error of the database
outside the try of `run_once()`, or in its except branches, ends the task
(`LoopDies`, `loop.at = "dead"`), because `Worker.run` has no try; only a restart brings
it back. `StationRestart` is `recover()`, `MacRestart`
is `recover_interrupted()`, `MacReset` a worker that lost its data. `overtaken` is a
history variable: the jobs that a request served too late has changed at the worker,
until a command of the loop is served for them.

**JobLifecycle** is what the users are promised: a job is pending until it is
completed, failed or cancelled, only a user's cancel or retry (one intent each)
or the processing itself moves it, and a completed job is final. One exception is
named: a pending job that an outdated command has `overtaken` may be cancelled by
it (`CancelledLate`). `JobDelivery`
is shown to implement it by mapping every stage with work left to "pending" and
the generation to the number of intents.

**MacQueue** takes the worker alone, with any number of clients, and splits
`retry_job()` into its check of `active_job` and its update.

**ReviewSync** is the review of one report. A revision is the sequence of requests
that made it (`review_history`), so equality of revisions is equality of
contents. On the worker: the idempotency and conflict checks, the bundle written
before the pointer moves, removal on failure, crash points. On the station: the
handler that posts, archives file by file, and on a 409 fetches the current
report first. On the page: one request ID per set of changes, sent again while
the outcome is uncertain.

**ReviewLog** is what the reviewers are promised, with one log of applied saves and no
network: a save is applied once, on top of the revision its reviewer had seen;
the report that is shown is an earlier state of the log and never goes back;
"saved" is said of a save that is shown, "conflict" of one that came too late.
`ReviewSync` is shown to implement it: `published` is the log, `cache` the report
shown, `Publish` the only step that applies a save; everything else that worker,
network and station do is unseen until the handler answers.

**BrowserCapture** is `BrowserCapture` and `Controller` with the loopback HTTP
between them. Station operations hold one asyncio lock across their awaits and
are split at them (`op`); the reconciler reads a row *without* the lock and then
waits for it (`SweepLooks`, `SweepStops`). The status answer it works through is a
`Report`, the list of records with what was still recording when it was made. Controller methods hold one RLock and
are single steps, except where the disk refuses one of their writes
(`StartNotSaved`, `StopNotSaved`, `WatchFails`, a restart that finalizes only some
records) or the controller dies between the two of `stop()` (`StopHalfDone`).
`stop()` forgets the active capture before it writes anything, so such an error
leaves a record that says "recording" of no capture (`saveLost`). A database error
of the station ends the operation, and the reconciler for good (`StoreFails`,
`ReconcilerDies`), because `run()` catches `StoreError` and `OSError` only. A POST that
its client gave up may still be served (`late`). `begun`, `saveLost` and `outlived`,
whether there has been such a POST, are history variables.

**BoardRecorder** is `Recorder`. `start()`, the watcher and `stop()` share one
asyncio lock and are split at their awaits: the creation of the process, the
cancelled watcher, the end of the process, `finish_recording()` in its thread.
A watcher is cancelled where it waits, be it for the process or for the lock
(`WatcherCancelled`); after it has the lock nobody cancels it, because it has
cleared `active_id`. The process ends by itself at any time, and
`finish_recording()` may raise (`lost`). `JobDelivery` sees of all this the
recording that begins and ends.

**TaskQueue** is the queue with the row updates it rests on. `jobsMutex` makes
the claim, the final writes, the admission, the kill and the beginning of a
deletion one step each; the recovery reads its list and enqueues one job at a
time beside them. The rename of a job is split into its read and its save, which
writes the whole row. The processor of a job with several tracks (`MultiTrack`) writes
"completed" itself, without the lock and whether or not the job was cancelled
(`MergeTracks`), and the queue's own outcome follows (`Finish`). `phase` follows `main()`: the queue goes on while the
quick service is closed (`closing`), then its context is cancelled
(`stopping`). `failed` collects jobs a database error concerned and `renamed`
those whose status a rename overwrote; both start afresh with the process.

**QuickTranscription** extends it: a quick job has a status in memory, a manifest
and, while it is processed, a temporary row among the queue's jobs, where the
recovery, the handlers and renames meet it. `Published` writes the manifest
before the memory; a write that fails may still have replaced the manifest
(`PersistFails`). An identity is used again only when nothing refers to it.

**Broadcaster** is `listen()`, the handlers of the streams and the callers of
`Broadcast()`. A meeting on an unbuffered channel is one step; every `select`
takes any ready case, so a listener that was shut down may still register a
stream or deliver an event first.

**Services** starts the board recorder, the quick transcriptions with their queue,
or the broadcaster (`part`); the other two stay where they begin, since they share
no state with it.

**AddAudio** puts the ways to add audio under one header. *SystemRecorder* and
*MicRecorder* are the two recorders: the prompts of the browser are answered or
refused at any later time, each opening of the dialog is an attempt of its own,
and the screen that is shown decides what can be clicked. *Uploads* is the
provider that outlives them: batches send file after file and share one progress
list. *QuickDialog* is the one-off transcription with its polls, and the YouTube
dialog with its timer. Modal dialogs cover the rest of the page; the bounds
`Unused`, `Apart` and `NoUploads` keep dialogs of two kinds from being used in
one visit of the page unless they meet in the uploads. The page is left at any time,
by a link or the browser's Back (`Navigate`), or with the session (`SessionEnds`), and
its recorders are unmounted whatever they hold (`HeaderUnmounts`).

**Session** has the store, whose `version` counts every change of the token, and
for each request where it stands (`sent`, `waiting` for the shared refresh,
`retried`) with the version it was sent at. The code compares versions after
every await, and so do the actions. The token in its header is any that a page was
rendered with since the tab was loaded (`given`), which may have been replaced: the
wrapper keeps it and notes the version of the moment. `login` and `spent` are history
variables.

**JobList** has the service's jobs (`server`, external) beside the rows shown.
Lists are read and arrive in two steps; an event is heard or lost; a bulk
operation is one step per item and goes by the rows of the click (`shown`). `DialogEffects` are the two effects that run when
a dialog opens or what it is for changes, and are part of every step.
*ConfigDialog* is the form of the parameters with the fields of each model
family, *ProfileChoice* the dialog with saved profiles.

**Settings** shows one tab at a time; leaving a tab unmounts it, and requests it
sent only reach the service (`here`). *SettingsTable* is the table of whichever
tab is open; the others are one module per tab. `TokenRenewed` re-runs what
depends on the token; `AutoLogout` is the timer after a change of password.

**Chat** is panel, list and conversation; *ChatServer* is what `chat_handlers.go`
keeps, with its saves of whole sessions as they were read. A message is its role.
`Following` is the effect on the chosen session and is applied by every step that
changes what it depends on. Questions, titles and edits outlive the component
that sent them.

**WebApp** starts one of these parts (`view`); the others have no state. They
share nothing in the code but the service and the token, whose renewal is an
action of the parts it matters to.

The `*Liveness` modules add one variable `calm`, which marks the time after the
last fault; for the browser recordings it is asked of executions in which no POST
outlives its client. (The usual form "if faults eventually stop" cannot tell a fault that
changes nothing from a fault-free round that changes nothing.)

## 3. Runs

| run | instance | checks |
|---|---|---|
| `job_delivery` | 2 jobs, 1 export, 2 intents per job | `TypeOK`, `GenerationGuardsRow`, `CommandIsLatestIntent`, `CompletedIsArchived`, `CancelSticks`, `StaleAnswerKeepsIntent` |
| `job_delivery_late` | 1 browser recording, 2 exports, 3 intents, late requests | `CancelReachesWorker`, JobLifecycle, `Settles`, `CommandDelivered` (the safety properties of the other run are proved with late requests too, section 4) |
| `mac_queue` | 2 jobs | `OutcomeStands`, `OrphanedByLostWriteOnly`, `QueueDrains` |
| `review_sync` | 3 saves, 2 documents | all of ReviewSync, ReviewLog, `SaveIsAnswered` |
| `browser_capture` | 2 recordings | the safety properties of BrowserCapture, `OnlyBrokenBlocks` |
| `web_app` | one part of the web client at a time: 2 attempts, 2 batches, 2 requests, 2 jobs, 2 keys, 2 sessions of chat | the properties of WebApp, below |
| `services` | one part at a time: 2 recordings with 2 requests to stop; 1 job (of several tracks, processed by track or not) and 1 quick job, 2 workers, 1 place and 1 slot; 2 streams, 2 callers, 2 events | the properties of Services, below |
| `durable_cancellation`, `mac_retry_race`, `review_conflict`, `browser_admission`, `browser_reconciler_blocked` | as above | one documented promise each, found violated (section 5) |

Two properties of `review_sync` and `browser_capture` are conjunctions:

| property | its parts |
|---|---|
| `ReportsAreWhole` | `PointerIsWhole`: what readers see is a complete revision; `CacheIsPublished`: the station shows a revision the worker published; `AcknowledgedIsCached`: a reviewer told "saved" finds the save there |
| `CapturesAreSound` | `ArchivedIsFinished`: no part of a running capture is taken for the whole; `RecordingIsActive`: a record says "recording" of the active capture, and of one whose end the disk refused to write down, alone |

`services` asks:

| property | what it excludes |
|---|---|
| `RecordingsAreSound` (`RecordingIsOwned`, `SourceIsClosed`, `FinishedOnce`) | a row that is recording while nobody will end it; a checksum of a file still written to; a recording finished twice, so that a delivered one is queued again |
| `RecordingsEnd` | `stop()` and the watcher waiting for each other, or a capture that ended by itself and is never archived |
| `JobsHaveOneOwner` (`OneExecution`, `OwnedUnlessPurged`) | a second processor of a job whose killed one is still cleaning up; a row taken from the worker that has it, but by a rename, the purge of a temporary row or the merge of its own tracks |
| `JobsAreKept` (`PendingIsKept`, `ProcessingIsOwned`) | jobs the users see as pending or processing that no worker will take up or has |
| `VerdictsStand` (`KilledNeverCompletes`, `DeletedStays`) | an accepted kill that ends in "completed", but for a job of several tracks whose merge is followed by a crash or a failed write; a deletion undone by the queue |
| `QuickIsSound` (`QuickIsDurable`, `QuickIsBounded`) | a quick result that was shown and is gone after a restart; more work than slots |
| `JobsEnd` | a job that stays pending, or a quick job without an end, once users and faults are silent |
| `StreamsAreSound` (`SubscribersAreOpen`, `EventsAreItsOwn`) | a send to a closed channel or a second close; events of another job, or seen in opposite orders |
| `StreamsEnd` | a handler or a caller that waits for a listener that has ended; a client that left and stays subscribed |

`web_app` asks of the client:

| property | what it excludes |
|---|---|
| `AudioIsSafe` | a recorder that was stopped and not uploaded, or whose upload failed, and has lost its blob, but with the page that was left under it; a track of the screen or microphone that is captured while no recorder shows it, after any order of prompts, closing and reopening; the quick result of one file shown for another |
| `SessionsStayApart` (`NewerLoginSurvives`, `LogoutLasts`, `EndedForGood`, `RotatesOnce`) | a failure of an earlier session ends a newer one, or an answer brings an ended one back, but for requests that carry a token replaced before they were sent; a session that ended is back after a reload; requests of one version of the store begin two refreshes |
| `FormsAreTrue` | parameters that ask for separate tracks and for diarization, or for the tracks of another selection; a draft that is overwritten by a renewal or a late answer; a key that was issued to the open page and cannot be seen |
| `OperationsAreAccounted` | an item of a bulk operation that is neither done nor still selected; an editor closed by the save of another |
| `ChatIsItsOwn` | a conversation that posts to another session than the one chosen; a title marked as being generated for ever |

**Bounds.** `MaxIntents` bounds the cancels and retries of one job (guards of
`UserCancel` and `UserRetry`). Two suffice for each pair the loop can confuse
(an answer to the intent before the last); the run with late requests has three,
so that an answer can be two intents old. One loop and one consumer
handle one job at a time, so two jobs show every interference between jobs; two
exports show a half-archived result. Three saves are needed for a save that is
overtaken by a second while a third is downloaded. Two recordings give one that
blocks another. Symmetry is used only in the run
`job_delivery`, which has no liveness.
In `web_app` two of a kind are enough for an answer to meet the successor of
what it was for, which is what the properties are about: attempts to record,
batches, requests of one token, jobs (one with several tracks), keys, chat
sessions. `MaxBusy`, `MaxChanges`, `MaxReads`, `MaxLoads`, `MaxQuestions`,
`MaxEdits` bound what is under way at one time and `MaxAsked` saturates;
`MaxVisits`, `MaxWork` and `MaxVersion` bound the length of a visit: a tab is
left and entered again, with two changes sent; a token is changed five times.
A search of the run matches every job, so it hides and reloads the list without
narrowing it. Of the model families the run has Whisper.
In the Go service `Capacity` (200 in the code), `Slots` (16) and `Buffer` (16) are
1, so that each is full with the first element and the second meets the limit.
One job and one quick job with its temporary row, and two workers, let a job be
in the channel twice while it runs. `Renamed` names the jobs that are given a
title, `MaxFailed` bounds the database errors of one process (a job of `failed`
is excepted, so one error and one other job show both), `MaxEvents` the events.
One process sees renames or database errors, not both, and neither while a quick
job is held; failed writes of manifests and purges happen at any time.
`Listed` is the length of the controller's list (20 in the code); the runs list
every record, so they say nothing about recordings that fell off the list.

**Fairness.** Weak fairness for tasks the code keeps running: the worker's consumer (`work()`
catches every exception), HTTP handlers, ffmpeg's watcher, and the delivery loop
(`Worker.run`) and the reconciler's two-second round for as long as they live: an
error of the database ends either, in the model as in the code, and `Settles`,
`CommandDelivered` and `OnlyBrokenBlocks` promise nothing after it (`LoopAlive`,
`sweep.alive`). Strong fairness
only where a lock or an order guarantees a turn: `Pick(j)` because rows are
ordered by `available_at`, which every attempt moves back, and `StartReview` and
`SweepStops`, `StopLocks` and `WatcherLocks`, because `asyncio.Lock` is first come
first served. Queue workers and the quick service's goroutine run on, and a
processor ends by its timeout (four hours and 30 minutes) if not before; the
goroutines of streams and `listen()` run on. No fairness is assumed of users, of faults, or of `NextStage`: inference ends because every
model call has a timeout. The web client has none: a request may stay
unanswered, and its properties are about what was answered.

`CHECK_DEADLOCK FALSE` is set where the system may come to rest: after the last
fault, with every job or save settled.

## 4. Proofs

Every safety property that a passing run checks, invariant or action property,
is also proved by TLAPS for all values of the constants. The
only assumptions are the named ones of the modules (a "nobody" value outside its
set, bounds that are natural numbers, channels of at least one place, finitely
many saves and batches of files, at least one id for a chat, quick jobs without
several tracks). Late requests are not excluded. TLC evaluates
the assumptions on each run and has checked the inductive invariants below
on the instances of section 3.

| module | theorem | states |
|---|---|---|
| `JobDeliveryProofs` | `TypeCorrect`, `GenerationIsSound`, `CommandsFollowIntent`, `CompletionIsArchived` | `TypeOK`, `GenerationGuardsRow`, `CommandIsLatestIntent`, `CompletedIsArchived` |
| | `CancellationSticks`, `StaleAnswersAreHarmless` | the action properties `CancelSticks`, `StaleAnswerKeepsIntent` |
| | `Agreement`, `CancellationReachesWorker`, `ImplementsJobLifecycle` | the invariant that relates station and worker, `CancelReachesWorker`, the refinement of `JobLifecycle` |
| `MacQueueProofs` | `TypeCorrect`, `OutcomesStand`, `OrphansNeedALostWrite` | `TypeOK`, `OutcomeStands`, `OrphanedByLostWriteOnly` |
| `ReviewSyncProofs` | `TypeCorrect`, `RevisionsAreOnTopOfSeen`, `PublishedReportsAreWhole`, `ShelvedDocumentsMatch` | `TypeOK`, `OnTopOfSeen`, `ReportsAreWhole`, `DocumentsMatchReport` |
| | `ImplementsLog` | the refinement of `ReviewLog` |
| `BrowserCaptureProofs` | `TypeCorrect`, `CapturesStaySound`, `FailedJoinsAreSilent`, `ImportsAreMadeOnce` | `TypeOK`, `CapturesAreSound`, `FailedJoinIsSilent`, `ImportedOnce` |
| `ServicesProofs` | `TypeCorrect`, `OneOwner`, `NoJobIsForgotten`, `QuickStaysSound`, `VerdictsAreFinal`, `RecordingsStaySound`, `StreamsStaySound` | `ServicesType`, `JobsHaveOneOwner`, `JobsAreKept`, `QuickIsSound`, `VerdictsStand`, `RecordingsAreSound`, `StreamsAreSound` |
| `WebAppProofs` | `TypeCorrect`, `SessionsStaySound`, `AudioStaysSafe`, `FormsStayTrue`, `OperationsStayAccounted`, `ChatStaysItsOwn` | `WebType`, `SessionsStayApart`, `AudioIsSafe`, `FormsAreTrue`, `OperationsAreAccounted`, `ChatIsItsOwn` |

All proofs have one form: an inductive invariant, a lemma that the initial states
have it, lemmas that each action keeps it, and the property from it. None of the
properties is inductive by itself. What had to be added says why the code works:

**Delivery** (`IInv`). `CompletedIsArchived` needs that a finished archiving round has
the files on disk (what the loop has in `done` is in `files`), and that the row it
completes is the row it picked, which is `GenerationGuardsRow`. That in turn needs
that generations never decrease, so a snapshot's generation is at most the
row's, and that a picked row had work due.

**Station and worker** (`CInv`, theorem `Agreement`). Whether a cancel command may be
dropped depends on what the worker did while the user went on. The invariant says
that a job cancelled at the worker is known to be there and either still
cancelled or with a retry on its way; and for every request and answer what it
still says about row and worker: a terminal answer means the job is not live,
a 409 answers a retry, the request is the one the row asks for while the generation
is unchanged. A request that is served after its client gave up breaks these for its
job (a late cancel takes a job that its user has retried since; a late upload brings a
cancelled job back to a worker that was reset), and nothing in the code fences it off.
The invariant therefore speaks of the jobs outside `overtaken`, which such a job enters
with the late request and leaves when the next cancel or retry of the loop has been
served: from there on worker and row agree again. `CancelReachesWorker` and the
lifecycle carry the same exception and no other. The refinement follows from both
invariants: answers move the user's view of a job only while it is pending.

**Worker queue**. A run that has written its outcome leaves a job that is not running,
even if a retry has queued it again (`LeftIsEnded`): that is the place in the code,
between the outcome and the release of `active_job`, where a crash or an error
could otherwise undo an outcome or leave an orphan.

**Review**. What readers see is right only because of where each request, answer and
download stands. The worker's lock keeps the pointer still under a save
(`SavingFollowsPointer`), the station's keeps a single answer awaited
(`OneAwaited`), so the answer it gets is to its request (`ReportsFollowPointer`), and
every report on its way is a prefix of the published one. `Saves` is finite
(`SavesAssumption`), since a revision contains each save once. The refinement needs
two facts about time on top (`AnswersFollowLog`): nobody expects a revision that is
yet to come, and a save that was refused, or whose handler knows of a 409, expects
one that is past, so no save is both refused and applied later. A 409 of a download
is such a case too: the handler has its own save in the result it downloads, and
whatever it says, the log has moved on.

**Browser capture**. What the holder of the lock was told stays true although the
controller goes on by itself, because a finished recording is final
(`OpFollowsRow`, `Finished`); no record of `saveLost` is the active capture's, since a
recording that was begun is never begun again; an archived row is past the stages in which `recover()`
or a failing `stop()` would write it (`ArchivedRows`). `ImportedOnce` is that.

**Queue and quick transcriptions** (`QIInv`). A running worker owns its job and every
owned job is run (`WorkersOwn`); an owned job changes its status by the merge of its own
tracks or as its worker lets it go (`OwnersLeave`, `KillFact`); where a quick job stands decides whether its
temporary row is there and whose it is (`QuickRows`, `QuickState`); every slot in use
has one holder (`SlotsCounted`), which is what bounds the work and is an argument
about cardinalities.

**Recorder** (`RIInv`). One holder of the lock, nobody active while it is held
(`LockExclusive`), every holder works on a row that still records
(`HoldersRecord`), and a process that ended does not run again (`ProcessFollows`).

**Streams** (`SIInv`). What a stream has received and has in its channel are one
sequence (`Sent`); two streams never have two events in opposite orders
(`OrdersAgree`), because an event that is about to be delivered is new to all of
them (`CallsAreNew`).

**Session** (`SessIInv`). A request belongs to the session whose version it carries as long as
that is the current one; the tokens in use are those the store has had, each with the
login it came from (`KnownToken`), so a request is of its own login or its token was
replaced before it was sent (`OwnOrOutdated`). A version whose refresh was begun is past, or its
refresh is under way and someone waits for it.

**Adding audio** (`AddIInv`). The audio of the system recorder is in one place:
recorder, stop event or blob (`OnePlace`), or gone with the page (`lost`); a prompt of this opening finds nothing
recorded (`CallsAreCurrent`); nothing is left of a closed dialog
(`NothingBehind`). The microphone dialog has these facts as long as no destroyed
plugin captures (`~astray`), the quick dialog as long as no submission was left
unanswered (`~crossed`); the property speaks of those states only, because the code
does not do better (section 5).

**Lists and forms** (`ListIInv`, `SettingsIInv`). Each item of a bulk operation is still
to do, failed or done, and those not done are selected; the parameters of the open
form are those of the selection. Rows, shown or on their way, are of the tab that is
open; a save under way is the editor's own and of its draft; a key that is being
created has its form open and locked, or the session has ended.

**Chat** (`ChatIInv`). The conversation follows the chosen session or none; a title is marked
only while it is asked for, and nothing is marked in a closed list.

**Shape of the client's state** (`WebType`). It says more than its name: it bounds
what is under way, and the bounds are not those of the guards. Each part has an invariant
of its own on top of the ones above. A batch that ends leaves a timer that hides the
progress, so batches and timers together are at most `Batches`, and a batch counts no
more successes than files it has sent (`UpIInv`). A table may ask for its rows while fewer than `MaxReads` requests
are under way; a request stays one of them, whether the service has read its store or
not, until its answer has arrived (`LoadsBounded`, `LoadsStayBounded`). A profile or
template that is stored came from a form or an editor that held one
(`ProfilesIInv`, `TemplatesIInv`). Every chat that is shown, listed, asked or being
given a title is one that the service has made (`made` in `ServerIInv`, `SidebarIInv`,
`ConversationIInv`, `RequestsIInv`), and a conversation is busy only while a
question of the panel is under way.

Not proved, and checked by TLC alone:

* liveness (`Settles`, `CommandDelivered`, `QueueDrains`, `SaveIsAnswered`,
  `OnlyBrokenBlocks`, `RecordingsEnd`, `JobsEnd`, `StreamsEnd`): the
  prover does not reason about fairness or `ENABLED`;
* the five violations, which are counterexamples.

## 5. Where code and documents disagree

* `durable_cancellation`: a cancel that overtakes an upload relies on the upload's
  acknowledgement to be sent to the worker. If that is lost the row is
  terminal without a command and the worker processes the meeting to the end.
* `mac_retry_race`: the retry handler's check of `active_job` and its update are not
  one step; a claim and a cancel in between let it queue a job whose cancelled
  inference is still running.
* `review_conflict`: a 409 of an export download, after the save was applied and
  another one followed, is answered as a conflict of the save.
* `browser_admission`: `watch()` does not look at the admission, so a capture that
  ends by itself in the waiting room becomes a normal report.
* `browser_reconciler_blocked`: an error for one recording ends the reconciler's
  round, and the latest recording comes first.

Others were met while modelling; the properties state them as exceptions, or no
property excludes them, and the models have the behaviour. On the station and its
worker:

* An error of the database (a full disk) in `store.work()` (`worker.py:118`), or in the
  except branches of `run_once()` (`:155`-`:161`), ends the delivery task, and nothing
  restarts it (`LoopDies`). The reconciler's `run()` catches `StoreError` and `OSError`
  only, so such an error ends it too (`ReconcilerDies`).
* `Controller.stop()` clears `active` (`controller.py:436`) before `finalize()` and its
  second `save()`; an `OSError` there leaves a record "recording" without a capture, which
  the reconciler skips (`browser.py:171`) until the controller is restarted, or a
  waiting room's recording as a clean one (`StopNotSaved`).
* A request that is served after the station gave up can cancel a job that its user
  has retried since (`ServeLate`, `overtaken`).

Two more: a row that waits for a
browser import which never existed (`browser.py:160`, when the confirming status
is lost too), and, when a join request is served after the station gave up and
the status said nothing was active, a capture that belongs to a failed row.

In the Go service, likewise: `UpdateTranscriptionTitle` saves the whole row it read
(`handlers.go:1251`); when a deletion was completed in between, `Save` inserts the
row again over the tombstone that `lifecycle.go:80` "preserves ... for clients' delta
sync", and it can overwrite a newer status, which leaves a job running under a
row that says otherwise, or pending without a place in the channel (the
properties except such jobs, `renamed`). A quick job that fails leaves its
temporary row `processing` until it expires or the service restarts
(`quick_transcription.go:245`). A claim that fails with a database error drops the entry of the
channel, and the row stays pending until a restart (`queue.go:232`); the expiry of
a quick job purges its temporary row also while a queue worker, which a restart
or a user set on it, executes it (`quick_transcription.go:409`). The processor of several
tracks writes "completed" without the lock and without looking at the context
(`multitrack_transcriber.go:212`-`218`): a job whose kill was accepted shows "completed"
until the queue writes its outcome, and keeps it if the process dies or that write
fails (`MergeTracks`, excepted from `KilledNeverCompletes` and `OwnedUnlessPurged`).

The same goes for the web client. Its modules have the following behaviour,
translated from the code; the properties except it or do not exclude it:

* Leaving the page, or the end of the session (`App.tsx:25`, `ProtectedRoute.tsx:31`,
  `authHelpers.ts:43`), under an open recorder drops its audio without the
  confirmation that R006 asks for (`SystemAudioRecorder.tsx:258`,
  `AudioRecorder.tsx:136`).
* `authInterceptor.ts:22`, `:28`: a request keeps the token of the render it came from
  and is noted with the version of the store. A bulk operation begun with an expired
  token (`AudioFilesTable.tsx:495`) refreshes once for each item, although
  "Concurrent 401s rotate once"; the refusal of a token that is past can end a newer
  login (R035 says it cannot), and a loop that outlived the logout can bring a
  session back.
* `SystemAudioRecorder`, `AudioRecorder`: the plugin of an earlier opening of the
  microphone recorder can deliver into a later one (`astray`), and an `init()` that
  waits for the permission goes on after the close (`AudioRecorder.tsx:65`-`131`) and
  makes a plugin that nobody destroys; a stop event that
  is queued precedes later clicks.
* `GlobalUploadContext`: overlapping batches write into one progress list, and the
  timer of the first clears it (`:85`, `:150`, `:166`). A dropped multi-track
  project opens the dialog without its files (the preview is reset when it opens).
* `APIKeyCreateDialog.tsx:156`: the second of its two buttons labelled "Cancel" is of type
  submit and creates the key (`SubmitKey` stands for it too).
* `YouTubeDownloadDialog.tsx:54`: the timer closes whatever dialog is open by then.
* `AudioFilesTable`: a row's own Transcribe acts on the selection when there is one
  (`:536`); a selection survives a search that hides it (`:489`); the end of a bulk
  operation replaces a selection made meanwhile (`:504`); late answers close a
  newer dialog (`:347`, `:437`). An old list answer overwrites a newer event, and
  a stream that ended is not opened again (`useTranscriptionEvents.ts:55`).
* `TranscribeDDialog.tsx:79`: the load of an earlier opening replaces a choice;
  `TranscriptionConfigDialog.tsx:276`: the verdict on an earlier key stays.
* `LLMSettings.tsx:57`, `:88`: renewals and answers overwrite what is being typed;
  `AccountSettings.tsx:123`: the timer signs out whoever is signed in by then.
* `ChatInterface.tsx:225`: a chosen session that is not in the list is loaded, with
  the list, without end; a history that arrives late replaces the question that
  was just shown; `:435` takes away the last message, whichever it is.
  `ChatSessionsSidebar.tsx:142` and `:126`: a deletion brings back the list it
  was begun with, a late rename closes another row's field, and a late creation
  (`:110`) changes the session under the user.
* `chat_handlers.go:613`, `:837`: an answer undoes a rename, and a generated title
  overwrites one or brings a deleted session back.

## 6. Left out

Inference, document rendering, authentication of the station, upload parsing
and deployment have no protocol of their own beyond what the modelled parts see
of them (an outcome, an error, a delay). Disk-full and fsync behaviour is
modelled as the error or the crash it leads to; SQLite transactions and
`os.replace` are taken as atomic.

Of the web client: text (messages and their streamed pieces, parameters nothing
depends on, formatting), error screens, the probing of microphones, the drag
overlay, further pages of the list, track progress and queue positions, leaving
the settings or the list by the browser's Back under an open dialog, and
`CLIAuthConfirmation`. The server's effect and its answer are one step in the
settings; the answer may be lost after the effect. The page of a recording
(player, transcript, notes, speakers, summary) and the meeting station page are
views over single requests and are not modelled, except for the chat and the
review. `MergeStatusBadge` is used nowhere, and the project site is static.

Of the Go service: the scaling of workers, which `main()` never switches on because
it makes minimum and maximum equal; the process tree a kill ends; the cleanup of
quick files from releases without a manifest; keep-alives of the event streams;
uploads, downloads and exports. The server does not start the dropzone: only its
package and tests use it. Of multi-track processing only the write of the status is
modelled: the temporary rows of its tracks, created as processing and deleted when
their track is done (`multitrack_transcriber.go:297`-`305`), and the merging of the audio
are not. The rest of it, the adapters with the unified service, webhooks and the clients of language
models call external programs and services and keep no state between calls; for
templates, keys, model, profiles and chat the service is modelled as the client
sees it. The macOS client and the earlier Python hub and engine, which the
installation no longer deploys, have no module either.

## 7. Plan

1. The refinement of a per-job life by `TaskQueue`, like `JobLifecycle` for the station
   and `ReviewLog` for the review.
2. The temporary rows of the tracks of a multi-track job, beside the reset of
   zombies, which reads every row that says "processing" (`queue.go:452`).
3. A bulk operation and the session in one module: which of its items are refused
   when its token is past.
