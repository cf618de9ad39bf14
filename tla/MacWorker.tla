----------------------------- MODULE MacWorker -----------------------------
(***************************************************************************)
(* The Mac worker (mac-worker/src/meeting_worker): its durable job table   *)
(* (store.py), the HTTP handlers that change it (main.py) and the single   *)
(* queue consumer that runs the pipeline (main.py work(), pipeline.py).    *)
(* Handlers run in threads beside the consumer, so a cancel or a retry may *)
(* fall between any two of the consumer's steps.                           *)
(***************************************************************************)
EXTENDS Integers

CONSTANTS Jobs,    \* job identifiers (UUIDs)
          NoJob    \* the consumer's job while it waits

ASSUME NoJobAssumption == NoJob \notin Jobs

VARIABLES mac,       \* stage of each job in worker.sqlite3, "absent" without a row
          consumer   \* where work() stands, and with which job

macVars == <<mac, consumer>>

Ended     == {"completed", "failed", "cancelled"}
Live      == {"queued", "running"}      \* "running": preprocessing .. exporting
MacStages == Ended \cup Live \cup {"absent"}

\* "claimed" : claim() returned, pipeline.run() has not set active_job yet
\* "running" : active_job is set, _run_locked() is at work
\* "leaving" : the last stage is written, active_job is still set
\* "erring"  : pipeline.run() raised and active_job is cleared again, the
\*             consumer's own except branch has not written yet
Places == {"idle", "claimed", "running", "leaving", "erring"}
Idle   == [at |-> "idle", job |-> NoJob]

MacTypeOK ==
  /\ mac \in [Jobs -> MacStages]
  /\ consumer \in [at : Places, job : Jobs \cup {NoJob}]
  /\ consumer.job = NoJob <=> consumer.at = "idle"

MacInit ==
  /\ mac = [j \in Jobs |-> "absent"]
  /\ consumer = Idle

-----------------------------------------------------------------------------
\* Mutant: a late stage update overwrites a cancellation.
UpdatedOverCancel(stage, to, allowed) == IF stage \in allowed THEN to ELSE stage

\* JobStore.update(): nothing but a requeue changes a cancelled job.
Updated(stage, to, allowed) ==
  IF stage \in allowed /\ (stage = "cancelled" => to = "queued") THEN to ELSE stage

Update(j, to, allowed) == mac' = [mac EXCEPT ![j] = Updated(@, to, allowed)]

\* The table calls a job running that no consumer works on (ConsumerErrorLost).
Orphaned(j) == mac[j] = "running" /\ consumer.job # j

ActiveJob(j) == consumer.job = j /\ consumer.at \in {"running", "leaving"}

\* POST /v1/jobs: the same key with the same content returns the job it made.
CreateJob(j) ==
  /\ mac' = [mac EXCEPT ![j] = IF @ = "absent" THEN "queued" ELSE @]
  /\ UNCHANGED consumer

\* POST /v1/jobs/{id}/cancel of a known job; an ended job is returned as it is.
CancelJob(j) ==
  /\ mac[j] # "absent"
  /\ Update(j, "cancelled", Live)
  /\ UNCHANGED consumer

\* POST /v1/jobs/{id}/retry answers 409 while the old inference holds
\* active_job, and for a job that has neither failed nor been cancelled.
RetryAccepted(j) == ~ActiveJob(j) /\ mac[j] \in {"failed", "cancelled"}

RetryJob(j) ==
  /\ RetryAccepted(j)
  /\ Update(j, "queued", {"failed", "cancelled"})
  /\ UNCHANGED consumer

-----------------------------------------------------------------------------
\* work(): claim a queued job, oldest first (creation order is abstracted).
Claim(j) ==
  /\ consumer.at = "idle"
  /\ mac[j] = "queued"
  /\ Update(j, "running", {"queued"})
  /\ consumer' = [at |-> "claimed", job |-> j]

\* run() sets active_job; _run_locked() returns at once for a cancelled job.
BeginRun(j) ==
  /\ consumer = [at |-> "claimed", job |-> j]
  /\ consumer' = [consumer EXCEPT !.at = IF mac[j] = "cancelled" THEN "leaving" ELSE "running"]
  /\ UNCHANGED mac

\* update(stage) at the start of a stage.  A text job writes its first stage
\* only when extraction starts.
NextStage(j) ==
  /\ consumer = [at |-> "running", job |-> j]
  /\ Update(j, "running", MacStages)
  /\ UNCHANGED consumer

\* Completion is published after the result and its exports are on disk.
Publish(j) ==
  /\ consumer = [at |-> "running", job |-> j]
  /\ Update(j, "completed", MacStages)
  /\ consumer' = [consumer EXCEPT !.at = "leaving"]

\* Any exception of the run, the ProcessingCancelled of check_cancelled()
\* included: the job fails unless it is cancelled.
FailRun(j) ==
  /\ consumer = [at |-> "running", job |-> j]
  /\ Update(j, "failed", MacStages)
  /\ consumer' = [consumer EXCEPT !.at = "leaving"]

\* run() clears active_job and the consumer waits for the next job.
EndRun(j) ==
  /\ consumer = [at |-> "leaving", job |-> j]
  /\ consumer' = Idle
  /\ UNCHANGED mac

\* The except branch of the run raises itself (a failing database or disk).
RunRaises(j) ==
  /\ consumer = [at |-> "running", job |-> j]
  /\ consumer' = [consumer EXCEPT !.at = "erring"]
  /\ UNCHANGED mac

\* Mutant: the exception ends the consumer task after the write.
ConsumerErrorIsFatal(j) ==
  /\ consumer = [at |-> "erring", job |-> j]
  /\ Update(j, "failed", MacStages)
  /\ UNCHANGED consumer

\* work()'s own except branch writes FAILED over whatever it finds.
ConsumerError(j) ==
  /\ consumer = [at |-> "erring", job |-> j]
  /\ Update(j, "failed", MacStages)
  /\ consumer' = Idle

\* That write fails too and is suppressed: the stage stays what it was.
ConsumerErrorLost(j) ==
  /\ consumer = [at |-> "erring", job |-> j]
  /\ consumer' = Idle
  /\ UNCHANGED mac

-----------------------------------------------------------------------------
\* Mutant: a restart does not look at interrupted jobs.
MacRestartKeepsRunning == consumer' = Idle /\ UNCHANGED mac

\* The process stops or dies at any point and starts again: pipeline.stop()
\* or recover_interrupted() fails the interrupted jobs, queued ones are kept.
MacRestart ==
  /\ mac' = [j \in Jobs |-> IF mac[j] = "running" THEN "failed" ELSE mac[j]]
  /\ consumer' = Idle

\* The Mac is reset and its data directory is gone.
MacReset ==
  /\ \E j \in Jobs : mac[j] # "absent"
  /\ mac' = [j \in Jobs |-> "absent"]
  /\ consumer' = Idle

Consume(j) ==
  \/ Claim(j) \/ BeginRun(j) \/ NextStage(j) \/ Publish(j)
  \/ FailRun(j) \/ EndRun(j) \/ RunRaises(j) \/ ConsumerError(j)

HandlerStep(j) == CreateJob(j) \/ CancelJob(j) \/ RetryJob(j)
=============================================================================
