----------------------------- MODULE TaskQueue -----------------------------
(***************************************************************************)
(* The task queue of the retained service (internal/queue/queue.go) with   *)
(* the row updates it rests on (internal/repository/lifecycle.go) and the  *)
(* handlers that start, kill, delete and rename a job.  jobsMutex covers   *)
(* the claim, the final writes, the admission, the kill and the beginning  *)
(* of a deletion, so each of them is one step; between them anything may   *)
(* happen.  EnqueuePreparedJob commits "pending" and sends in one step: a  *)
(* crash in between leaves what a crash after it leaves, since the channel *)
(* dies with the process.  The number of workers never changes: main.go    *)
(* and QUEUE_WORKERS both make minimum and maximum equal.                  *)
(***************************************************************************)
EXTENDS Naturals, Sequences, FiniteSets

CONSTANTS Jobs, Workers,
          Capacity,        \* of jobChannel, 200 in the code
          MultiTrack,      \* jobs of several tracks
          Renamed,         \* bound: jobs that are given a title
          MaxFailed,       \* bound: database errors of one process
          NoJob

ASSUME QueueAssumption == NoJob \notin Jobs /\ Capacity \in Nat \ {0}
                          /\ Renamed \subseteq Jobs /\ MultiTrack \subseteq Jobs
                          /\ MaxFailed \in Nat

VARIABLES
  row,        \* TranscriptionJob.Status
  channel,    \* jobChannel
  worker,     \* the worker goroutines
  owned,      \* runningJobs
  cancelled,  \* jobs of runningJobs whose context is cancelled
  recovery,   \* recoverPendingJobs(): whether it has read its list, and the rest of it
  phase,      \* the process
  rename,     \* UpdateTranscriptionTitle between its read and its write
  failed,     \* history: jobs a database error concerned since the start
  renamed,    \* history: jobs whose status a rename has overwritten
  calm        \* no fault happens and no user asks any more

queue == <<channel, worker, owned, cancelled, recovery>>
queueVars == <<row, queue, phase, rename, failed, renamed, calm>>

Statuses == {"absent", "uploaded", "pending", "processing", "completed",
             "failed", "deleting", "deleted"}
Idle == [at |-> "idle", job |-> NoJob]
NoRename == [job |-> NoJob, status |-> "absent"]
NotRead == [read |-> FALSE, jobs |-> {}]
Serving == phase \in {"up", "closing"}
Alive == phase # "down"

QueueType ==
  /\ row \in [Jobs -> Statuses]
  /\ channel \in Seq(Jobs) /\ Len(channel) <= Capacity
  /\ worker \in [Workers -> [at : {"idle", "taken", "running", "merged"},
                          job : Jobs \cup {NoJob}]]
  /\ owned \subseteq Jobs /\ cancelled \subseteq Jobs
  /\ recovery \in [read : BOOLEAN, jobs : SUBSET Jobs]
  /\ phase \in {"up", "closing", "stopping", "down"}
  /\ rename \in [job : Jobs \cup {NoJob}, status : Statuses]
  /\ failed \subseteq Jobs /\ renamed \subseteq Jobs /\ calm \in BOOLEAN

QueueInit ==
  /\ row = [j \in Jobs |-> "absent"]
  /\ channel = <<>> /\ worker = [w \in Workers |-> Idle]
  /\ owned = {} /\ cancelled = {} /\ recovery = NotRead
  /\ phase = "down" /\ rename = NoRename
  /\ failed = {} /\ renamed = {} /\ calm = FALSE

\* UpdateStatus(): no row, or a tombstone, is no error and changes nothing.
SetStatus(j, status) ==
  IF row[j] \in {"absent", "deleted"} THEN row ELSE [row EXCEPT ![j] = status]

\* Schedule(), Claim() and BeginDeletion(): the rows their WHERE clauses match.
CanSchedule(j) == row[j] \in {"uploaded", "completed", "failed"}
CanClaim(j) == row[j] = "pending"
CanDelete(j) == row[j] \notin {"absent", "deleted", "processing"}

-----------------------------------------------------------------------------
\* The handlers.  An upload, a download or the dropzone creates a row.
Upload(j) ==
  /\ Alive /\ row[j] = "absent"
  /\ row' = [row EXCEPT ![j] = "uploaded"]
  /\ UNCHANGED <<queue, phase, rename, failed, renamed, calm>>

\* EnqueuePreparedJob() up to its call of prepare.
Admitted(j) == Serving /\ Len(channel) < Capacity /\ j \notin owned

Enqueue(j) ==
  /\ Admitted(j) /\ CanSchedule(j)
  /\ row' = [row EXCEPT ![j] = "pending"]
  /\ channel' = Append(channel, j)
  /\ UNCHANGED <<worker, owned, cancelled, recovery, phase, rename, failed, renamed, calm>>

KillJob(j) ==
  /\ Alive /\ j \in owned
  /\ cancelled' = cancelled \cup {j}
  /\ UNCHANGED <<row, channel, worker, owned, recovery, phase, rename, failed, renamed, calm>>

\* Mutant: the deletion of a job does not ask who owns it.
DeleteRunning(j) ==
  /\ Alive /\ row[j] \notin {"absent", "deleted"}
  /\ row' = [row EXCEPT ![j] = "deleting"]
  /\ UNCHANGED <<queue, phase, rename, failed, renamed, calm>>

\* DELETE: the intent, and after the files are gone the tombstone.  Whatever
\* fails in between is resumed by another DELETE.
BeginDeletion(j) ==
  /\ Alive /\ j \notin owned /\ CanDelete(j)
  /\ row' = [row EXCEPT ![j] = "deleting"]
  /\ UNCHANGED <<queue, phase, rename, failed, renamed, calm>>

CompleteDeletion(j) ==
  /\ Alive /\ row[j] = "deleting"
  /\ row' = [row EXCEPT ![j] = "deleted"]
  /\ UNCHANGED <<queue, phase, rename, failed, renamed, calm>>

\* UpdateTranscriptionTitle(): the row is read, and saved whole.  gorm's Save
\* inserts the row again when there is none or only a tombstone to update.
\* Bound: one process sees renames or database errors, not both.
RenameReads(j) ==
  /\ Alive /\ j \in Renamed /\ rename = NoRename /\ row[j] \notin {"absent", "deleted"}
  /\ failed = {}
  /\ rename' = [job |-> j, status |-> row[j]]
  /\ UNCHANGED <<row, queue, phase, failed, renamed, calm>>

RenameSaves ==
  /\ Alive /\ rename # NoRename
  /\ row' = [row EXCEPT ![rename.job] = rename.status]
  /\ renamed' = renamed \cup {j \in {rename.job} : row[j] # rename.status}
  /\ rename' = NoRename
  /\ UNCHANGED <<queue, phase, failed, calm>>

-----------------------------------------------------------------------------
\* A worker.  After Stop() the select may still prefer the channel; the claim
\* then fails, because its context is cancelled.
Receive(w) ==
  /\ Alive /\ worker[w] = Idle /\ channel # <<>>
  /\ worker' = [worker EXCEPT ![w] = [at |-> "taken", job |-> Head(channel)]]
  /\ channel' = Tail(channel)
  /\ UNCHANGED <<row, owned, cancelled, recovery, phase, rename, failed, renamed, calm>>

Claim(w) ==
  LET j == worker[w].job IN
  /\ worker[w].at = "taken" /\ Serving /\ j \notin owned /\ CanClaim(j)
  /\ row' = [row EXCEPT ![j] = "processing"]
  /\ owned' = owned \cup {j}
  /\ worker' = [worker EXCEPT ![w].at = "running"]
  /\ UNCHANGED <<channel, cancelled, recovery, phase, rename, failed, renamed, calm>>

Skip(w) ==
  LET j == worker[w].job IN
  /\ worker[w].at = "taken" /\ (~Serving \/ j \in owned \/ ~CanClaim(j))
  /\ worker' = [worker EXCEPT ![w] = Idle]
  /\ UNCHANGED <<row, channel, owned, cancelled, recovery, phase, rename, failed, renamed, calm>>

\* The database cannot be asked: the worker goes on with the next entry.
ClaimFails(w) ==
  /\ worker[w].at = "taken" /\ worker[w].job \notin owned
  /\ worker' = [worker EXCEPT ![w] = Idle]
  /\ failed' = failed \cup {worker[w].job}
  /\ UNCHANGED <<row, channel, owned, cancelled, recovery, phase, rename, renamed, calm>>

\* Mutant: a processor that returns without an error has completed its job.
OutcomeOfProcessor(j, ok) == IF ok THEN "completed" ELSE "failed"

\* The processor's answer, overruled by a cancelled context.
Outcome(j, ok) ==
  IF ok /\ j \notin cancelled /\ Serving THEN "completed" ELSE "failed"

\* The processor of several tracks writes "completed" itself, with the merged
\* transcript, without the lock and whether or not the job is cancelled.  What
\* follows that write in it does not fail.
MergeTracks(w) ==
  /\ worker[w].at = "running" /\ worker[w].job \in MultiTrack
  /\ row' = SetStatus(worker[w].job, "completed")
  /\ worker' = [worker EXCEPT ![w].at = "merged"]
  /\ UNCHANGED <<channel, owned, cancelled, recovery, phase, rename, failed, renamed, calm>>

Processing(w) == worker[w].at \in {"running", "merged"}

Finish(w, written) ==
  LET j == worker[w].job IN
  /\ Processing(w)
  /\ \E ok \in BOOLEAN :
       /\ worker[w].at = "merged" => ok
       /\ row' = IF written THEN SetStatus(j, Outcome(j, ok)) ELSE row
  /\ failed' = IF written THEN failed ELSE failed \cup {j}
  /\ owned' = owned \ {j} /\ cancelled' = cancelled \ {j}
  /\ worker' = [worker EXCEPT ![w] = Idle]
  /\ UNCHANGED <<channel, recovery, phase, rename, renamed, calm>>

\* recoverPendingJobs(), beside workers and handlers.
ReadBacklog ==
  /\ Alive /\ ~recovery.read
  /\ recovery' = [read |-> TRUE, jobs |-> {j \in Jobs : row[j] = "pending"}]
  /\ UNCHANGED <<row, channel, worker, owned, cancelled, phase, rename, failed, renamed, calm>>

ReadBacklogFails ==
  /\ Alive /\ ~recovery.read
  /\ recovery' = [read |-> TRUE, jobs |-> {}]
  /\ failed' = failed \cup {j \in Jobs : row[j] = "pending"}
  /\ UNCHANGED <<row, channel, worker, owned, cancelled, phase, rename, renamed, calm>>

\* Mutant: a job that finds the channel full is given up.
RecoverOnce(j) ==
  /\ j \in recovery.jobs
  /\ recovery' = [recovery EXCEPT !.jobs = @ \ {j}]
  /\ channel' = IF Admitted(j) THEN Append(channel, j) ELSE channel
  /\ UNCHANGED <<row, worker, owned, cancelled, phase, rename, failed, renamed, calm>>

\* A full channel is tried again; the end of the service ends the recovery.
Recover(j) ==
  /\ j \in recovery.jobs
  /\ recovery' = [recovery EXCEPT !.jobs = @ \ {j}]
  /\ \/ Admitted(j) /\ channel' = Append(channel, j)
     \/ (j \in owned \/ ~Serving) /\ UNCHANGED channel
  /\ UNCHANGED <<row, worker, owned, cancelled, phase, rename, failed, renamed, calm>>

-----------------------------------------------------------------------------
\* Mutant: what an earlier process left unfinished is not looked for.
StartKeepsZombies == row' = row /\ failed' = {}

\* ResetZombieJobs(), whose single updates may fail.
ResetZombies ==
  \E kept \in SUBSET {j \in Jobs : row[j] = "processing"} :
    /\ Cardinality(kept) <= IF calm THEN 0 ELSE MaxFailed
    /\ row' = [j \in Jobs |->
                 IF row[j] = "processing" /\ j \notin kept THEN "failed" ELSE row[j]]
    /\ failed' = kept

StartQueue ==
  /\ phase = "down" /\ phase' = "up"
  /\ ResetZombies
  /\ UNCHANGED <<queue, rename, renamed, calm>>

\* main(): the quick service is closed before the queue is stopped.
Close == phase = "up" /\ phase' = "closing"
Stop == phase = "closing" /\ phase' = "stopping"

\* Stop() waits for the workers and for the recovery.
Stopped ==
  /\ phase = "stopping"
  /\ \A w \in Workers : worker[w] = Idle
  /\ recovery.read /\ recovery.jobs = {}

EndProcess ==
  /\ phase' = "down"
  /\ channel' = <<>> /\ worker' = [w \in Workers |-> Idle]
  /\ owned' = {} /\ cancelled' = {} /\ recovery' = NotRead
  /\ rename' = NoRename /\ failed' = {} /\ renamed' = {}
  /\ UNCHANGED <<row, calm>>

User(j) ==
  /\ ~calm
  /\ \/ Upload(j) \/ Enqueue(j) \/ KillJob(j)
     \/ BeginDeletion(j) \/ CompleteDeletion(j) \/ RenameReads(j)

Work(w) == Receive(w) \/ Claim(w) \/ Skip(w) \/ MergeTracks(w) \/ Finish(w, TRUE)

QueueFault ==
  /\ ~calm /\ Cardinality(failed) < MaxFailed /\ rename = NoRename /\ renamed = {}
  /\ \/ \E w \in Workers : ClaimFails(w) \/ Finish(w, FALSE)
     \/ ReadBacklogFails

Shutdown == (Close \/ Stop) /\ ~calm /\ UNCHANGED <<row, queue, rename, failed, renamed, calm>>
Death == EndProcess /\ (Stopped \/ (Alive /\ ~calm))

CalmDown ==
  /\ ~calm /\ calm' = TRUE
  /\ UNCHANGED <<row, queue, phase, rename, failed, renamed>>

\* Everything but the start and the end of the process.
QueueWork ==
  \/ \E j \in Jobs : User(j) \/ Recover(j)
  \/ \E w \in Workers : Work(w)
  \/ RenameSaves \/ ReadBacklog \/ QueueFault \/ CalmDown

-----------------------------------------------------------------------------
\* A cancelled processor may still be closing files: no second one starts on
\* its job before its last write.
OneExecution ==
  \A v, w \in Workers :
    v # w /\ Processing(v) /\ Processing(w) => worker[v].job # worker[w].job

\* A job that the users see as pending will be received by a worker, from the
\* channel or from the recovery, unless the database failed or a rename said so.
PendingIsKept ==
  phase = "up" => \A j \in Jobs :
    row[j] = "pending"
      => \/ j \in {channel[i] : i \in DOMAIN channel} \cup recovery.jobs \cup failed \cup renamed
         \/ ~recovery.read
         \/ \E w \in Workers : worker[w] = [at |-> "taken", job |-> j]

\* The row of several tracks says "completed" before its worker is done.
Merged(j) == row[j] = "completed" /\ \E w \in Workers : worker[w] = [at |-> "merged", job |-> j]

\* A kill that was accepted is not answered by a completed job: it shows one
\* only from the merge of its own tracks until its worker is done, and ends as
\* one only if the process dies in between, the last write fails or a rename
\* says so.
KilledNeverCompletes ==
  [][\A j \in cancelled : row'[j] = "completed" =>
       \/ j \in owned' /\ Merged(j)'
       \/ Merged(j) /\ (phase' = "down" \/ j \in failed')
       \/ j \in renamed \cup renamed']_queueVars

\* A job whose deletion began never comes back, except by a rename.
DeletedStays ==
  [][\A j \in Jobs :
       row[j] \in {"deleting", "deleted"} /\ row'[j] \notin {"deleting", "deleted", "absent"}
         => j \in renamed']_queueVars

\* Pending jobs nobody has to wait for: the database failed, or a rename said so.
Drained == \A j \in Jobs : row[j] = "pending" => j \in failed \cup renamed
=============================================================================
