------------------------- MODULE QuickTranscription -------------------------
(***************************************************************************)
(* Quick transcriptions (internal/transcription/quick_transcription.go)    *)
(* beside the task queue.  A job is held in memory and in a manifest of    *)
(* its own; while one is processed it also has a temporary row in the      *)
(* table of the queue's jobs, where the queue's recovery, the handlers and *)
(* the title of a job meet it.  One goroutine processes and cleans up, and *)
(* jobsMutex covers its publication of a result.                           *)
(***************************************************************************)
EXTENDS TaskQueue

CONSTANTS Quick,      \* quick jobs, a part of Jobs
          Slots       \* 16 in the code, the capacity of the work channel too

ASSUME QuickAssumption == Quick \subseteq Jobs \ MultiTrack /\ Slots \in Nat \ {0}

VARIABLES
  memory,     \* jobs: what a poll is answered
  manifest,   \* <id>.job.json
  saving,     \* submissions that have a slot and no manifest yet
  work,       \* the work channel
  slots,      \* slots in use
  current     \* the job being processed

quick == <<memory, manifest, saving, work, slots, current>>
quickVars == <<queueVars, quick>>

QuickStatuses == {"none", "pending", "processing", "completed", "failed"}
NoQuick == [job |-> NoJob, at |-> "idle", ok |-> FALSE]

QuickType ==
  /\ QueueType
  /\ memory \in [Quick -> QuickStatuses] /\ manifest \in [Quick -> QuickStatuses]
  /\ saving \subseteq Quick /\ work \in Seq(Quick) /\ slots \in 0..Slots
  /\ current \in [job : Quick \cup {NoJob}, ok : BOOLEAN,
                  at : {"idle", "starting", "running", "saving", "purging"}]

QuickInit ==
  /\ QueueInit
  /\ memory = [q \in Quick |-> "none"] /\ manifest = memory
  /\ saving = {} /\ work = <<>> /\ slots = 0 /\ current = NoQuick

\* persist() fails before its rename, or after it, when the directory cannot
\* be synced; the manifest is then in place all the same.
Persisted(q, status) == manifest' = [manifest EXCEPT ![q] = status]
PersistFails(q, status) == Persisted(q, status) \/ manifest' = manifest

-----------------------------------------------------------------------------
\* A submission has a new identity: one that nothing refers to any more.
Fresh(q) ==
  /\ q \notin saving \cup recovery.jobs \cup {rename.job}
  /\ \A w \in Workers : worker[w].job # q
  /\ \A i \in DOMAIN channel : channel[i] # q
  /\ \A i \in DOMAIN work : work[i] # q
  /\ memory[q] = "none" /\ manifest[q] = "none" /\ row[q] = "absent"

\* SubmitQuickJob(): a slot, the audio and the manifest, the channel.
Submit(q) ==
  /\ ~calm /\ phase = "up" /\ slots < Slots /\ Fresh(q) /\ rename = NoRename
  /\ saving' = saving \cup {q} /\ slots' = slots + 1
  /\ UNCHANGED <<queueVars, memory, manifest, work, current>>

SubmitAccepted(q) ==
  /\ Alive /\ q \in saving
  /\ Persisted(q, "pending")
  /\ memory' = [memory EXCEPT ![q] = "pending"]
  /\ work' = Append(work, q)
  /\ saving' = saving \ {q}
  /\ UNCHANGED <<queueVars, slots, current>>

SubmitFails(q) ==
  /\ Alive /\ q \in saving
  /\ \/ ~calm /\ PersistFails(q, "pending")
     \/ phase # "up" /\ UNCHANGED manifest        \* the service is stopping
  /\ saving' = saving \ {q} /\ slots' = slots - 1
  /\ UNCHANGED <<queueVars, memory, work, current>>

\* run() and processQuickJob(): a job that expired in the channel is skipped.
Take ==
  /\ Serving /\ current = NoQuick /\ work # <<>>
  /\ work' = Tail(work)
  /\ LET q == Head(work) IN
     IF memory[q] = "none"
     THEN slots' = slots - 1 /\ UNCHANGED <<memory, current>>
     ELSE /\ memory' = [memory EXCEPT ![q] = "processing"]
          /\ current' = [NoQuick EXCEPT !.job = q, !.at = "starting"]
          /\ UNCHANGED slots
  /\ UNCHANGED <<queueVars, manifest, saving>>

Begin ==
  LET q == current.job IN
  /\ phase = "up" /\ current.at = "starting" /\ row[q] = "absent"
  /\ Persisted(q, "processing")
  /\ row' = [row EXCEPT ![q] = "processing"]
  /\ current' = [current EXCEPT !.at = "running"]
  /\ UNCHANGED <<queue, phase, rename, failed, renamed, calm, memory, saving, work, slots>>

BeginFails ==
  LET q == current.job IN
  /\ Alive /\ current.at = "starting" /\ (~calm \/ phase # "up" \/ row[q] # "absent")
  /\ PersistFails(q, "processing")
  /\ current' = [current EXCEPT !.at = "saving"]
  /\ UNCHANGED <<queueVars, memory, saving, work, slots>>

Processed ==
  /\ current.at = "running"
  /\ \E ok \in BOOLEAN : current' = [current EXCEPT !.at = "saving", !.ok = ok]
  /\ UNCHANGED <<queueVars, memory, manifest, saving, work, slots>>

Result == IF current.ok THEN "completed" ELSE "failed"

\* Mutant: the result is published whether or not its manifest was written.
PublishedAnyway(q) ==
  /\ PersistFails(q, Result)
  /\ memory' = [memory EXCEPT ![q] = Result]

\* Completion is published only after it is durable.
Published(q) ==
  \/ Persisted(q, Result) /\ memory' = [memory EXCEPT ![q] = Result]
  \/ ~calm /\ PersistFails(q, Result) /\ memory' = [memory EXCEPT ![q] = "failed"]

Publish ==
  LET q == current.job IN
  /\ current.at = "saving"
  /\ Published(q)
  /\ IF memory'[q] = "completed"
     THEN current' = [current EXCEPT !.at = "purging"] /\ UNCHANGED slots
     ELSE current' = NoQuick /\ slots' = slots - 1
  /\ UNCHANGED <<queueVars, saving, work>>

\* The temporary row goes, or is at least no longer "processing".
Purge ==
  LET q == current.job IN
  /\ current.at = "purging"
  /\ \/ row' = [row EXCEPT ![q] = "absent"]
     \/ ~calm /\ row' \in {SetStatus(q, "completed"), row}
  /\ current' = NoQuick /\ slots' = slots - 1
  /\ UNCHANGED <<queue, phase, rename, failed, renamed, calm, memory, manifest, saving, work>>

\* cleanupExpiredJobs(), in the same goroutine between two jobs; a job may
\* have spent its six hours in the channel.  It ends with the manifest.
Expire(q) ==
  /\ Serving /\ current = NoQuick /\ memory[q] \notin {"none", "processing"}
  /\ row' = [row EXCEPT ![q] = "absent"]
  /\ \/ Persisted(q, "none") /\ memory' = [memory EXCEPT ![q] = "none"]
     \/ ~calm /\ UNCHANGED <<manifest, memory>>
  /\ UNCHANGED <<queue, phase, rename, failed, renamed, calm, saving, work, slots, current>>

-----------------------------------------------------------------------------
\* restore(): what was interrupted has failed.
Restored(status) == IF status \in {"pending", "processing"} THEN "failed" ELSE status

\* NewQuickTranscriptionService() comes before TaskQueue.Start().
Start ==
  /\ StartQueue
  /\ manifest' = [q \in Quick |-> Restored(manifest[q])]
  /\ memory' = manifest'
  /\ UNCHANGED <<saving, work, slots, current>>

\* Close() waits for the goroutine.
Ending ==
  /\ Shutdown
  /\ phase = "closing" => current = NoQuick
  /\ UNCHANGED quick

Dies ==
  /\ Death
  /\ memory' = [q \in Quick |-> "none"]
  /\ saving' = {} /\ work' = <<>> /\ slots' = 0 /\ current' = NoQuick
  /\ UNCHANGED manifest

QuickStep == Take \/ Begin \/ BeginFails \/ Processed \/ Publish \/ Purge

\* Uploads are of other jobs.  Bound: while a quick job is held no title is
\* given, and the queue's own database calls succeed.
QueueStep ==
  /\ QueueWork
  /\ \A q \in Quick : row[q] = "absent" => row'[q] # "uploaded"
  /\ \/ rename' \in {rename, NoRename} /\ failed' = failed
     \/ \A q \in Quick : Fresh(q)
  /\ UNCHANGED quick

QuickNext ==
  \/ \E q \in Quick : Submit(q) \/ SubmitAccepted(q) \/ SubmitFails(q) \/ Expire(q)
  \/ QuickStep \/ QueueStep
  \/ Start \/ Ending \/ Dies

\* The quick goroutine and its submissions, and the queue's goroutines.
QuickGoesOn == QuickStep \/ \E q \in Quick : SubmitAccepted(q) \/ SubmitFails(q)
QueueGoesOn ==
  /\ ReadBacklog \/ (\E j \in Jobs : Recover(j)) \/ \E w \in Workers : Work(w)
  /\ UNCHANGED quick

-----------------------------------------------------------------------------
\* A poll that was answered "completed" stays so until the job expires, also
\* after a restart.
QuickIsDurable == \A q \in Quick : memory[q] = "completed" => manifest[q] = "completed"

\* The audio kept for unfinished jobs is bounded by the slots, and the send
\* that follows a submission never waits.
QuickIsBounded ==
  /\ Cardinality({q \in Quick : memory[q] \in {"pending", "processing"}} \cup saving) <= Slots
  /\ Len(work) <= Slots

\* Once users and faults are silent the queue runs dry, and every quick job
\* that was accepted is answered.
JobsEnd ==
  calm /\ phase = "up"
    ~> Drained /\ \A q \in Quick : memory[q] \notin {"pending", "processing"}

\* A job that the users see as processing is owned, so that it can be killed;
\* a temporary row may be left by a quick job that has failed.
ProcessingIsOwned ==
  phase = "up" => \A j \in Jobs \ Quick :
    row[j] = "processing" => j \in owned \cup failed \cup renamed

\* Purging a temporary row is the one thing that takes it from a queue worker,
\* and the merge of its tracks the one that ends it early.
OwnedUnlessPurged ==
  \A j \in owned :
    \/ row[j] = "processing" \/ Merged(j) \/ j \in renamed
    \/ j \in Quick /\ row[j] = "absent"
=============================================================================
