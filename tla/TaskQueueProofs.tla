--------------------------- MODULE TaskQueueProofs ---------------------------
(***************************************************************************)
(* The task queue and the quick transcriptions for any set of jobs and any *)
(* number of workers: the inductive invariant of their steps.  The         *)
(* theorems that rest on it are those of ServicesProofs.                   *)
(***************************************************************************)
EXTENDS QuickTranscription, FiniteSetTheorems, SequenceTheorems, TLAPS

\* A worker that runs a job owns it, alone, and who is owned is run.
WorkersOwn ==
  /\ \A w \in Workers : worker[w].at # "idle" => worker[w].job \in Jobs
  /\ \A w \in Workers : Processing(w) => worker[w].job \in owned
  /\ \A j \in owned : \E w \in Workers : Processing(w) /\ worker[w].job = j
  /\ cancelled \subseteq owned
  /\ OneExecution

\* The temporary row of a quick job is not there before the job begins, and is
\* the job's own until it is purged.
QuickRows ==
  /\ \A q \in Quick :
       q \in saving \/ memory[q] = "pending" \/ (current.at = "starting" /\ current.job = q)
         => row[q] = "absent" /\ q \notin owned
  /\ current.at \in {"running", "purging"} \/ (current.at = "saving" /\ current.ok)
       => row[current.job] = "processing" /\ current.job \notin owned

\* Memory, work channel and the goroutine's job agree.
QuickState ==
  /\ current.at = "idle" <=> current = NoQuick
  /\ current.at # "idle" => current.job \in Quick
  /\ current.at \in {"starting", "running"} => ~current.ok
  /\ current.at \in {"starting", "running", "saving"} => memory[current.job] = "processing"
  /\ current.at = "purging" => memory[current.job] = "completed"
  /\ \A q \in Quick :
       /\ q \in saving => memory[q] = "none"
       /\ memory[q] = "processing" => current.job = q
       /\ memory[q] = "pending" => \E i \in 1 .. Len(work) : work[i] = q

\* What waits in the work channel waits once, or has expired there.
WorkWaits ==
  \A i \in 1 .. Len(work) :
    /\ work[i] \notin saving /\ memory[work[i]] \in {"none", "pending"}
    /\ \A k \in 1 .. Len(work) : work[k] = work[i] => k = i

\* A title is written back while no quick job is held.
RenameAlone ==
  rename # NoRename =>
    /\ rename.job \in Jobs
    /\ saving = {} /\ work = <<>> /\ current = NoQuick
    /\ \A q \in Quick : memory[q] = "none"

\* Nothing but the rows and the manifests outlives the process.
DiesWhole ==
  phase = "down" =>
    /\ channel = <<>> /\ (\A w \in Workers : worker[w] = Idle) /\ owned = {}
    /\ recovery = NotRead /\ rename = NoRename
    /\ saving = {} /\ work = <<>> /\ current = NoQuick
    /\ \A q \in Quick : memory[q] = "none"

\* Every slot in use has its holder.
SlotsCounted ==
  /\ IsFiniteSet(saving)
  /\ slots = Cardinality(saving) + Len(work) + (IF current.at = "idle" THEN 0 ELSE 1)

QIInv ==
  /\ QuickType /\ WorkersOwn /\ QuickRows /\ QuickState /\ WorkWaits /\ RenameAlone /\ DiesWhole
  /\ SlotsCounted
  /\ OwnedUnlessPurged /\ PendingIsKept /\ ProcessingIsOwned
  /\ QuickIsDurable

\* The steps of the quick service: they leave the queue alone but for a row.
QuickWork ==
  \/ \E q \in Quick : Submit(q) \/ SubmitAccepted(q) \/ SubmitFails(q) \/ Expire(q)
  \/ QuickStep

LEMMA QuickWorkFrame ==
  QuickWork => UNCHANGED <<queue, phase, rename, failed, renamed, calm>>
BY DEF QuickWork, QuickStep, Submit, SubmitAccepted, SubmitFails, Expire, Take, Begin,
   BeginFails, Processed, Publish, Purge, queueVars

-----------------------------------------------------------------------------
LEMMA WorkersOwnStep ==
  ASSUME QuickType, WorkersOwn, DiesWhole, QuickNext
  PROVE  WorkersOwn'
<1> USE DEF QuickType, QueueType
<1>1. CASE UNCHANGED <<worker, owned, cancelled>>
  BY <1>1 DEF WorkersOwn, OneExecution, Processing
<1>2. ASSUME NEW j \in Jobs, KillJob(j) PROVE WorkersOwn'
  BY <1>2 DEF KillJob, WorkersOwn, OneExecution, Processing
<1>3. ASSUME NEW w \in Workers, Receive(w) PROVE WorkersOwn'
  <2>1. Head(channel) \in Jobs
    BY <1>3, HeadTailProperties DEF Receive
  <2>2. /\ worker' = [worker EXCEPT ![w] = [at |-> "taken", job |-> Head(channel)]]
        /\ worker[w].at = "idle" /\ UNCHANGED <<owned, cancelled>>
    BY <1>3 DEF Receive, Idle
  <2> QED BY <2>1, <2>2 DEF WorkersOwn, OneExecution, Processing
<1>4. ASSUME NEW w \in Workers, Claim(w) PROVE WorkersOwn'
  <2>1. PICK j \in Jobs : j = worker[w].job
    BY <1>4 DEF Claim, WorkersOwn
  <2>2. /\ worker[w].at = "taken" /\ j \notin owned /\ owned' = owned \cup {j}
        /\ worker' = [worker EXCEPT ![w].at = "running"] /\ UNCHANGED cancelled
    BY <1>4, <2>1 DEF Claim
  <2>3. /\ worker'[w].at = "running" /\ worker'[w].job = j
        /\ \A v \in Workers \ {w} : worker'[v] = worker[v]
    BY <2>1, <2>2
  <2> QED BY <2>1, <2>2, <2>3 DEF WorkersOwn, OneExecution, Processing
<1>5. ASSUME NEW w \in Workers, Skip(w) \/ ClaimFails(w) PROVE WorkersOwn'
  <2>1. /\ worker[w].at = "taken" /\ worker' = [worker EXCEPT ![w] = Idle]
        /\ UNCHANGED <<owned, cancelled>>
    BY <1>5 DEF Skip, ClaimFails
  <2> QED BY <2>1 DEF WorkersOwn, OneExecution, Processing, Idle
<1>6. ASSUME NEW w \in Workers, NEW written \in BOOLEAN, Finish(w, written)
      PROVE  WorkersOwn'
  <2>1. PICK j \in owned : j = worker[w].job
    BY <1>6 DEF Finish, WorkersOwn
  <2>2. /\ Processing(w) /\ owned' = owned \ {j} /\ cancelled' = cancelled \ {j}
        /\ worker' = [worker EXCEPT ![w] = Idle]
    BY <1>6, <2>1 DEF Finish
  <2>3. worker'[w].at = "idle" /\ \A v \in Workers \ {w} : worker'[v] = worker[v]
    BY <2>2 DEF Idle
  <2> QED BY <2>1, <2>2, <2>3 DEF WorkersOwn, OneExecution, Processing
<1>6a. ASSUME NEW w \in Workers, MergeTracks(w) PROVE WorkersOwn'
  <2>1. /\ worker[w].at = "running" /\ worker' = [worker EXCEPT ![w].at = "merged"]
        /\ UNCHANGED <<owned, cancelled>>
    BY <1>6a DEF MergeTracks
  <2>2. /\ worker'[w].at = "merged" /\ worker'[w].job = worker[w].job
        /\ \A v \in Workers \ {w} : worker'[v] = worker[v]
    BY <2>1
  <2> QED BY <2>1, <2>2 DEF WorkersOwn, OneExecution, Processing
<1>7. CASE Dies
  <2>1. owned' = {} /\ cancelled' = {} /\ \A w \in Workers : worker'[w].at = "idle"
    BY <1>7 DEF Dies, Death, EndProcess, Idle
  <2> QED BY <2>1 DEF WorkersOwn, OneExecution, Processing
<1>8. CASE QuickWork \/ Start \/ Ending
  <2>1. UNCHANGED <<worker, owned, cancelled>>
    BY <1>8, QuickWorkFrame DEF queue, Start, StartQueue, Ending, Shutdown
  <2> QED BY <1>1, <2>1
<1>9. CASE QueueStep
  <2>1. CASE \E j \in Jobs : Upload(j) \/ Enqueue(j) \/ BeginDeletion(j)
                             \/ CompleteDeletion(j) \/ RenameReads(j) \/ Recover(j)
    BY <1>1, <2>1 DEF Upload, Enqueue, BeginDeletion, CompleteDeletion, RenameReads,
       Recover, queue
  <2>2. CASE RenameSaves \/ ReadBacklog \/ ReadBacklogFails \/ CalmDown
    BY <1>1, <2>2 DEF RenameSaves, ReadBacklog, ReadBacklogFails, CalmDown, queue
  <2> QED BY <1>2, <1>3, <1>4, <1>5, <1>6, <1>6a, <1>9, <2>1, <2>2
      DEF QueueStep, QueueWork, User, Work, QueueFault
<1> QED BY <1>7, <1>8, <1>9 DEF QuickNext, QuickWork
-----------------------------------------------------------------------------
(* Types. *)

LEMMA SetStatusType ==
  ASSUME QueueType, NEW j \in Jobs, NEW status \in Statuses
  PROVE  SetStatus(j, status) \in [Jobs -> Statuses]
BY DEF QueueType, SetStatus

LEMMA ChannelTakes ==
  ASSUME QueueType, NEW j \in Jobs, Len(channel) < Capacity
  PROVE  Append(channel, j) \in Seq(Jobs) /\ Len(Append(channel, j)) <= Capacity
<1>1. Len(channel) \in Nat /\ Capacity \in Nat
  BY LenProperties, QueueAssumption DEF QueueType
<1>2. Append(channel, j) \in Seq(Jobs) /\ Len(Append(channel, j)) = Len(channel) + 1
  BY AppendProperties DEF QueueType
<1> QED BY <1>1, <1>2

LEMMA QueueStepType ==
  ASSUME QueueType, WorkersOwn, RenameAlone, QueueWork
  PROVE  QueueType'
<1> USE DEF QueueType
<1>1. ASSUME NEW j \in Jobs, User(j) PROVE QueueType'
  <2>1. CASE Upload(j) \/ BeginDeletion(j) \/ CompleteDeletion(j)
    BY <2>1 DEF Upload, BeginDeletion, CompleteDeletion, queue, Statuses
  <2>2. CASE Enqueue(j)
    BY <2>2, ChannelTakes DEF Enqueue, Admitted, Statuses
  <2>3. CASE KillJob(j)
    BY <2>3 DEF KillJob
  <2>4. CASE RenameReads(j)
    BY <2>4 DEF RenameReads, queue
  <2> QED BY <1>1, <2>1, <2>2, <2>3, <2>4 DEF User
<1>2. ASSUME NEW j \in Jobs, Recover(j) PROVE QueueType'
  <2>1. channel' \in Seq(Jobs) /\ Len(channel') <= Capacity
    BY <1>2, ChannelTakes DEF Recover, Admitted
  <2> QED BY <1>2, <2>1 DEF Recover
<1>3. ASSUME NEW w \in Workers, Work(w) \/ ClaimFails(w) \/ Finish(w, FALSE)
      PROVE  QueueType'
  <2>1. CASE Receive(w)
    <3>1. channel \in Seq(Jobs) /\ channel # <<>>
      BY <2>1 DEF Receive
    <3>2. Head(channel) \in Jobs /\ Tail(channel) \in Seq(Jobs)
          /\ Len(Tail(channel)) = Len(channel) - 1 /\ Len(channel) \in Nat
      BY <3>1, HeadTailProperties, LenProperties
    <3> QED BY <2>1, <3>2, QueueAssumption DEF Receive
  <2>2. CASE Claim(w)
    BY <2>2 DEF Claim, Statuses, WorkersOwn
  <2>3. CASE Skip(w) \/ ClaimFails(w)
    BY <2>3 DEF Skip, ClaimFails, Idle, WorkersOwn
  <2>4. CASE \E written \in BOOLEAN : Finish(w, written)
    <3>1. worker[w].job \in Jobs /\ Processing(w)
      BY <2>4 DEF Finish, WorkersOwn, Processing
    <3>2. row' \in [Jobs -> Statuses]
      <4>1. \A ok \in BOOLEAN : Outcome(worker[w].job, ok) \in Statuses
        BY DEF Outcome, Statuses
      <4> QED BY <2>4, <3>1, <4>1, SetStatusType DEF Finish
    <3>3. worker' = [worker EXCEPT ![w] = Idle]
          /\ Idle \in [at : {"idle", "taken", "running", "merged"}, job : Jobs \cup {NoJob}]
      BY <2>4 DEF Finish, Idle
    <3>4. failed' \in SUBSET Jobs /\ owned' \in SUBSET Jobs /\ cancelled' \in SUBSET Jobs
          /\ UNCHANGED <<channel, recovery, phase, rename, renamed, calm>>
      BY <2>4, <3>1 DEF Finish
    <3> QED BY <3>2, <3>3, <3>4
  <2>5. CASE MergeTracks(w)
    <3>1. worker[w].job \in Jobs /\ worker[w].at = "running"
      BY <2>5 DEF MergeTracks, WorkersOwn
    <3>2. row' \in [Jobs -> Statuses]
      BY <2>5, <3>1, SetStatusType DEF MergeTracks, Statuses
    <3>3. worker' = [worker EXCEPT ![w].at = "merged"]
          /\ UNCHANGED <<channel, owned, cancelled, recovery, phase, rename, failed, renamed, calm>>
      BY <2>5 DEF MergeTracks
    <3> QED BY <3>2, <3>3
  <2> QED BY <1>3, <2>1, <2>2, <2>3, <2>4, <2>5 DEF Work
<1>4. CASE RenameSaves
  <2>1. rename.status \in Statuses
    OBVIOUS
  <2>2. row' \in [Jobs -> Statuses] /\ renamed' \in SUBSET Jobs
    BY <1>4, <2>1 DEF RenameSaves, RenameAlone
  <2>3. rename' \in [job : Jobs \cup {NoJob}, status : Statuses]
    BY <1>4 DEF RenameSaves, NoRename, Statuses
  <2> QED BY <1>4, <2>2, <2>3 DEF RenameSaves, queue
<1>5. CASE ReadBacklog \/ ReadBacklogFails
  <2>1. {j \in Jobs : row[j] = "pending"} \in SUBSET Jobs /\ {} \in SUBSET Jobs
    OBVIOUS
  <2>2. recovery' \in [read : BOOLEAN, jobs : SUBSET Jobs] /\ failed' \in SUBSET Jobs
    <3>1. CASE ReadBacklog
      BY <2>1, <3>1 DEF ReadBacklog
    <3>2. CASE ReadBacklogFails
      <4>1. recovery' = [read |-> TRUE, jobs |-> {}]
            /\ failed' = failed \cup {j \in Jobs : row[j] = "pending"}
        BY <3>2 DEF ReadBacklogFails
      <4> QED BY <4>1
    <3> QED BY <1>5, <3>1, <3>2
  <2> QED BY <1>5, <2>2 DEF ReadBacklog, ReadBacklogFails
<1>6. CASE CalmDown
  BY <1>6 DEF CalmDown, queue
<1> QED BY <1>1, <1>2, <1>3, <1>4, <1>5, <1>6 DEF QueueWork, QueueFault

LEMMA QuickStepType ==
  ASSUME QIInv, QuickWork, slots' \in 0 .. Slots
  PROVE  QuickType'
<1> USE DEF QuickType
<1>1. UNCHANGED <<queue, phase, rename, failed, renamed, calm>>
  BY QuickWorkFrame
<1>2. current.at # "idle" => current.job \in Quick
  BY DEF QIInv, QuickState
<1>3. QueueType'
  <2>1. row' \in [Jobs -> Statuses]
    <3>1. CASE UNCHANGED row
      BY <3>1 DEF QIInv, QueueType
    <3>2. CASE Begin \/ (\E q \in Quick : Expire(q))
      BY <1>2, <3>2, QuickAssumption DEF Begin, Expire, QIInv, QueueType, Statuses
    <3>3. CASE Purge
      <4>1. current.job \in Jobs /\ QueueType
        BY <1>2, <3>3, QuickAssumption DEF Purge, QIInv
      <4>2. SetStatus(current.job, "completed") \in [Jobs -> Statuses]
        BY <4>1, SetStatusType DEF Statuses
      <4>3. [row EXCEPT ![current.job] = "absent"] \in [Jobs -> Statuses]
            /\ row \in [Jobs -> Statuses]
        BY <4>1 DEF QueueType, Statuses
      <4> QED BY <3>3, <4>2, <4>3 DEF Purge
    <3> QED BY <3>1, <3>2, <3>3 DEF QuickWork, QuickStep, Submit, SubmitAccepted,
            SubmitFails, Take, BeginFails, Processed, Publish, queueVars
  <2> QED BY <1>1, <2>1 DEF QIInv, QueueType, queue
<1>4. memory' \in [Quick -> QuickStatuses] /\ manifest' \in [Quick -> QuickStatuses]
      /\ saving' \subseteq Quick /\ work' \in Seq(Quick)
  <2>1. CASE \E q \in Quick : Submit(q) \/ SubmitFails(q) \/ Expire(q)
    BY <2>1 DEF Submit, SubmitFails, Expire, Persisted, PersistFails, QIInv, QuickStatuses
  <2>2. CASE \E q \in Quick : SubmitAccepted(q)
    BY <2>2, AppendProperties DEF SubmitAccepted, Persisted, QIInv, QuickStatuses
  <2>3. CASE Take
    <3>1. Head(work) \in Quick /\ Tail(work) \in Seq(Quick)
      BY <2>3, HeadTailProperties DEF Take, QIInv
    <3> QED BY <2>3, <3>1 DEF Take, QIInv, QuickStatuses
  <2>4. CASE Begin \/ BeginFails \/ Processed \/ Publish \/ Purge
    BY <1>2, <2>4 DEF Begin, BeginFails, Processed, Publish, Published, Result, Purge,
       Persisted, PersistFails, QIInv, QuickStatuses
  <2> QED BY <2>1, <2>2, <2>3, <2>4 DEF QuickWork, QuickStep
<1>5. current' \in [job : Quick \cup {NoJob}, ok : BOOLEAN,
                    at : {"idle", "starting", "running", "saving", "purging"}]
  <2>1. NoQuick \in [job : Quick \cup {NoJob}, ok : BOOLEAN,
                     at : {"idle", "starting", "running", "saving", "purging"}]
    BY DEF NoQuick
  <2>2. CASE Take
    <3>1. Head(work) \in Quick
      BY <2>2, HeadTailProperties DEF Take, QIInv
    <3> QED BY <2>1, <2>2, <3>1 DEF Take, QIInv, NoQuick
  <2>3. CASE ~Take
    BY <2>1, <2>3 DEF QuickWork, QuickStep, Submit, SubmitAccepted, SubmitFails, Expire,
       Begin, BeginFails, Processed, Publish, Purge, QIInv
  <2> QED BY <2>2, <2>3
<1> QED BY <1>3, <1>4, <1>5

\* What the start, the shutdown and the end of the process leave.
LEMMA ProcessType ==
  ASSUME QuickType, Start \/ Ending \/ Dies
  PROVE  QuickType'
<1> USE DEF QuickType, QueueType
<1>1. CASE Start
  <2>1. row' \in [Jobs -> Statuses] /\ failed' \in SUBSET Jobs
    BY <1>1 DEF Start, StartQueue, ResetZombies, Statuses
  <2>2. manifest' \in [Quick -> QuickStatuses] /\ memory' \in [Quick -> QuickStatuses]
    BY <1>1 DEF Start, Restored, QuickStatuses
  <2> QED BY <1>1, <2>1, <2>2 DEF Start, StartQueue, queue
<1>2. CASE Ending
  BY <1>2 DEF Ending, Shutdown, Close, Stop, queue, quick
<1>3. CASE Dies
  <2>1. channel' \in Seq(Jobs) /\ Len(channel') <= Capacity
    BY <1>3, QueueAssumption, EmptySeq DEF Dies, Death, EndProcess
  <2>2. worker' \in [Workers -> [at : {"idle", "taken", "running", "merged"}, job : Jobs \cup {NoJob}]]
    BY <1>3 DEF Dies, Death, EndProcess, Idle
  <2>3. recovery' \in [read : BOOLEAN, jobs : SUBSET Jobs]
        /\ rename' \in [job : Jobs \cup {NoJob}, status : Statuses]
    BY <1>3 DEF Dies, Death, EndProcess, NotRead, NoRename, Statuses
  <2>4. current' \in [job : Quick \cup {NoJob}, ok : BOOLEAN,
                      at : {"idle", "starting", "running", "saving", "purging"}]
        /\ memory' \in [Quick -> QuickStatuses]
    BY <1>3 DEF Dies, NoQuick, QuickStatuses
  <2>5. work' \in Seq(Quick) /\ slots' \in 0 .. Slots
    BY <1>3, EmptySeq, QuickAssumption DEF Dies
  <2> QED BY <1>3, <2>1, <2>2, <2>3, <2>4, <2>5 DEF Dies, Death, EndProcess
<1> QED BY <1>1, <1>2, <1>3
-----------------------------------------------------------------------------
(* The quick service's own state. *)

\* What the steps outside the quick service leave of it.
LEMMA QuickFrame ==
  QueueStep \/ Ending => UNCHANGED <<memory, manifest, saving, work, slots, current>>
BY DEF QueueStep, Ending, quick

LEMMA SlotsStep ==
  ASSUME QIInv, QuickNext
  PROVE  SlotsCounted' /\ slots' \in 0 .. Slots
<1> USE DEF QIInv, SlotsCounted
<1>1. Slots \in Nat /\ slots \in 0 .. Slots /\ Len(work) \in Nat /\ Cardinality(saving) \in Nat
  BY QuickAssumption, LenProperties, FS_CardinalityType DEF QuickType
<1>2. ASSUME NEW q \in Quick, Submit(q) PROVE SlotsCounted' /\ slots' \in 0 .. Slots
  <2>1. q \notin saving /\ saving' = saving \cup {q} /\ slots' = slots + 1 /\ slots < Slots
        /\ UNCHANGED <<work, current>>
    BY <1>2 DEF Submit, Fresh
  <2>2. IsFiniteSet(saving') /\ Cardinality(saving') = Cardinality(saving) + 1
    BY <2>1, FS_AddElement
  <2> QED BY <1>1, <2>1, <2>2
<1>3. ASSUME NEW q \in Quick, SubmitAccepted(q) \/ SubmitFails(q)
      PROVE  SlotsCounted' /\ slots' \in 0 .. Slots
  <2>1. q \in saving /\ saving' = saving \ {q} /\ UNCHANGED current
    BY <1>3 DEF SubmitAccepted, SubmitFails
  <2>2. IsFiniteSet(saving') /\ Cardinality(saving') = Cardinality(saving) - 1
        /\ Cardinality(saving') \in Nat
    BY <2>1, FS_RemoveElement, FS_CardinalityType
  <2>3. CASE SubmitAccepted(q)
    <3>1. slots' = slots /\ Len(work') = Len(work) + 1
      BY <2>3, AppendProperties DEF SubmitAccepted, QuickType
    <3> QED BY <1>1, <2>1, <2>2, <3>1
  <2>4. CASE SubmitFails(q)
    <3>1. slots' = slots - 1 /\ work' = work
      BY <2>4 DEF SubmitFails
    <3> QED BY <1>1, <2>1, <2>2, <3>1
  <2> QED BY <1>3, <2>3, <2>4
<1>4. CASE Take
  <2>1. work # <<>> /\ work' = Tail(work) /\ current.at = "idle" /\ UNCHANGED saving
    BY <1>4 DEF Take, NoQuick
  <2>2. Len(work') = Len(work) - 1
    BY <2>1, HeadTailProperties DEF QuickType
  <2>3. \/ slots' = slots - 1 /\ current' = current
        \/ slots' = slots /\ current'.at = "starting"
    BY <1>4 DEF Take, NoQuick
  <2>4. Len(work) >= 1
    BY <2>1, EmptySeq DEF QuickType
  <2> QED BY <1>1, <2>1, <2>2, <2>3, <2>4
<1>5. CASE Begin \/ BeginFails \/ Processed \/ Publish \/ Purge
  <2>1. current.at # "idle" /\ UNCHANGED <<saving, work>>
    BY <1>5 DEF Begin, BeginFails, Processed, Publish, Purge
  <2>2. \/ slots' = slots - 1 /\ current' = NoQuick
        \/ slots' = slots /\ current'.at \in {"running", "saving", "purging"}
    BY <1>5 DEF Begin, BeginFails, Processed, Publish, Purge, QuickType
  <2>3. NoQuick.at = "idle"
    BY DEF NoQuick
  <2> QED BY <1>1, <2>1, <2>2, <2>3
<1>6. CASE QueueStep \/ Ending \/ Start \/ \E q \in Quick : Expire(q)
  <2>1. UNCHANGED <<saving, work, slots, current>>
    BY <1>6, QuickFrame DEF Start, Expire
  <2> QED BY <1>1, <2>1
<1>7. CASE Dies
  <2>1. saving' = {} /\ work' = <<>> /\ slots' = 0 /\ current' = NoQuick
    BY <1>7 DEF Dies
  <2> QED BY <1>1, <2>1, FS_EmptySet, EmptySeq DEF NoQuick
<1> QED BY <1>2, <1>3, <1>4, <1>5, <1>6, <1>7 DEF QuickNext, QuickStep

LEMMA QuickStateStep ==
  ASSUME QIInv, QuickNext
  PROVE  QuickState' /\ QuickIsDurable'
<1> USE DEF QIInv, QuickType, QuickState, QuickIsDurable
<1>1. CASE QueueStep \/ Ending
  <2>1. UNCHANGED <<memory, manifest, saving, work, slots, current>>
    BY <1>1, QuickFrame
  <2> QED BY <2>1
<1>2. CASE Dies
  <2>1. saving' = {} /\ work' = <<>> /\ current' = NoQuick /\ manifest' = manifest
        /\ memory' = [q \in Quick |-> "none"]
    BY <1>2 DEF Dies
  <2> QED BY <2>1 DEF NoQuick
<1>3. CASE Start
  <2>1. saving = {} /\ current = NoQuick /\ UNCHANGED <<saving, work, current>>
        /\ manifest' = [q \in Quick |-> Restored(manifest[q])] /\ memory' = manifest'
    BY <1>3 DEF Start, StartQueue, DiesWhole
  <2> QED BY <2>1 DEF NoQuick, Restored
<1>4. ASSUME NEW q \in Quick, Submit(q) PROVE QuickState' /\ QuickIsDurable'
  BY <1>4 DEF Submit, Fresh
<1>5. ASSUME NEW q \in Quick, SubmitAccepted(q) PROVE QuickState' /\ QuickIsDurable'
  <2>1. /\ \A i \in 1 .. Len(work) : work'[i] = work[i]
        /\ Len(work') = Len(work) + 1 /\ work'[Len(work) + 1] = q /\ Len(work) \in Nat
    BY <1>5, AppendProperties, LenProperties DEF SubmitAccepted
  <2>2. \A i \in 1 .. Len(work) : i \in 1 .. Len(work')
        /\ Len(work) + 1 \in 1 .. Len(work')
    BY <2>1
  <2>3. /\ memory' = [memory EXCEPT ![q] = "pending"] /\ manifest' = [manifest EXCEPT ![q] = "pending"]
        /\ saving' = saving \ {q} /\ q \in saving /\ UNCHANGED current
    BY <1>5 DEF SubmitAccepted, Persisted
  <2>4. ASSUME NEW p \in Quick, memory'[p] = "pending"
        PROVE  \E i \in 1 .. Len(work') : work'[i] = p
    <3>1. CASE p = q
      BY <2>1, <3>1
    <3>2. CASE p # q
      BY <2>1, <2>2, <2>3, <2>4, <3>2
    <3> QED BY <3>1, <3>2
  <2> HIDE DEF QuickType
  <2>5. memory[q] = "none" /\ memory'[q] = "pending"
        /\ \A p \in Quick \ {q} : memory'[p] = memory[p] /\ manifest'[p] = manifest[p]
    BY <2>3 DEF QuickType
  <2> QED BY <2>3, <2>4, <2>5
<1>6. ASSUME NEW q \in Quick, SubmitFails(q) PROVE QuickState' /\ QuickIsDurable'
  BY <1>6 DEF SubmitFails, PersistFails, Persisted
<1>7. CASE Take
  <2>1. PICK q \in Quick : q = Head(work)
    BY <1>7, HeadTailProperties DEF Take
  <2>2. /\ Len(work) \in Nat \ {0} /\ Len(work') = Len(work) - 1 /\ work[1] = q
        /\ \A i \in 1 .. Len(work') : work'[i] = work[i + 1]
    BY <1>7, <2>1, HeadTailProperties, EmptySeq DEF Take
  <2>3. ASSUME NEW p \in Quick \ {q}, \E i \in 1 .. Len(work) : work[i] = p
        PROVE  \E i \in 1 .. Len(work') : work'[i] = p
    <3>1. PICK i \in 1 .. Len(work) : work[i] = p
      BY <2>3
    <3>2. i - 1 \in 1 .. Len(work') /\ work'[i - 1] = p
      BY <2>2, <3>1
    <3> QED BY <3>2
  <2>4. /\ current = NoQuick /\ UNCHANGED <<manifest, saving>>
        /\ \/ memory[q] = "none" /\ UNCHANGED <<memory, current>>
           \/ /\ memory[q] # "none"
              /\ memory' = [memory EXCEPT ![q] = "processing"]
              /\ current' = [NoQuick EXCEPT !.job = q, !.at = "starting"]
    BY <1>7, <2>1 DEF Take
  <2>5. CASE memory[q] = "none" /\ UNCHANGED <<memory, current>>
    BY <2>3, <2>4, <2>5
  <2>6. CASE /\ memory' = [memory EXCEPT ![q] = "processing"]
             /\ current' = [NoQuick EXCEPT !.job = q, !.at = "starting"]
    <3>1. current' = [job |-> q, at |-> "starting", ok |-> FALSE] /\ current'.at = "starting"
          /\ current'.job = q /\ current'.ok = FALSE
      BY <2>6 DEF NoQuick
    <3>2. memory'[q] = "processing" /\ \A p \in Quick \ {q} : memory'[p] = memory[p]
      BY <2>6
    <3>3. \A p \in Quick : memory[p] # "processing"
      BY <2>4, QuickAssumption, QueueAssumption DEF NoQuick
    <3>4. q \notin saving
      BY <2>2, <2>4, <2>6, <1>7, <2>1 DEF Take
    <3>5. current' # NoQuick
      BY <3>1 DEF NoQuick
    <3> QED BY <2>3, <2>4, <3>1, <3>2, <3>3, <3>4, <3>5
  <2> QED BY <2>4, <2>5, <2>6
<1>8. CASE Begin \/ BeginFails \/ Processed
  <2>1. /\ current.at \in {"starting", "running"} /\ UNCHANGED <<memory, saving, work>>
        /\ manifest' = manifest
             \/ \E status \in QuickStatuses : manifest' = [manifest EXCEPT ![current.job] = status]
        /\ \/ current' = [current EXCEPT !.at = "running"]
           \/ current' = [current EXCEPT !.at = "saving"]
           \/ \E ok \in BOOLEAN : current' = [current EXCEPT !.at = "saving", !.ok = ok]
        /\ current'.at = "running" => current.at = "starting"
    BY <1>8 DEF Begin, BeginFails, Processed, PersistFails, Persisted, QuickStatuses
  <2>2. QuickState'
    <3>1. current'.at \in {"running", "saving"} /\ current'.job = current.job
          /\ (current'.at = "running" => ~current'.ok)
      BY <2>1
    <3>2. current' # NoQuick
      BY <3>1 DEF NoQuick
    <3> QED BY <2>1, <3>1, <3>2
  <2>3. QuickIsDurable'
    BY <2>1
  <2> QED BY <2>2, <2>3
<1>9. CASE Publish \/ Purge
  <2>1. PICK q \in Quick : q = current.job
    BY <1>9 DEF Publish, Purge
  <2>2. CASE Purge
    BY <2>1, <2>2 DEF Purge, NoQuick
  <2>3. CASE Publish
    <3>1. /\ current.at = "saving" /\ UNCHANGED <<saving, work>>
          /\ memory[q] = "processing"
      BY <2>1, <2>3 DEF Publish
    <3>2. /\ memory' \in [Quick -> QuickStatuses] /\ memory'[q] \in {"completed", "failed"}
          /\ \A p \in Quick \ {q} : memory'[p] = memory[p] /\ manifest'[p] = manifest[p]
          /\ memory'[q] = "completed" => manifest'[q] = "completed"
      BY <2>1, <2>3 DEF Publish, Published, Result, Persisted, PersistFails, QuickStatuses
    <3>3. IF memory'[q] = "completed" THEN current' = [current EXCEPT !.at = "purging"]
          ELSE current' = NoQuick
      BY <2>1, <2>3 DEF Publish
    <3> QED BY <2>1, <3>1, <3>2, <3>3 DEF NoQuick
  <2> QED BY <1>9, <2>2, <2>3
<1>10. ASSUME NEW q \in Quick, Expire(q) PROVE QuickState' /\ QuickIsDurable'
  BY <1>10 DEF Expire, Persisted
<1> QED BY <1>1, <1>2, <1>3, <1>4, <1>5, <1>6, <1>7, <1>8, <1>9, <1>10
        DEF QuickNext, QuickStep
-----------------------------------------------------------------------------
(* The service's process and the titles. *)

\* A job nothing refers to is not owned, and when that holds of every quick
\* job, the quick service holds none.
LEMMA FreshFacts ==
  ASSUME QIInv, NEW q \in Quick, Fresh(q)
  PROVE  q \notin owned /\ q \notin saving /\ row[q] = "absent" /\ memory[q] = "none"
BY DEF QIInv, Fresh, WorkersOwn

LEMMA AllFreshFacts ==
  ASSUME QIInv, \A q \in Quick : Fresh(q)
  PROVE  saving = {} /\ work = <<>> /\ current = NoQuick /\ \A q \in Quick : memory[q] = "none"
<1>1. work = <<>>
  <2>1. work # <<>> => Len(work) \in Nat \ {0} /\ work[1] \in Quick
    BY EmptySeq, ElementOfSeq DEF QIInv, QuickType
  <2>2. work # <<>> => 1 \in 1 .. Len(work) /\ 1 \in DOMAIN work
    BY <2>1, LenProperties DEF QIInv, QuickType
  <2> QED BY <2>1, <2>2 DEF Fresh
<1>2. current.at = "idle"
  BY DEF QIInv, QuickType, QuickState, Fresh
<1>3. saving = {}
  BY DEF QIInv, QuickType, Fresh
<1> QED BY <1>1, <1>2, <1>3 DEF QIInv, QuickState, Fresh

LEMMA RenameAloneStep ==
  ASSUME QIInv, QuickNext
  PROVE  RenameAlone'
<1>1. CASE Start \/ Dies
  BY <1>1 DEF Start, StartQueue, Dies, Death, EndProcess, QIInv, DiesWhole, RenameAlone
<1>2. CASE Ending
  BY <1>2, QuickFrame DEF Ending, Shutdown, QIInv, RenameAlone
<1>3. CASE QueueStep
  <2>1. UNCHANGED <<memory, manifest, saving, work, slots, current>>
    BY <1>3, QuickFrame
  <2>2. CASE rename' \in {rename, NoRename}
    BY <2>1, <2>2 DEF QIInv, RenameAlone
  <2>3. CASE rename' \notin {rename, NoRename}
    <3>1. saving = {} /\ work = <<>> /\ current = NoQuick /\ \A q \in Quick : memory[q] = "none"
      BY <1>3, <2>3, AllFreshFacts DEF QueueStep
    <3>2. QueueWork /\ \E j \in Jobs : RenameReads(j)
      BY <1>3, <2>3 DEF QueueStep, QueueWork, User, Upload, Enqueue, KillJob, BeginDeletion,
         CompleteDeletion, Recover, Work, Receive, Claim, Skip, ClaimFails, MergeTracks, Finish,
         RenameSaves, ReadBacklog, QueueFault, ReadBacklogFails, CalmDown
    <3>3. rename'.job \in Jobs
      BY <3>2 DEF RenameReads
    <3> QED BY <2>1, <3>1, <3>3 DEF RenameAlone
  <2> QED BY <2>2, <2>3
<1>4. CASE QuickWork
  <2>1. rename' = rename
    BY <1>4, QuickWorkFrame
  <2>2. CASE rename = NoRename
    BY <2>1, <2>2 DEF RenameAlone
  <2>3. CASE rename # NoRename
    <3>1. saving = {} /\ work = <<>> /\ current = NoQuick /\ rename.job \in Jobs
          /\ \A q \in Quick : memory[q] = "none"
      BY <2>3 DEF QIInv, RenameAlone
    <3> QED BY <1>4, <2>3, <3>1 DEF QuickWork, QuickStep, Submit, SubmitAccepted, SubmitFails,
            Expire, Take, Begin, BeginFails, Processed, Publish, Purge, NoQuick
  <2> QED BY <2>2, <2>3
<1> QED BY <1>1, <1>2, <1>3, <1>4 DEF QuickNext, QuickWork

LEMMA DiesWholeStep ==
  ASSUME QIInv, QuickNext
  PROVE  DiesWhole'
<1>1. CASE Start \/ Ending
  BY <1>1 DEF Start, StartQueue, Ending, Shutdown, Close, Stop, DiesWhole
<1>2. CASE Dies
  BY <1>2 DEF Dies, Death, EndProcess, DiesWhole
<1>3. CASE phase # "down" /\ (QueueStep \/ QuickWork)
  <2>1. phase' = phase
    BY <1>3, QuickWorkFrame DEF QueueStep, QueueWork, User, Upload, Enqueue, KillJob,
       BeginDeletion, CompleteDeletion, RenameReads, Recover, Work, Receive, Claim, Skip,
       ClaimFails, MergeTracks, Finish, RenameSaves, ReadBacklog, QueueFault, ReadBacklogFails, CalmDown
  <2> QED BY <1>3, <2>1 DEF DiesWhole
<1>4. CASE phase = "down" /\ QueueStep
  <2>1. /\ channel = <<>> /\ owned = {} /\ recovery = NotRead /\ rename = NoRename
        /\ \A w \in Workers : worker[w] = Idle
    BY <1>4 DEF QIInv, DiesWhole
  <2>2. UNCHANGED <<queue, phase, rename>>
    BY <1>4, <2>1 DEF QueueStep, QueueWork, User, Upload, Enqueue, KillJob, BeginDeletion,
       CompleteDeletion, RenameReads, Recover, Work, Receive, Claim, Skip, ClaimFails,
       MergeTracks, Finish, RenameSaves, ReadBacklog, QueueFault, ReadBacklogFails, CalmDown,
       Alive, Serving, Admitted, NotRead, Idle, Processing
  <2> QED BY <1>4, <2>2, QuickFrame DEF QIInv, DiesWhole, queue
<1>5. CASE phase = "down" /\ QuickWork
  <2>1. saving = {} /\ work = <<>> /\ current = NoQuick /\ current.at = "idle"
    BY <1>5 DEF QIInv, DiesWhole, QuickState
  <2> QED BY <1>5, <2>1 DEF QuickWork, QuickStep, Submit, SubmitAccepted, SubmitFails, Expire,
          Take, Begin, BeginFails, Processed, Publish, Purge, Alive, Serving
<1> QED BY <1>1, <1>2, <1>3, <1>4, <1>5 DEF QuickNext, QuickWork
-----------------------------------------------------------------------------
(* The rows of quick jobs and of the queue's. *)

LEMMA QuickRowsStep ==
  ASSUME QIInv, QuickNext
  PROVE  QuickRows'
<1> DEFINE Held(q) == q \in saving \/ memory[q] = "pending"
                      \/ (current.at = "starting" /\ current.job = q)
           Its == current.at \in {"running", "purging"} \/ (current.at = "saving" /\ current.ok)
<1>1. CASE Start \/ Dies
  <2>1. saving' = {} /\ current'.at = "idle" /\ \A q \in Quick : memory'[q] # "pending"
    BY <1>1 DEF Start, StartQueue, Dies, DiesWhole, QIInv, NoQuick, Restored
  <2> QED BY <2>1 DEF QuickRows
<1>2. CASE Ending
  BY <1>2, QuickFrame DEF Ending, Shutdown, queue, QIInv, QuickRows
<1>3. CASE QueueStep
  <2>1. UNCHANGED <<memory, saving, current>>
    BY <1>3, QuickFrame
  <2>2. ASSUME NEW q \in Quick, Held(q) PROVE row'[q] = "absent" /\ q \notin owned'
    <3>1. row[q] = "absent" /\ q \notin owned /\ rename = NoRename /\ q \in Jobs
      BY <2>2, QuickAssumption DEF QIInv, QuickRows, RenameAlone, NoQuick
    <3> QED BY <1>3, <3>1 DEF QueueStep, QueueWork, User, Upload, Enqueue, KillJob,
            BeginDeletion, CompleteDeletion, RenameReads, Recover, Work, Receive, Claim, Skip,
            ClaimFails, MergeTracks, Finish, RenameSaves, ReadBacklog, QueueFault, ReadBacklogFails,
            CalmDown, queue, CanSchedule, CanClaim, CanDelete, SetStatus, QIInv, WorkersOwn, Processing,
            QuickType, QueueType
  <2>3. ASSUME Its PROVE row'[current.job] = "processing" /\ current.job \notin owned'
    <3>1. PICK q \in Quick : q = current.job
      BY <2>3 DEF QIInv, QuickState
    <3>2. row[q] = "processing" /\ q \notin owned /\ rename = NoRename /\ q \in Jobs
      BY <2>3, <3>1, QuickAssumption DEF QIInv, QuickRows, RenameAlone, NoQuick
    <3>3. row'[q] = "processing" /\ q \notin owned'
      BY <1>3, <3>2 DEF QueueStep, QueueWork, User, Upload, Enqueue, KillJob,
            BeginDeletion, CompleteDeletion, RenameReads, Recover, Work, Receive, Claim, Skip,
            ClaimFails, MergeTracks, Finish, RenameSaves, ReadBacklog, QueueFault, ReadBacklogFails,
            CalmDown, queue, CanSchedule, CanClaim, CanDelete, SetStatus, QIInv, WorkersOwn, Processing,
            QuickType, QueueType
    <3> QED BY <3>1, <3>3
  <2> QED BY <2>1, <2>2, <2>3 DEF QuickRows
<1>4. CASE QuickWork
  <2>1. owned' = owned
    BY <1>4, QuickWorkFrame DEF queue
  <2>2. ASSUME NEW q \in Quick, Submit(q) PROVE QuickRows'
    BY <2>1, <2>2, FreshFacts DEF Submit, QIInv, QuickRows, queueVars
  <2>3. ASSUME NEW q \in Quick, SubmitAccepted(q) \/ SubmitFails(q) PROVE QuickRows'
    BY <2>1, <2>3 DEF SubmitAccepted, SubmitFails, QIInv, QuickRows, QuickType, queueVars
  <2>4. ASSUME NEW q \in Quick, Expire(q) PROVE QuickRows'
    BY <2>1, <2>4, QuickAssumption DEF Expire, QIInv, QuickRows, QuickType, QueueType, NoQuick
  <2>5. CASE Take
    <3>1. PICK q \in Quick : q = Head(work)
      BY <2>5, HeadTailProperties DEF Take, QIInv, QuickType
    <3>2. current = NoQuick /\ current.at = "idle" /\ UNCHANGED <<row, saving>>
      BY <2>5 DEF Take, NoQuick, queueVars
    <3>3. CASE UNCHANGED <<memory, current>>
      BY <2>1, <3>2, <3>3 DEF QIInv, QuickRows
    <3>4. CASE /\ memory[q] # "none"
               /\ memory' = [memory EXCEPT ![q] = "processing"]
               /\ current' = [NoQuick EXCEPT !.job = q, !.at = "starting"]
      <4>1. current'.at = "starting" /\ current'.job = q
        BY <3>4 DEF NoQuick
      <4>2. memory[q] = "pending"
        <5>1. 1 \in 1 .. Len(work) /\ work[1] = q
          BY <2>5, <3>1, EmptySeq DEF Take, QIInv, QuickType
        <5> QED BY <3>4, <5>1 DEF QIInv, WorkWaits
      <4> QED BY <2>1, <3>2, <3>4, <4>1, <4>2 DEF QIInv, QuickRows, QuickType
    <3> QED BY <2>5, <3>1, <3>3, <3>4 DEF Take
  <2>6. CASE Begin \/ BeginFails \/ Processed \/ Publish \/ Purge
    <3>1. PICK q \in Quick : q = current.job
      BY <2>6 DEF Begin, BeginFails, Processed, Publish, Purge, QIInv, QuickState
    <3>2. q \in Jobs /\ \A p \in Quick \ {q} : current.job # p
      BY <3>1, QuickAssumption
    <3>3. CASE Begin
      <4>1. /\ row' = [row EXCEPT ![q] = "processing"] /\ row[q] = "absent" /\ q \notin owned
            /\ current' = [current EXCEPT !.at = "running"] /\ UNCHANGED <<memory, saving>>
            /\ current.at = "starting" /\ q \notin saving /\ memory[q] # "pending"
        BY <3>1, <3>3 DEF Begin, QIInv, QuickRows, QuickState
      <4> QED BY <2>1, <3>1, <3>2, <4>1 DEF QIInv, QuickRows, QuickType, QueueType
    <3>4. CASE BeginFails
      BY <2>1, <3>1, <3>4 DEF BeginFails, QIInv, QuickRows, QuickState, QuickType, queueVars
    <3>5. CASE Processed
      BY <2>1, <3>1, <3>5 DEF Processed, QIInv, QuickRows, QuickType, queueVars
    <3>6. CASE Publish
      <4>1. /\ current.at = "saving" /\ UNCHANGED <<row, saving>>
            /\ \A p \in Quick \ {q} : memory'[p] = memory[p]
            /\ memory'[q] \in {"completed", "failed"}
            /\ memory'[q] = "completed" => current.ok
        BY <3>1, <3>6 DEF Publish, Published, Result, QIInv, QuickType, queueVars
      <4>2. \/ memory'[q] = "completed" /\ current' = [current EXCEPT !.at = "purging"]
            \/ current' = NoQuick
        BY <3>1, <3>6 DEF Publish
      <4> QED BY <2>1, <3>1, <4>1, <4>2 DEF QIInv, QuickRows, QuickType, NoQuick
    <3>7. CASE Purge
      <4>1. /\ current.at = "purging" /\ UNCHANGED <<memory, saving>> /\ current' = NoQuick
            /\ \A p \in Quick \ {q} : row'[p] = row[p]
        BY <3>1, <3>2, <3>7, QuickAssumption DEF Purge, SetStatus, QIInv, QuickType, QueueType
      <4>2. q \notin saving /\ memory[q] # "pending"
        BY <3>1, <4>1 DEF QIInv, QuickState
      <4> QED BY <2>1, <3>1, <4>1, <4>2 DEF QIInv, QuickRows, NoQuick
    <3> QED BY <2>6, <3>3, <3>4, <3>5, <3>6, <3>7
  <2> QED BY <1>4, <2>2, <2>3, <2>4, <2>5, <2>6 DEF QuickWork, QuickStep
<1> QED BY <1>1, <1>2, <1>3, <1>4 DEF QuickNext, QuickWork

LEMMA WorkWaitsStep ==
  ASSUME QIInv, QuickNext
  PROVE  WorkWaits'
<1> USE DEF QIInv, QuickType, WorkWaits
<1>1. CASE QueueStep \/ Ending
  BY <1>1, QuickFrame
<1>2. CASE Start \/ Dies
  <2>1. work' = <<>>
    BY <1>2 DEF Start, StartQueue, Dies, DiesWhole
  <2> QED BY <2>1
<1>3. ASSUME NEW q \in Quick, Submit(q) PROVE WorkWaits'
  <2>1. \A i \in 1 .. Len(work) : work[i] # q
    BY <1>3, LenProperties DEF Submit, Fresh
  <2> QED BY <1>3, <2>1 DEF Submit
<1>4. ASSUME NEW q \in Quick, SubmitAccepted(q) PROVE WorkWaits'
  <2>1. /\ Len(work) \in Nat /\ Len(work') = Len(work) + 1 /\ work'[Len(work) + 1] = q
        /\ \A i \in 1 .. Len(work) : work'[i] = work[i] /\ work[i] # q
    BY <1>4, AppendProperties, LenProperties DEF SubmitAccepted
  <2>2. /\ saving' = saving \ {q} /\ memory' = [memory EXCEPT ![q] = "pending"]
    BY <1>4 DEF SubmitAccepted
  <2>3. \A i \in 1 .. Len(work') : i \in 1 .. Len(work) \/ i = Len(work) + 1
    BY <2>1
  <2>4. \A i \in 1 .. Len(work) : work[i] \in Quick
    BY ElementOfSeq
  <2>5. memory'[q] = "pending" /\ \A p \in Quick \ {q} : memory'[p] = memory[p]
    BY <2>2
  <2>6. ASSUME NEW i \in 1 .. Len(work')
        PROVE  work'[i] \notin saving' /\ memory'[work'[i]] \in {"none", "pending"}
    BY <2>1, <2>2, <2>3, <2>4, <2>5
  <2>7. ASSUME NEW i \in 1 .. Len(work'), NEW k \in 1 .. Len(work'), work'[k] = work'[i]
        PROVE  k = i
    BY <2>1, <2>3, <2>7
  <2> QED BY <2>6, <2>7
<1>5. ASSUME NEW q \in Quick, SubmitFails(q) PROVE WorkWaits'
  BY <1>5 DEF SubmitFails
<1>6. CASE Take
  <2>1. /\ Len(work) \in Nat \ {0} /\ Len(work') = Len(work) - 1 /\ work[1] = Head(work)
        /\ Head(work) \in Quick /\ \A i \in 1 .. Len(work') : work'[i] = work[i + 1]
    BY <1>6, HeadTailProperties, EmptySeq DEF Take
  <2>2. \A i \in 1 .. Len(work') : i + 1 \in 1 .. Len(work) /\ work'[i] # work[1]
    <3>1. 1 \in 1 .. Len(work) /\ \A i \in 1 .. Len(work') : i + 1 \in 1 .. Len(work) /\ i + 1 # 1
      BY <2>1
    <3> QED BY <2>1, <3>1
  <2>3. saving' = saving /\ \A p \in Quick : p # Head(work) => memory'[p] = memory[p]
    BY <1>6 DEF Take
  <2>4. ASSUME NEW i \in 1 .. Len(work')
        PROVE  work'[i] \notin saving' /\ memory'[work'[i]] \in {"none", "pending"}
    <3>1. i + 1 \in 1 .. Len(work) /\ work'[i] = work[i + 1] /\ work[i + 1] # Head(work)
      BY <2>1, <2>2
    <3>2. work[i + 1] \in Quick
      BY <3>1, ElementOfSeq
    <3> QED BY <2>3, <3>1, <3>2
  <2>5. ASSUME NEW i \in 1 .. Len(work'), NEW k \in 1 .. Len(work'), work'[k] = work'[i]
        PROVE  k = i
    <3>1. i + 1 = k + 1
      BY <2>1, <2>2, <2>5
    <3> QED BY <2>1, <3>1
  <2> QED BY <2>4, <2>5
<1>7. CASE Begin \/ BeginFails \/ Processed \/ Purge
  BY <1>7 DEF Begin, BeginFails, Processed, Purge
<1>8. CASE Publish
  <2>1. PICK q \in Quick : q = current.job
    BY <1>8 DEF Publish, QuickState
  <2>2. memory[q] = "processing" /\ UNCHANGED <<work, saving>>
        /\ \A p \in Quick \ {q} : memory'[p] = memory[p]
    BY <1>8, <2>1 DEF Publish, Published, QuickState
  <2>3. \A i \in 1 .. Len(work) : work[i] \in Quick \ {q}
    BY <2>2, ElementOfSeq
  <2> QED BY <2>2, <2>3
<1>9. ASSUME NEW q \in Quick, Expire(q) PROVE WorkWaits'
  <2>1. UNCHANGED <<work, saving>> /\ memory' \in {memory, [memory EXCEPT ![q] = "none"]}
    BY <1>9 DEF Expire
  <2>2. \A i \in 1 .. Len(work) : work[i] \in Quick
    BY ElementOfSeq
  <2> QED BY <2>1, <2>2
<1> QED BY <1>1, <1>2, <1>3, <1>4, <1>5, <1>6, <1>7, <1>8, <1>9 DEF QuickNext, QuickStep
-----------------------------------------------------------------------------
(* The queue's rows against its owners. *)

\* What the quick service does to a row: none of its own is owned by a worker
\* while it is processed or purged.
LEMMA QuickWorkRows ==
  ASSUME QIInv, QuickWork, NEW j \in Jobs
  PROVE  \/ row'[j] = row[j]
         \/ j \in Quick /\ row'[j] = "absent"
         \/ j \in Quick /\ row[j] = "absent" /\ row'[j] = "processing"
         \/ j \in Quick /\ row[j] = "processing" /\ row'[j] = "completed" /\ j \notin owned
<1>1. CASE UNCHANGED row
  BY <1>1
<1>2. CASE \E q \in Quick : Expire(q)
  BY <1>2, QuickAssumption DEF Expire, QIInv, QuickType, QueueType
<1>3. CASE Begin
  BY <1>3, QuickAssumption DEF Begin, QIInv, QuickType, QueueType, QuickState
<1>4. CASE Purge
  <2>1. PICK q \in Quick : q = current.job
    BY <1>4 DEF Purge, QIInv, QuickState
  <2>2. row[q] = "processing" /\ q \notin owned /\ q \in Jobs
    BY <1>4, <2>1, QuickAssumption DEF Purge, QIInv, QuickRows
  <2> QED BY <1>4, <2>1, <2>2 DEF Purge, SetStatus, QIInv, QuickType, QueueType
<1> QED BY <1>1, <1>2, <1>3, <1>4 DEF QuickWork, QuickStep, Submit, SubmitAccepted,
        SubmitFails, Take, BeginFails, Processed, Publish, queueVars

\* The worker that has merged the tracks of a row goes on to say so.
LEMMA MergedStays ==
  ASSUME NEW j \in Jobs, Merged(j), row'[j] = row[j],
         \A w \in Workers : worker[w].at = "merged" /\ worker[w].job = j => worker'[w] = worker[w]
  PROVE  Merged(j)'
<1>1. PICK w \in Workers : worker[w] = [at |-> "merged", job |-> j]
  BY DEF Merged
<1>2. worker[w].at = "merged" /\ worker[w].job = j
  BY <1>1
<1>3. worker'[w] = [at |-> "merged", job |-> j]
  BY <1>1, <1>2
<1> QED BY <1>3 DEF Merged

LEMMA OwnedStep ==
  ASSUME QIInv, QuickNext
  PROVE  OwnedUnlessPurged'
<1> USE DEF QIInv, QuickType, QueueType, OwnedUnlessPurged
<1>1. CASE Start \/ Dies
  <2>1. owned' = {}
    BY <1>1 DEF Start, StartQueue, Dies, Death, EndProcess, DiesWhole, queue
  <2> QED BY <2>1
<1>2. CASE Ending
  BY <1>2 DEF Ending, Shutdown, queue, Merged
<1>3. CASE QuickWork
  <2>1. UNCHANGED <<owned, renamed>>
    BY <1>3, QuickWorkFrame DEF queue
  <2>2. UNCHANGED worker
    BY <1>3, QuickWorkFrame DEF queue
  <2>3. ASSUME NEW j \in owned
        PROVE  \/ row'[j] = "processing" \/ Merged(j)' \/ j \in renamed
               \/ j \in Quick /\ row'[j] = "absent"
    <3>1. \/ row'[j] = row[j]
          \/ j \in Quick /\ row'[j] = "absent"
          \/ row'[j] = "processing"
      BY <1>3, QuickWorkRows
    <3> QED BY <2>2, <2>3, <3>1, MergedStays
  <2> QED BY <2>1, <2>3
<1>4. CASE QueueStep
  \* What is owned and keeps its row and its worker keeps what is said of it.
  <2>0. ASSUME NEW i \in owned, row'[i] = row[i], renamed \subseteq renamed',
               \A w \in Workers :
                 worker[w].at = "merged" /\ worker[w].job = i => worker'[w] = worker[w]
        PROVE  \/ row'[i] = "processing" \/ Merged(i)' \/ i \in renamed'
               \/ i \in Quick /\ row'[i] = "absent"
    BY <2>0, MergedStays
  <2>1. ASSUME NEW j \in Jobs, Upload(j) PROVE OwnedUnlessPurged'
    <3>1. row[j] = "absent" /\ row' = [row EXCEPT ![j] = "uploaded"]
          /\ UNCHANGED <<owned, renamed, worker>>
      BY <2>1 DEF Upload, queue
    <3>2. j \notin Quick
      BY <1>4, <3>1 DEF QueueStep
    <3>3. j \in owned => j \in renamed
      BY <3>1, <3>2 DEF Merged
    <3> QED BY <2>0, <3>1, <3>3
  <2>2. ASSUME NEW j \in Jobs, Enqueue(j) PROVE OwnedUnlessPurged'
    <3>1. /\ UNCHANGED <<owned, renamed, worker>> /\ j \notin owned
          /\ \A i \in Jobs \ {j} : row'[i] = row[i]
      BY <2>2 DEF Enqueue, Admitted
    <3> QED BY <2>0, <3>1
  <2>3. ASSUME NEW j \in Jobs, BeginDeletion(j) PROVE OwnedUnlessPurged'
    <3>1. /\ UNCHANGED <<owned, renamed, worker>> /\ j \notin owned
          /\ \A i \in Jobs \ {j} : row'[i] = row[i]
      BY <2>3 DEF BeginDeletion, queue
    <3> QED BY <2>0, <3>1
  <2>4. ASSUME NEW j \in Jobs, CompleteDeletion(j) PROVE OwnedUnlessPurged'
    <3>1. /\ UNCHANGED <<owned, renamed, worker>> /\ row[j] = "deleting"
          /\ \A i \in Jobs \ {j} : row'[i] = row[i]
      BY <2>4 DEF CompleteDeletion, queue
    <3>2. j \in owned => j \in renamed
      BY <3>1 DEF Merged
    <3> QED BY <2>0, <3>1, <3>2
  <2>5. ASSUME NEW w \in Workers, Claim(w) PROVE OwnedUnlessPurged'
    <3>1. PICK j \in Jobs : j = worker[w].job
      BY <2>5 DEF Claim, WorkersOwn
    <3>2. /\ owned' = owned \cup {j} /\ renamed' = renamed /\ row'[j] = "processing"
          /\ \A i \in Jobs \ {j} : row'[i] = row[i]
          /\ worker[w].at = "taken" /\ \A v \in Workers \ {w} : worker'[v] = worker[v]
      BY <2>5, <3>1 DEF Claim
    <3> QED BY <2>0, <3>2
  <2>6. ASSUME NEW w \in Workers, NEW written \in BOOLEAN, Finish(w, written)
        PROVE  OwnedUnlessPurged'
    <3>1. PICK j \in owned : j = worker[w].job
      BY <2>6 DEF Finish, WorkersOwn
    <3>2. owned' = owned \ {j} /\ renamed' = renamed
          /\ \A i \in Jobs \ {j} : row'[i] = row[i]
          /\ \A v \in Workers \ {w} : worker'[v] = worker[v]
      BY <2>6, <3>1 DEF Finish, SetStatus
    <3> QED BY <2>0, <3>1, <3>2
  <2>6a. ASSUME NEW w \in Workers, MergeTracks(w)
         PROVE  OwnedUnlessPurged'
    <3>1. PICK j \in owned : j = worker[w].job
      BY <2>6a DEF MergeTracks, WorkersOwn, Processing
    <3>2. /\ owned' = owned /\ renamed' = renamed /\ worker[w].at = "running"
          /\ row' = SetStatus(j, "completed")
          /\ worker' = [worker EXCEPT ![w].at = "merged"]
      BY <2>6a, <3>1 DEF MergeTracks
    <3>3. worker'[w] = [at |-> "merged", job |-> j] /\ \A v \in Workers \ {w} : worker'[v] = worker[v]
      BY <3>1, <3>2
    <3>4. \A i \in Jobs \ {j} : row'[i] = row[i]
      BY <3>2 DEF SetStatus
    <3>5. CASE row[j] \in {"absent", "deleted"}
      <4>1. row'[j] = row[j]
        BY <3>2, <3>5 DEF SetStatus
      <4>2. row[j] # "completed" /\ row[j] # "processing"
        BY <3>5
      <4>3. j \in renamed \/ (j \in Quick /\ row[j] = "absent")
        BY <4>2 DEF Merged
      <4> QED BY <2>0, <3>1, <3>2, <3>3, <3>4, <4>1, <4>3
    <3>6. CASE row[j] \notin {"absent", "deleted"}
      <4>1. row'[j] = "completed"
        BY <3>2, <3>6 DEF SetStatus
      <4>2. Merged(j)'
        BY <3>3, <4>1 DEF Merged
      <4> QED BY <2>0, <3>1, <3>2, <3>3, <3>4, <4>2
    <3> QED BY <3>5, <3>6
  <2>7. CASE RenameSaves
    <3>1. /\ row' = [row EXCEPT ![rename.job] = rename.status] /\ UNCHANGED <<owned, worker>>
          /\ renamed' = renamed \cup {j \in {rename.job} : row[j] # rename.status}
      BY <2>7 DEF RenameSaves, queue
    <3>2. \A i \in owned : row'[i] = row[i] \/ i \in renamed'
      BY <3>1
    <3> QED BY <2>0, <3>1, <3>2
  <2>8. CASE UNCHANGED <<row, owned, renamed, worker>>
    BY <2>8 DEF Merged
  <2>9. ASSUME NEW w \in Workers, Receive(w) \/ Skip(w) \/ ClaimFails(w)
        PROVE  OwnedUnlessPurged'
    <3>1. /\ UNCHANGED <<row, owned, renamed>> /\ worker[w].at # "merged"
          /\ \A v \in Workers \ {w} : worker'[v] = worker[v]
      BY <2>9 DEF Receive, Skip, ClaimFails, Idle
    <3> QED BY <2>0, <3>1
  <2> QED BY <1>4, <2>1, <2>2, <2>3, <2>4, <2>5, <2>6, <2>6a, <2>7, <2>8, <2>9
      DEF QueueStep, QueueWork, User, Work, QueueFault, KillJob, RenameReads, Recover,
          ReadBacklog, ReadBacklogFails, CalmDown, queue
<1> QED BY <1>1, <1>2, <1>3, <1>4 DEF QuickNext, QuickWork

LEMMA ProcessingStep ==
  ASSUME QIInv, QuickNext
  PROVE  ProcessingIsOwned'
<1> USE DEF QIInv, QuickType, QueueType, ProcessingIsOwned
<1>1. CASE Start
  BY <1>1 DEF Start, StartQueue, ResetZombies
<1>2. CASE Dies \/ Ending
  BY <1>2 DEF Dies, Death, EndProcess, Ending, Shutdown, Close, Stop
<1>3. CASE QuickWork
  <2>1. UNCHANGED <<owned, renamed, failed, phase>>
    BY <1>3, QuickWorkFrame DEF queue
  <2> QED BY <1>3, <2>1, QuickWorkRows
<1>4. CASE QueueStep
  <2>1. ASSUME NEW j \in Jobs,
               Upload(j) \/ Enqueue(j) \/ BeginDeletion(j) \/ CompleteDeletion(j)
        PROVE  ProcessingIsOwned'
    BY <2>1 DEF Upload, Enqueue, BeginDeletion, CompleteDeletion, queue
  <2>2. ASSUME NEW w \in Workers, Claim(w) PROVE ProcessingIsOwned'
    BY <2>2 DEF Claim, WorkersOwn
  <2>3. ASSUME NEW w \in Workers, NEW written \in BOOLEAN, Finish(w, written)
        PROVE  ProcessingIsOwned'
    <3>1. PICK j \in owned : j = worker[w].job
      BY <2>3 DEF Finish, WorkersOwn
    <3>2. owned' = owned \ {j} /\ UNCHANGED <<renamed, phase>>
          /\ \A i \in Jobs \ {j} : row'[i] = row[i]
      BY <2>3, <3>1 DEF Finish, SetStatus
    <3>3. row'[j] # "processing" \/ j \in failed'
      BY <2>3, <3>1 DEF Finish, SetStatus, Outcome
    <3>4. failed \subseteq failed'
      BY <2>3 DEF Finish
    <3> QED BY <3>2, <3>3, <3>4
  <2>3a. ASSUME NEW w \in Workers, MergeTracks(w)
         PROVE  ProcessingIsOwned'
    <3>1. PICK j \in owned : j = worker[w].job
      BY <2>3a DEF MergeTracks, WorkersOwn, Processing
    <3>2. UNCHANGED <<owned, failed, renamed, phase>> /\ \A i \in Jobs \ {j} : row'[i] = row[i]
      BY <2>3a, <3>1 DEF MergeTracks, SetStatus
    <3> QED BY <3>2
  <2>4. CASE RenameSaves
    <3>1. /\ row' = [row EXCEPT ![rename.job] = rename.status] /\ UNCHANGED <<owned, failed, phase>>
          /\ renamed' = renamed \cup {j \in {rename.job} : row[j] # rename.status}
      BY <2>4 DEF RenameSaves, queue
    <3> QED BY <3>1
  <2>5. CASE UNCHANGED <<row, owned, renamed, phase>> /\ failed \subseteq failed'
    BY <2>5
  <2> QED BY <1>4, <2>1, <2>2, <2>3, <2>3a, <2>4, <2>5
      DEF QueueStep, QueueWork, User, Work, QueueFault, KillJob, RenameReads, Recover,
          Receive, Skip, ClaimFails, ReadBacklog, ReadBacklogFails, CalmDown, queue
<1> QED BY <1>1, <1>2, <1>3, <1>4 DEF QuickNext, QuickWork

\* Where a pending job waits for a worker.
Waits(j) ==
  \/ j \in {channel[i] : i \in DOMAIN channel} \cup recovery.jobs \cup failed \cup renamed
  \/ ~recovery.read
  \/ \E w \in Workers : worker[w] = [at |-> "taken", job |-> j]

LEMMA PendingStep ==
  ASSUME QIInv, QuickNext
  PROVE  PendingIsKept'
<1> USE DEF QIInv, QuickType, QueueType, WorkersOwn
<1>1. (\A j \in Jobs : row'[j] = "pending" => Waits(j)') => PendingIsKept'
  BY DEF PendingIsKept, Waits
<1>2. CASE Start
  BY <1>2 DEF Start, StartQueue, DiesWhole, queue, NotRead, PendingIsKept
<1>3. CASE Dies \/ Ending
  BY <1>3 DEF Dies, Death, EndProcess, Ending, Shutdown, Close, Stop, PendingIsKept
<1>4. CASE QuickWork /\ phase = "up"
  <2>1. UNCHANGED <<channel, recovery, failed, renamed, worker, phase>>
    BY <1>4, QuickWorkFrame DEF queue
  <2>2. \A j \in Jobs : row[j] = "pending" => Waits(j)
    BY <1>4 DEF PendingIsKept, Waits
  <2> QED BY <1>1, <1>4, <2>1, <2>2, QuickWorkRows DEF Waits
<1>5. CASE QueueStep /\ phase = "up"
  <2>1. \A j \in Jobs : row[j] = "pending" => Waits(j)
    BY <1>5 DEF PendingIsKept, Waits
  <2>2. ASSUME NEW j \in Jobs, Upload(j) \/ BeginDeletion(j) \/ CompleteDeletion(j)
        PROVE  PendingIsKept'
    BY <1>1, <2>1, <2>2 DEF Upload, BeginDeletion, CompleteDeletion, queue, Waits
  <2>3. ASSUME NEW j \in Jobs, Append(channel, j) = channel'
        PROVE  /\ {channel[i] : i \in DOMAIN channel} \subseteq {channel'[i] : i \in DOMAIN channel'}
               /\ j \in {channel'[i] : i \in DOMAIN channel'}
    <3>1. /\ \A i \in 1 .. Len(channel) : channel'[i] = channel[i]
          /\ Len(channel') = Len(channel) + 1 /\ channel'[Len(channel) + 1] = j
          /\ Len(channel) \in Nat /\ DOMAIN channel = 1 .. Len(channel)
          /\ channel' \in Seq(Jobs)
      <4>1. /\ \A i \in 1 .. Len(channel) : Append(channel, j)[i] = channel[i]
            /\ Len(Append(channel, j)) = Len(channel) + 1
            /\ Append(channel, j)[Len(channel) + 1] = j /\ Append(channel, j) \in Seq(Jobs)
        BY AppendProperties
      <4> QED BY <2>3, <4>1, LenProperties
    <3>2. DOMAIN channel' = 1 .. Len(channel')
      BY <3>1, LenProperties
    <3>3. \A i \in DOMAIN channel : i \in DOMAIN channel' /\ channel'[i] = channel[i]
      BY <3>1, <3>2
    <3>4. Len(channel) + 1 \in DOMAIN channel'
      BY <3>1, <3>2
    <3> QED BY <3>1, <3>3, <3>4
  <2>4. ASSUME NEW j \in Jobs, Enqueue(j) PROVE PendingIsKept'
    <3>1. /\ channel' = Append(channel, j) /\ \A i \in Jobs \ {j} : row'[i] = row[i]
          /\ UNCHANGED <<recovery, failed, renamed, worker>>
      BY <2>4 DEF Enqueue
    <3> QED BY <1>1, <2>1, <2>3, <3>1 DEF Waits
  <2>5. ASSUME NEW j \in Jobs, Recover(j) PROVE PendingIsKept'
    <3>1. /\ recovery' = [read |-> recovery.read, jobs |-> recovery.jobs \ {j}]
          /\ UNCHANGED <<row, failed, renamed, worker>>
      BY <2>5 DEF Recover
    <3>2. CASE channel' = Append(channel, j)
      BY <1>1, <2>1, <2>3, <3>1, <3>2 DEF Waits
    <3>3. CASE j \in owned /\ channel' = channel
      <4>1. row[j] = "pending" => j \in renamed
        BY <3>3 DEF OwnedUnlessPurged, Merged
      <4> QED BY <1>1, <2>1, <3>1, <3>3, <4>1 DEF Waits
    <3> QED BY <1>5, <2>5, <3>2, <3>3 DEF Recover, Serving
  <2>6. ASSUME NEW w \in Workers, Receive(w) PROVE PendingIsKept'
    <3>1. PICK j \in Jobs : j = Head(channel)
      BY <2>6, HeadTailProperties DEF Receive
    <3>2. /\ Len(channel) \in Nat \ {0} /\ channel' \in Seq(Jobs) /\ channel[1] = j
          /\ Len(channel') = Len(channel) - 1 /\ DOMAIN channel = 1 .. Len(channel)
          /\ \A i \in 1 .. Len(channel') : channel'[i] = channel[i + 1]
      BY <2>6, <3>1, HeadTailProperties, EmptySeq, LenProperties DEF Receive
    <3>3. DOMAIN channel' = 1 .. Len(channel')
      BY <3>2, LenProperties
    <3>4. \A i \in DOMAIN channel : channel[i] # j => \E k \in DOMAIN channel' : channel'[k] = channel[i]
      <4>1. ASSUME NEW i \in 1 .. Len(channel), channel[i] # j
            PROVE  i - 1 \in 1 .. Len(channel') /\ channel'[i - 1] = channel[i]
        BY <3>2, <4>1
      <4> QED BY <3>2, <3>3, <4>1
    <3>5. /\ worker[w] = Idle /\ worker' = [worker EXCEPT ![w] = [at |-> "taken", job |-> j]]
          /\ UNCHANGED <<row, recovery, failed, renamed>>
      BY <2>6, <3>1 DEF Receive
    <3>6. worker'[w] = [at |-> "taken", job |-> j] /\ worker[w].at = "idle"
          /\ \A v \in Workers \ {w} : worker'[v] = worker[v]
      BY <3>5 DEF Idle
    <3>7. ASSUME NEW i \in Jobs, row[i] = "pending" PROVE Waits(i)'
      <4>1. CASE i = j
        BY <3>6, <4>1 DEF Waits
      <4>2. CASE i # j
        <5>1. Waits(i)
          BY <2>1, <3>7
        <5> QED BY <3>4, <3>5, <3>6, <4>2, <5>1 DEF Waits
      <4> QED BY <4>1, <4>2
    <3> QED BY <1>1, <3>5, <3>7
  <2>7. ASSUME NEW w \in Workers, Claim(w) \/ Skip(w) \/ ClaimFails(w) \/ Finish(w, TRUE)
               \/ Finish(w, FALSE) \/ MergeTracks(w)
        PROVE  PendingIsKept'
    <3>1. PICK j \in Jobs : j = worker[w].job
      BY <2>7 DEF Claim, Skip, ClaimFails, MergeTracks, Finish
    <3>2. /\ \A v \in Workers \ {w} : worker'[v] = worker[v]
          /\ UNCHANGED <<channel, recovery, renamed>> /\ failed \subseteq failed'
      BY <2>7 DEF Claim, Skip, ClaimFails, MergeTracks, Finish
    <3>3. \A i \in Jobs \ {j} : row'[i] = row[i]
      BY <2>7, <3>1 DEF Claim, Skip, ClaimFails, MergeTracks, Finish, SetStatus
    <3>4. \A i \in Jobs \ {j} : row[i] = "pending" => Waits(i)'
      <4>1. ASSUME NEW i \in Jobs \ {j}, NEW v \in Workers,
                   worker[v] = [at |-> "taken", job |-> i]
            PROVE  worker'[v] = [at |-> "taken", job |-> i]
        <5>1. worker[v].job = i
          BY <4>1
        <5> QED BY <3>1, <3>2, <4>1, <5>1
      <4>2. \A i \in Jobs : row[i] = "pending" => Waits(i)
        BY <2>1
      <4>3. ASSUME NEW i \in Jobs \ {j}, row[i] = "pending" PROVE Waits(i)'
        <5>1. CASE \E v \in Workers : worker[v] = [at |-> "taken", job |-> i]
          BY <4>1, <5>1 DEF Waits
        <5>2. CASE i \in {channel[k] : k \in DOMAIN channel} \cup recovery.jobs \cup failed
                          \cup renamed
                   \/ ~recovery.read
          BY <3>2, <5>2 DEF Waits
        <5> QED BY <4>2, <4>3, <5>1, <5>2 DEF Waits
      <4> QED BY <4>3
    <3>5. row'[j] = "pending" => Waits(j)'
      <4>1. CASE Claim(w)
        BY <3>1, <4>1 DEF Claim
      <4>2. CASE Skip(w)
        BY <1>5, <3>1, <3>2, <4>2 DEF Skip, Serving, CanClaim, OwnedUnlessPurged, Merged, Waits
      <4>3. CASE ClaimFails(w)
        BY <3>1, <4>3 DEF ClaimFails, Waits
      <4>4. CASE Finish(w, TRUE) \/ Finish(w, FALSE)
        <5>1. j \in owned /\ Processing(w)
          BY <3>1, <4>4 DEF Finish
        <5>2. row'[j] = "pending" => row[j] = "pending"
          BY <3>1, <4>4 DEF Finish, SetStatus, Outcome
        <5> QED BY <3>2, <5>1, <5>2 DEF OwnedUnlessPurged, Merged, Waits
      <4>5. CASE MergeTracks(w)
        <5>1. j \in owned
          BY <3>1, <4>5 DEF MergeTracks, Processing
        <5>2. row'[j] = "pending" => row[j] = "pending"
          BY <3>1, <4>5 DEF MergeTracks, SetStatus
        <5> QED BY <3>2, <5>1, <5>2 DEF OwnedUnlessPurged, Merged, Waits
      <4> QED BY <2>7, <4>1, <4>2, <4>3, <4>4, <4>5
    <3> QED BY <1>1, <3>3, <3>4, <3>5
  <2>8. CASE RenameSaves
    <3>1. /\ row' = [row EXCEPT ![rename.job] = rename.status]
          /\ UNCHANGED <<channel, recovery, worker, failed>>
          /\ renamed' = renamed \cup {j \in {rename.job} : row[j] # rename.status}
      BY <2>8 DEF RenameSaves, queue
    <3>2. \A j \in Jobs : row'[j] = row[j] \/ j \in renamed'
      BY <3>1
    <3>3. renamed \subseteq renamed'
      BY <3>1
    <3> QED BY <1>1, <2>1, <3>1, <3>2, <3>3 DEF Waits
  <2>9. CASE ReadBacklog \/ ReadBacklogFails
    <3>1. row' = row /\ \A j \in Jobs : row[j] = "pending" => j \in recovery'.jobs \cup failed'
      BY <2>9 DEF ReadBacklog, ReadBacklogFails
    <3> QED BY <1>1, <3>1 DEF Waits
  <2>10. CASE UNCHANGED <<row, channel, recovery, worker, failed, renamed>>
    BY <1>1, <2>1, <2>10 DEF Waits
  <2> QED BY <1>5, <2>2, <2>4, <2>5, <2>6, <2>7, <2>8, <2>9, <2>10
      DEF QueueStep, QueueWork, User, Work, QueueFault, KillJob, RenameReads, CalmDown, queue
<1>6. CASE (QuickWork \/ QueueStep) /\ phase # "up"
  <2>1. phase' = phase
    BY <1>6, QuickWorkFrame DEF QueueStep, QueueWork, User, Upload, Enqueue, KillJob,
       BeginDeletion, CompleteDeletion, RenameReads, Recover, Work, Receive, Claim, Skip,
       ClaimFails, MergeTracks, Finish, RenameSaves, ReadBacklog, QueueFault, ReadBacklogFails, CalmDown
  <2> QED BY <1>6, <2>1 DEF PendingIsKept
<1> QED BY <1>2, <1>3, <1>4, <1>5, <1>6 DEF QuickNext, QuickWork
-----------------------------------------------------------------------------
(* What the theorems rest on. *)

LEMMA QuickInitIInv ==
  ASSUME QuickInit
  PROVE  QIInv
<1> USE DEF QuickInit, QueueInit
<1>1. QuickType
  <2>1. QueueType
    <3>1. channel \in Seq(Jobs) /\ Len(channel) <= Capacity
      BY EmptySeq, QueueAssumption
    <3>2. worker \in [Workers -> [at : {"idle", "taken", "running", "merged"}, job : Jobs \cup {NoJob}]]
      BY DEF Idle
    <3>3. recovery \in [read : BOOLEAN, jobs : SUBSET Jobs]
          /\ rename \in [job : Jobs \cup {NoJob}, status : Statuses]
          /\ row \in [Jobs -> Statuses]
      BY DEF NotRead, NoRename, Statuses
    <3> QED BY <3>1, <3>2, <3>3 DEF QueueType
  <2>2. work \in Seq(Quick) /\ slots \in 0 .. Slots
    BY EmptySeq, QuickAssumption
  <2>3. current \in [job : Quick \cup {NoJob}, ok : BOOLEAN,
                     at : {"idle", "starting", "running", "saving", "purging"}]
    BY DEF NoQuick
  <2>4. memory \in [Quick -> QuickStatuses] /\ manifest \in [Quick -> QuickStatuses]
    BY DEF QuickStatuses
  <2> QED BY <2>1, <2>2, <2>3, <2>4 DEF QuickType
<1>2. WorkersOwn /\ OwnedUnlessPurged
  BY DEF WorkersOwn, OneExecution, Processing, OwnedUnlessPurged, Idle
<1>3. QuickRows /\ QuickState /\ QuickIsDurable
  BY DEF QuickRows, QuickState, QuickIsDurable, NoQuick
<1>4. WorkWaits
  BY EmptySeq DEF WorkWaits
<1>5. SlotsCounted
  BY FS_EmptySet, EmptySeq DEF SlotsCounted, NoQuick
<1>6. RenameAlone /\ DiesWhole /\ PendingIsKept /\ ProcessingIsOwned
  BY DEF RenameAlone, DiesWhole, PendingIsKept, ProcessingIsOwned
<1> QED BY <1>1, <1>2, <1>3, <1>4, <1>5, <1>6 DEF QIInv

LEMMA QuickNextIInv ==
  ASSUME QIInv, QuickNext
  PROVE  QIInv'
<1>1. QuickType'
  <2>1. CASE QueueStep
    <3>1. QueueType'
      BY <2>1, QueueStepType DEF QueueStep, QIInv, QuickType
    <3> QED BY <2>1, <3>1, QuickFrame DEF QIInv, QuickType
  <2>2. CASE QuickWork
    BY <2>2, SlotsStep, QuickStepType
  <2>3. CASE Start \/ Ending \/ Dies
    BY <2>3, ProcessType DEF QIInv
  <2> QED BY <2>1, <2>2, <2>3 DEF QuickNext, QuickWork
<1>2. WorkersOwn'
  BY WorkersOwnStep DEF QIInv
<1> QED BY <1>1, <1>2, SlotsStep, QuickStateStep, WorkWaitsStep, RenameAloneStep,
           DiesWholeStep, QuickRowsStep, OwnedStep, PendingStep, ProcessingStep DEF QIInv

LEMMA QuickStutterIInv ==
  ASSUME QIInv, UNCHANGED quickVars
  PROVE  QIInv'
<1>1. UNCHANGED <<row, channel, worker, owned, cancelled, recovery, phase, rename, failed,
                  renamed, calm, memory, manifest, saving, work, slots, current>>
  BY DEF quickVars, queueVars, queue, quick
<1>2. QuickType' /\ WorkersOwn' /\ QuickRows' /\ QuickState' /\ WorkWaits'
  BY <1>1 DEF QIInv, QuickType, QueueType, WorkersOwn, OneExecution, Processing, QuickRows,
     QuickState, WorkWaits
<1>3. RenameAlone' /\ DiesWhole' /\ SlotsCounted' /\ QuickIsDurable'
  BY <1>1 DEF QIInv, RenameAlone, DiesWhole, SlotsCounted, QuickIsDurable
<1>4. OwnedUnlessPurged' /\ PendingIsKept' /\ ProcessingIsOwned'
  BY <1>1 DEF QIInv, OwnedUnlessPurged, Merged, PendingIsKept, ProcessingIsOwned
<1> QED BY <1>2, <1>3, <1>4 DEF QIInv

\* The unfinished jobs are in the hands of a submission, of the channel or of
\* the goroutine, and each of those has its slot.
LEMMA QuickIsBoundedFact == QIInv => QuickIsBounded
<1> SUFFICES ASSUME QIInv PROVE QuickIsBounded
  OBVIOUS
<1> DEFINE R == {work[i] : i \in 1 .. Len(work)}
           B == IF current.at = "idle" THEN {} ELSE {current.job}
           b == IF current.at = "idle" THEN 0 ELSE 1
           U == {q \in Quick : memory[q] \in {"pending", "processing"}} \cup saving
<1>1. Len(work) \in Nat /\ slots \in 0 .. Slots /\ Slots \in Nat
      /\ IsFiniteSet(saving) /\ slots = Cardinality(saving) + Len(work) + b
  BY LenProperties, QuickAssumption DEF QIInv, QuickType, SlotsCounted
<1>2. IsFiniteSet(R) /\ Cardinality(R) <= Len(work) /\ Cardinality(R) \in Nat
  <2>1. work \in Surjection(1 .. Len(work), R)
    <3>1. work \in [1 .. Len(work) -> R]
      BY LenProperties DEF QIInv, QuickType
    <3> QED BY <3>1 DEF Surjection
  <2>2. IsFiniteSet(1 .. Len(work)) /\ Cardinality(1 .. Len(work)) = Len(work)
    <3>1. PICK n \in Nat : n = Len(work)
      BY <1>1
    <3>2. IsFiniteSet(1 .. n) /\ Cardinality(1 .. n) = IF 1 > n THEN 0 ELSE n - 1 + 1
      BY FS_Interval
    <3> QED BY <3>1, <3>2
  <2> HIDE DEF R
  <2> QED BY <2>1, <2>2, FS_Surjection, FS_CardinalityType
<1>3. IsFiniteSet(B) /\ Cardinality(B) = b
  BY FS_EmptySet, FS_Singleton
<1>4. U \subseteq saving \cup R \cup B
  <2>1. ASSUME NEW q \in Quick, memory[q] = "pending" PROVE q \in R
    BY <2>1 DEF QIInv, QuickState
  <2>2. ASSUME NEW q \in Quick, memory[q] = "processing" PROVE q \in B
    <3>1. current.job = q
      BY <2>2 DEF QIInv, QuickState
    <3>2. current # NoQuick
      BY <3>1, QuickAssumption, QueueAssumption DEF NoQuick
    <3> QED BY <3>1, <3>2 DEF QIInv, QuickState
  <2> QED BY <2>1, <2>2
<1> HIDE DEF R, B, U, b
<1>5. /\ IsFiniteSet(saving \cup R) /\ IsFiniteSet(saving \cup R \cup B)
      /\ Cardinality(saving \cup R) <= Cardinality(saving) + Cardinality(R)
      /\ Cardinality(saving \cup R \cup B) <= Cardinality(saving \cup R) + Cardinality(B)
  <2>1. ASSUME NEW S, NEW T, IsFiniteSet(S), IsFiniteSet(T)
        PROVE  IsFiniteSet(S \cup T) /\ Cardinality(S \cup T) <= Cardinality(S) + Cardinality(T)
    <3>1. /\ IsFiniteSet(S \cup T)
          /\ Cardinality(S \cup T) = Cardinality(S) + Cardinality(T) - Cardinality(S \cap T)
      BY <2>1, FS_Union
    <3>2. Cardinality(S \cap T) \in Nat /\ Cardinality(S) \in Nat /\ Cardinality(T) \in Nat
      BY <2>1, FS_Intersection, FS_CardinalityType
    <3> QED BY <3>1, <3>2
  <2> QED BY <1>1, <1>2, <1>3, <2>1
<1>6. Cardinality(U) <= Cardinality(saving \cup R \cup B) /\ IsFiniteSet(U)
  BY <1>4, <1>5, FS_Subset
<1>7. /\ Cardinality(U) \in Nat /\ Cardinality(saving \cup R) \in Nat
      /\ Cardinality(saving \cup R \cup B) \in Nat /\ Cardinality(saving) \in Nat
  BY <1>1, <1>5, <1>6, FS_CardinalityType
<1>8. Cardinality(U) <= slots /\ Len(work) <= slots
  BY <1>1, <1>2, <1>3, <1>5, <1>6, <1>7 DEF b
<1> QED BY <1>1, <1>7, <1>8 DEF QuickIsBounded, U

\* A job leaves its worker when the worker is done, or with the process.
LEMMA OwnersLeave ==
  ASSUME QIInv, QuickNext, NEW j \in owned, j \notin owned'
  PROVE  \/ Dies
         \/ \E w \in Workers, written \in BOOLEAN : Finish(w, written) /\ worker[w].job = j
<1>1. CASE QuickWork
  BY <1>1, QuickWorkFrame DEF queue
<1>2. CASE Start \/ Ending
  BY <1>2 DEF Start, StartQueue, Ending, Shutdown, queue
<1>3. CASE QueueStep
  BY <1>3 DEF QueueStep, QueueWork, User, Upload, Enqueue, KillJob, BeginDeletion,
     CompleteDeletion, RenameReads, Recover, Work, Receive, Claim, Skip, ClaimFails,
     MergeTracks, Finish, RenameSaves, ReadBacklog, QueueFault, ReadBacklogFails, CalmDown, queue
<1> QED BY <1>1, <1>2, <1>3 DEF QuickNext, QuickWork

\* A kill that was accepted ends as "completed" only if the process dies after
\* the merge of its tracks, the last write fails or a rename says so.
LEMMA KillFact ==
  ASSUME QIInv, QuickNext, NEW j \in cancelled, row'[j] = "completed"
  PROVE  \/ j \in owned' /\ Merged(j)'
         \/ Merged(j) /\ (phase' = "down" \/ j \in failed')
         \/ j \in renamed \cup renamed'
<1>1. j \in owned /\ j \in Jobs
  BY DEF QIInv, WorkersOwn, QuickType, QueueType
<1>2. CASE j \in owned'
  BY <1>2, OwnedStep DEF OwnedUnlessPurged
<1>3. CASE j \notin owned'
  <2>1. row[j] = "completed" => Merged(j) \/ j \in renamed
    BY <1>1 DEF QIInv, OwnedUnlessPurged
  <2>2. CASE Dies
    BY <2>1, <2>2 DEF Dies, Death, EndProcess
  <2>3. ASSUME NEW w \in Workers, NEW written \in BOOLEAN, Finish(w, written), worker[w].job = j
        PROVE  row'[j] = row[j] /\ j \in failed'
    <3>1. /\ failed' = (IF written THEN failed ELSE failed \cup {j})
          /\ \E ok \in BOOLEAN : row' = IF written THEN SetStatus(j, Outcome(j, ok)) ELSE row
      BY <2>3 DEF Finish
    <3>2. \A ok \in BOOLEAN : Outcome(j, ok) = "failed"
      BY DEF Outcome
    <3>3. row \in [Jobs -> Statuses]
      BY DEF QIInv, QuickType, QueueType
    <3>4. SetStatus(j, "failed")[j] # "completed"
      BY <1>1, <3>3 DEF SetStatus
    <3>5. ~written
      BY <3>1, <3>2, <3>4
    <3> QED BY <3>1, <3>5
  <2> QED BY <1>1, <1>3, <2>1, <2>2, <2>3, OwnersLeave
<1> QED BY <1>2, <1>3

\* A deletion that began is not taken back, but by a rename.
LEMMA DeletionFact ==
  ASSUME QIInv, QuickNext
  PROVE  \A j \in Jobs :
           row[j] \in {"deleting", "deleted"}
             /\ row'[j] \notin {"deleting", "deleted", "absent"} => j \in renamed'
<1> USE DEF QIInv, QuickType, QueueType
<1>2. CASE QuickWork
  BY <1>2, QuickWorkRows
<1>3. CASE UNCHANGED row
  BY <1>3
<1>4. CASE Start
  BY <1>4 DEF Start, StartQueue, ResetZombies
<1>5. ASSUME NEW j \in Jobs,
             Upload(j) \/ Enqueue(j) \/ BeginDeletion(j) \/ CompleteDeletion(j)
      PROVE  \A i \in Jobs : row'[i] = row[i] \/ row'[i] \in {"deleting", "deleted"}
               \/ row[i] \notin {"deleting", "deleted"}
  BY <1>5 DEF Upload, Enqueue, BeginDeletion, CompleteDeletion, CanSchedule
<1>6. ASSUME NEW w \in Workers, Claim(w)
      PROVE  \A i \in Jobs : row'[i] = row[i] \/ row[i] \notin {"deleting", "deleted"}
  BY <1>6 DEF Claim, CanClaim, WorkersOwn
<1>7. ASSUME NEW w \in Workers, NEW written \in BOOLEAN, Finish(w, written) \/ MergeTracks(w)
      PROVE  \A i \in Jobs : row'[i] = row[i] \/ i \in renamed'
               \/ row[i] \notin {"deleting", "deleted"}
  <2>1. PICK j \in owned : j = worker[w].job
    BY <1>7 DEF Finish, MergeTracks, WorkersOwn, Processing
  <2>2. row[j] \notin {"deleting", "deleted"} \/ j \in renamed
    BY <2>1 DEF OwnedUnlessPurged, Merged
  <2>3. renamed' = renamed /\ \A i \in Jobs \ {j} : row'[i] = row[i]
    BY <1>7, <2>1 DEF Finish, MergeTracks, SetStatus
  <2> QED BY <2>2, <2>3
<1>8. CASE RenameSaves
  <2>1. /\ row' = [row EXCEPT ![rename.job] = rename.status]
        /\ renamed' = renamed \cup {j \in {rename.job} : row[j] # rename.status}
    BY <1>8 DEF RenameSaves
  <2> QED BY <2>1
<1> QED BY <1>2, <1>3, <1>4, <1>5, <1>6, <1>7, <1>8
    DEF QuickNext, QuickWork, QueueStep, QueueWork, User, Work, QueueFault, KillJob,
        RenameReads, Recover, Receive, Skip, ClaimFails, ReadBacklog, ReadBacklogFails,
        CalmDown, Ending, Shutdown, Dies, Death, EndProcess
=============================================================================
