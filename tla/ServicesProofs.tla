--------------------------- MODULE ServicesProofs ---------------------------
(***************************************************************************)
(* Theorems about Services for any set of recordings, requests, jobs,      *)
(* workers, streams and callers, and any size of their channels.           *)
(***************************************************************************)
EXTENDS Services, TaskQueueProofs

\* A step of the services is a step of each part, or leaves it as it is.
LEMMA PartsStep ==
  ASSUME [ServicesNext]_servicesVars
  PROVE  [RecorderNext]_recorderVars /\ [QuickNext]_quickVars /\ [StreamsNext]_streamVars
BY DEF ServicesNext, OfRecorder, OfQueue, OfStreams, servicesVars
-----------------------------------------------------------------------------
(* The task queue and the quick transcriptions. *)

LEMMA QueueStepIInv ==
  QIInv /\ [ServicesNext]_servicesVars => QIInv'
BY PartsStep, QuickNextIInv, QuickStutterIInv

\* The inductive invariant of the queue and the quick service.
THEOREM QueueInvariance == ServicesSpec => []QIInv
<1>1. ServicesInit => QIInv
  BY QuickInitIInv DEF ServicesInit
<1> QED BY <1>1, QueueStepIInv, PTL DEF ServicesSpec

\* No job is executed twice at a time, and none is taken from its worker but by
\* the merge of its own tracks, which ends its row early, a purge or a rename,
\* for any number of workers and every order of kills, deletions and renames.
THEOREM OneOwner == ServicesSpec => []JobsHaveOneOwner
<1>1. QIInv => JobsHaveOneOwner
  BY DEF QIInv, WorkersOwn, JobsHaveOneOwner
<1> QED BY <1>1, QueueInvariance, PTL

\* A row that says pending or processing is known to the process that serves
\* it, unless the database failed or a rename wrote an older row back.
THEOREM NoJobIsForgotten == ServicesSpec => []JobsAreKept
<1>1. QIInv => JobsAreKept
  BY DEF QIInv, JobsAreKept
<1> QED BY <1>1, QueueInvariance, PTL

\* A quick result that was published is durable, and neither the work channel
\* nor the audio of unfinished jobs outgrows the slots.
THEOREM QuickStaysSound == ServicesSpec => []QuickIsSound
<1>1. QIInv => QuickIsSound
  BY QuickIsBoundedFact DEF QIInv, QuickIsSound
<1> QED BY <1>1, QueueInvariance, PTL

\* A deletion that was accepted is final, and a kill ends as "completed" only
\* when the process dies, or its last write fails, after the job's tracks were
\* merged.
THEOREM VerdictsAreFinal == ServicesSpec => VerdictsStand
<1> DEFINE K == \A j \in cancelled : row'[j] = "completed" =>
                  \/ j \in owned' /\ Merged(j)'
                  \/ Merged(j) /\ (phase' = "down" \/ j \in failed')
                  \/ j \in renamed \cup renamed'
           D == \A j \in Jobs :
                  row[j] \in {"deleting", "deleted"}
                    /\ row'[j] \notin {"deleting", "deleted", "absent"} => j \in renamed'
<1>1. ASSUME QIInv, [ServicesNext]_servicesVars
      PROVE  [K]_queueVars /\ [D]_queueVars
  <2>1. CASE QuickNext
    BY <1>1, <2>1, KillFact, DeletionFact
  <2>2. CASE UNCHANGED quickVars
    BY <2>2 DEF quickVars
  <2> QED BY <1>1, <2>1, <2>2, PartsStep
<1> QED BY <1>1, QueueInvariance, PTL DEF ServicesSpec, VerdictsStand, KilledNeverCompletes, DeletedStays
-----------------------------------------------------------------------------
(***************************************************************************)
(* The board's recorder.  One holder of the lock at a time, nobody active  *)
(* while it is held, and every holder works on a row that still records.   *)
(***************************************************************************)
LockExclusive ==
  /\ ~LockFree => active = NoRecording
  /\ spawning # NoRecording =>
       /\ \A j \in Recordings : watcher[j] # "finishing"
       /\ \A s \in Stops : stops[s].at \notin HoldsLock
  /\ \A i, j \in Recordings : watcher[i] = "finishing" /\ watcher[j] = "finishing" => i = j
  /\ \A j \in Recordings, s \in Stops : watcher[j] = "finishing" => stops[s].at \notin HoldsLock
  /\ \A s, t \in Stops : stops[s].at \in HoldsLock /\ stops[t].at \in HoldsLock => s = t
  /\ \A s \in Stops : stops[s].at # "none" => stops[s].job \in Recordings

HoldersRecord ==
  \A j \in Recordings :
    active = j \/ spawning = j \/ watcher[j] = "finishing" \/ IsStopping(j)
      => recording[j].stage = "recording"

ProcessFollows ==
  \A j \in Recordings :
    /\ recording[j].stage = "absent" \/ spawning = j => process[j] = "none"
    /\ process[j] = "none" => watcher[j] = "none"
    /\ watcher[j] \in {"locking", "finishing"} => process[j] # "running"
    /\ \A s \in Stops : stops[s].job = j /\ stops[s].at = "finishing" => process[j] # "running"

RIInv ==
  /\ RecorderType /\ LockExclusive /\ HoldersRecord /\ ProcessFollows
  /\ RecordingIsOwned /\ SourceIsClosed

LEMMA FinishRecordingType ==
  ASSUME NEW r \in Rows, NEW error \in BOOLEAN, NEW hasBytes \in BOOLEAN
  PROVE  FinishRecording(r, error, hasBytes) \in Rows
         /\ FinishRecording(r, error, hasBytes).stage \in {"failed", "queued"}
BY DEF FinishRecording, Rows, Stages, RemoteStages

LEMMA FinishedRowType ==
  ASSUME RecorderType, NEW j \in Recordings, NEW error \in BOOLEAN
  PROVE  /\ FinishedRow(j, error) \in [Recordings -> Rows]
         /\ FinishedRow(j, error)[j].stage \in {"failed", "queued"}
         /\ \A i \in Recordings \ {j} : FinishedRow(j, error)[i] = recording[i]
<1>1. FinishRecording(recording[j], error, j \in audio) \in Rows
      /\ FinishRecording(recording[j], error, j \in audio).stage \in {"failed", "queued"}
  <2>1. recording[j] \in Rows /\ (j \in audio) \in BOOLEAN
    BY DEF RecorderType
  <2> QED BY <2>1, FinishRecordingType
<1> QED BY <1>1 DEF RecorderType, FinishedRow

LEMMA RecorderStepType ==
  ASSUME RIInv, RecorderNext
  PROVE  RecorderType'
<1> USE DEF RIInv
<1>1. ASSUME NEW j \in Recordings, StartBegins(j) PROVE RecorderType'
  <2>1. CreateRow(recording[j], TRUE) \in Rows
    BY DEF RecorderType, CreateRow, Rows, Stages, RemoteStages
  <2> QED BY <1>1, <2>1 DEF StartBegins, RecorderType
<1>2. ASSUME NEW j \in Recordings, StartEnds(j) PROVE RecorderType'
  <2>1. recording' \in [Recordings -> Rows]
    BY <1>2, FinishedRowType DEF StartEnds, StartSpawns, StartFails, RecorderType
  <2> QED BY <1>2, <2>1 DEF StartEnds, StartSpawns, StartFails, RecorderType
<1>3. ASSUME NEW j \in Recordings, Capture(j) \/ ProcessEnds(j) PROVE RecorderType'
  BY <1>3 DEF Capture, ProcessEnds, RecorderType
<1>4. ASSUME NEW j \in Recordings, Watcher(j) \/ WatcherLocks(j) PROVE RecorderType'
  <2>1. recording' \in [Recordings -> Rows]
    <3>1. CASE WatcherFinishes(j)
      <4>1. PICK error \in BOOLEAN : recording' = FinishedRow(j, error)
        BY <3>1 DEF WatcherFinishes
      <4> QED BY <4>1, FinishedRowType
    <3>2. CASE ~WatcherFinishes(j)
      <4>1. recording' = recording
        BY <1>4, <3>2 DEF Watcher, WatcherWakes, WatcherRaises, WatcherCancelled, WatcherLocks
      <4> QED BY <4>1 DEF RecorderType
    <3> QED BY <3>1, <3>2
  <2> QED BY <1>4, <2>1 DEF Watcher, WatcherWakes, WatcherFinishes, WatcherRaises,
          WatcherCancelled, WatcherLocks, RecorderType
<1>5. ASSUME NEW j \in Recordings, DeliverRecording(j) PROVE RecorderType'
  <2>1. [recording[j] EXCEPT !.stage = "completed"] \in Rows
    BY DEF RecorderType, Rows, Stages, RemoteStages
  <2> QED BY <1>5, <2>1 DEF DeliverRecording, RecorderType
<1>6. ASSUME NEW s \in Stops, StopLocks(s) \/ StopGoesOn(s)
             \/ \E j \in Recordings : StopArrives(s, j)
      PROVE  RecorderType'
  <2>1. recording' \in [Recordings -> Rows]
    <3>1. CASE StopFinishes(s)
      <4>1. stops[s].job \in Recordings /\ stops[s].error \in BOOLEAN
        BY <3>1 DEF StopFinishes, LockExclusive, RecorderType
      <4> QED BY <3>1, <4>1, FinishedRowType DEF StopFinishes
    <3>2. CASE ~StopFinishes(s)
      BY <1>6, <3>2 DEF StopLocks, StopGoesOn, StopAwaits, StopEndsProcess, StopRaises,
         StopArrives, RecorderType
    <3> QED BY <3>1, <3>2
  <2>2. stops' \in [Stops -> [at : {"none", "locking"} \cup HoldsLock,
                              job : Recordings \cup {NoRecording}, error : BOOLEAN]]
    <3>1. NoStop \in [at : {"none", "locking"} \cup HoldsLock,
                      job : Recordings \cup {NoRecording}, error : BOOLEAN]
      BY DEF NoStop
    <3>2. \A j \in Recordings : [NoStop EXCEPT !.at = "locking", !.job = j]
             \in [at : {"none", "locking"} \cup HoldsLock,
                  job : Recordings \cup {NoRecording}, error : BOOLEAN]
      BY DEF NoStop
    <3>3. CASE StopEndsProcess(s)
      <4>1. PICK e \in BOOLEAN : stops' = [stops EXCEPT ![s].at = "finishing", ![s].error = e]
        BY <3>3 DEF StopEndsProcess, RecorderType
      <4> QED BY <4>1 DEF RecorderType, HoldsLock
    <3>4. CASE StopLocks(s) \/ StopAwaits(s)
      BY <3>1, <3>4 DEF StopLocks, StopAwaits, RecorderType, HoldsLock
    <3>5. CASE StopFinishes(s) \/ StopRaises(s) \/ \E j \in Recordings : StopArrives(s, j)
      BY <3>1, <3>2, <3>5 DEF StopFinishes, StopRaises, StopArrives, RecorderType
    <3> QED BY <1>6, <3>3, <3>4, <3>5 DEF StopGoesOn
  <2>3. active' \in Recordings \cup {NoRecording} /\ lost' \subseteq Recordings
        /\ process' \in [Recordings -> {"none", "running", "ended", "failed"}]
        /\ UNCHANGED <<spawning, audio, watcher>>
    BY <1>6 DEF StopLocks, StopGoesOn, StopAwaits, StopEndsProcess, StopFinishes,
       StopRaises, StopArrives, RecorderType, LockExclusive, HoldsLock
  <2> QED BY <2>1, <2>2, <2>3 DEF RecorderType
<1>7. CASE StationRestarts
  <2>1. ASSUME NEW j \in Recordings
        PROVE  FinishRecording(recording[j], TRUE, j \in audio) \in Rows
    <3>1. recording[j] \in Rows /\ (j \in audio) \in BOOLEAN
      BY DEF RecorderType
    <3> QED BY <3>1, FinishRecordingType
  <2>2. NoStop \in [at : {"none", "locking"} \cup HoldsLock,
                    job : Recordings \cup {NoRecording}, error : BOOLEAN]
    BY DEF NoStop
  <2>3. recording' \in [Recordings -> Rows]
    BY <1>7, <2>1 DEF StationRestarts, RecorderType
  <2> QED BY <1>7, <2>2, <2>3 DEF StationRestarts, RecorderType
<1> QED BY <1>1, <1>2, <1>3, <1>4, <1>5, <1>6, <1>7 DEF RecorderNext

\* What a step of the recorder keeps besides the types: the invariant's parts,
\* and no row that is past its recording is written but by its delivery.
Kept ==
  /\ LockExclusive' /\ HoldersRecord' /\ ProcessFollows'
  /\ RecordingIsOwned' /\ SourceIsClosed'
  /\ \A j \in Recordings :
       recording[j].stage \notin {"absent", "recording"}
         => recording'[j].stage \in {recording[j].stage, "completed"}

LEMMA StartKept ==
  ASSUME RIInv, NEW j \in Recordings, StartBegins(j) \/ StartEnds(j)
  PROVE  Kept
<1>f. \A i \in Recordings, e \in BOOLEAN :
        /\ FinishedRow(i, e)[i].stage \in {"failed", "queued"}
        /\ \A k \in Recordings \ {i} : FinishedRow(i, e)[k] = recording[k]
  BY FinishedRowType DEF RIInv
<1> USE NoRecordingAssumption
    DEF RIInv, RecorderType, LockExclusive, HoldersRecord, ProcessFollows, RecordingIsOwned,
        SourceIsClosed, LockFree, IsStopping, Kept
<1>1. CASE StartBegins(j)
  <2>1. CreateRow(recording[j], TRUE).stage = "recording"
    BY <1>1 DEF StartBegins, CreateRow, Rows
  <2>2. recording'[j].stage = "recording" /\ \A i \in Recordings \ {j} : recording'[i] = recording[i]
    BY <1>1, <2>1 DEF StartBegins
  <2> QED BY <1>1, <2>2 DEF StartBegins
<1>2. CASE StartSpawns(j)
  BY <1>2 DEF StartSpawns
<1>3. CASE StartFails(j)
  <2>1. recording'[j].stage \in {"failed", "queued"}
        /\ \A i \in Recordings \ {j} : recording'[i] = recording[i]
    BY <1>3, <1>f DEF StartFails
  <2>2. spawning = j /\ spawning' = NoRecording
        /\ UNCHANGED <<active, process, audio, watcher, stops, lost>>
    BY <1>3 DEF StartFails
  <2>3. LockExclusive' /\ RecordingIsOwned'
    BY <2>1, <2>2
  <2>4. HoldersRecord'
    BY <2>1, <2>2
  <2>5. ProcessFollows' /\ SourceIsClosed'
    BY <2>1, <2>2
  <2> QED BY <2>1, <2>2, <2>3, <2>4, <2>5
<1> QED BY <1>1, <1>2, <1>3 DEF StartEnds

LEMMA WatcherKept ==
  ASSUME RIInv, NEW j \in Recordings,
         Capture(j) \/ ProcessEnds(j) \/ Watcher(j) \/ WatcherLocks(j) \/ DeliverRecording(j)
  PROVE  Kept
<1>f. \A i \in Recordings, e \in BOOLEAN :
        /\ FinishedRow(i, e)[i].stage \in {"failed", "queued"}
        /\ \A k \in Recordings \ {i} : FinishedRow(i, e)[k] = recording[k]
  BY FinishedRowType DEF RIInv
<1> USE NoRecordingAssumption
    DEF RIInv, RecorderType, LockExclusive, HoldersRecord, ProcessFollows, RecordingIsOwned,
        SourceIsClosed, LockFree, IsStopping, Kept
<1>1. CASE Capture(j) \/ ProcessEnds(j)
  BY <1>1 DEF Capture, ProcessEnds
<1>2. CASE WatcherWakes(j) \/ WatcherCancelled(j)
  BY <1>2 DEF WatcherWakes, WatcherCancelled
<1>3. CASE WatcherRaises(j)
  BY <1>3 DEF WatcherRaises
<1>4. CASE WatcherLocks(j)
  BY <1>4 DEF WatcherLocks
<1>5. CASE WatcherFinishes(j)
  <2>1. recording'[j].stage \in {"failed", "queued"}
        /\ \A i \in Recordings \ {j} : recording'[i] = recording[i]
    <3>1. PICK e \in BOOLEAN : e = ~(process[j] = "ended" /\ j \in audio)
      OBVIOUS
    <3> QED BY <1>5, <1>f, <3>1 DEF WatcherFinishes
  <2> QED BY <1>5, <2>1 DEF WatcherFinishes
<1>6. CASE DeliverRecording(j)
  <2>1. recording'[j].stage = "completed" /\ recording[j].stage = "queued"
        /\ \A i \in Recordings \ {j} : recording'[i] = recording[i]
    BY <1>6 DEF DeliverRecording, Rows
  <2> QED BY <1>6, <2>1 DEF DeliverRecording
<1> QED BY <1>1, <1>2, <1>3, <1>4, <1>5, <1>6 DEF Watcher

LEMMA StopKept ==
  ASSUME RIInv, NEW s \in Stops,
         StopLocks(s) \/ StopGoesOn(s) \/ \E j \in Recordings : StopArrives(s, j)
  PROVE  Kept
<1>f. \A i \in Recordings, e \in BOOLEAN :
        /\ FinishedRow(i, e)[i].stage \in {"failed", "queued"}
        /\ \A k \in Recordings \ {i} : FinishedRow(i, e)[k] = recording[k]
  BY FinishedRowType DEF RIInv
<1> USE NoRecordingAssumption
    DEF RIInv, RecorderType, LockExclusive, HoldersRecord, ProcessFollows, RecordingIsOwned,
        SourceIsClosed, LockFree, IsStopping, Kept, HoldsLock
<1>1. ASSUME NEW j \in Recordings, StopArrives(s, j) PROVE Kept
  <2>1. stops'[s].at = "locking" /\ stops'[s].job = j
        /\ \A t \in Stops \ {s} : stops'[t] = stops[t]
    BY <1>1 DEF StopArrives, NoStop
  <2>2. stops[s].at = "none"
        /\ UNCHANGED <<recording, active, spawning, process, audio, watcher, lost>>
    BY <1>1 DEF StopArrives
  <2>3. LockExclusive'
    BY <2>1, <2>2
  <2>4. HoldersRecord' /\ RecordingIsOwned'
    BY <2>1, <2>2
  <2>5. ProcessFollows' /\ SourceIsClosed'
    BY <2>1, <2>2
  <2> QED BY <2>1, <2>2, <2>3, <2>4, <2>5
<1>2. CASE StopLocks(s)
  <2>1. PICK j \in Recordings : j = stops[s].job
    BY <1>2 DEF StopLocks
  <2> QED BY <1>2, <2>1 DEF StopLocks, NoStop
<1>3. CASE StopAwaits(s)
  BY <1>3 DEF StopAwaits
<1>4. CASE StopEndsProcess(s)
  <2>1. PICK j \in Recordings : j = stops[s].job
    BY <1>4 DEF StopEndsProcess
  <2>2. /\ stops'[s].at = "finishing" /\ stops'[s].job = j /\ stops[s].at = "ending"
        /\ \A t \in Stops \ {s} : stops'[t] = stops[t]
        /\ process' = [process EXCEPT ![j] = IF @ = "running" THEN "ended" ELSE @]
        /\ UNCHANGED <<recording, active, spawning, audio, watcher, lost>>
    BY <1>4, <2>1 DEF StopEndsProcess
  <2> QED BY <2>1, <2>2
<1>5. CASE StopFinishes(s)
  <2>1. PICK j \in Recordings : j = stops[s].job
    BY <1>5 DEF StopFinishes
  <2>2. recording'[j].stage \in {"failed", "queued"}
        /\ \A i \in Recordings \ {j} : recording'[i] = recording[i]
    BY <1>5, <2>1, <1>f DEF StopFinishes
  <2> QED BY <1>5, <2>1, <2>2 DEF StopFinishes, NoStop
<1>6. CASE StopRaises(s)
  <2>1. PICK j \in Recordings : j = stops[s].job
    BY <1>6 DEF StopRaises
  <2> QED BY <1>6, <2>1 DEF StopRaises, NoStop
<1> QED BY <1>1, <1>2, <1>3, <1>4, <1>5, <1>6 DEF StopGoesOn

LEMMA RestartKept ==
  ASSUME RIInv, StationRestarts
  PROVE  Kept
<1> USE NoRecordingAssumption
    DEF RIInv, RecorderType, LockExclusive, HoldersRecord, ProcessFollows, RecordingIsOwned,
        SourceIsClosed, LockFree, IsStopping, Kept, HoldsLock
<1>1. ASSUME NEW j \in Recordings
      PROVE  IF recording[j].stage = "recording"
             THEN recording'[j].stage \in {"failed", "queued"}
             ELSE recording'[j] = recording[j]
  <2>1. recording[j] \in Rows /\ (j \in audio) \in BOOLEAN
    OBVIOUS
  <2> QED BY <2>1, FinishRecordingType DEF StationRestarts
<1> QED BY <1>1 DEF StationRestarts, NoStop

LEMMA RecorderStepIInv ==
  RIInv /\ [ServicesNext]_servicesVars
    => RIInv' /\ [Kept]_recorderVars
<1> SUFFICES ASSUME RIInv, [ServicesNext]_servicesVars PROVE RIInv' /\ [Kept]_recorderVars
  OBVIOUS
<1>1. CASE RecorderNext
  <2>1. Kept
    BY <1>1, StartKept, WatcherKept, StopKept, RestartKept DEF RecorderNext
  <2> QED BY <1>1, <2>1, RecorderStepType DEF RIInv, Kept
<1>2. CASE UNCHANGED recorderVars
  BY <1>2 DEF recorderVars, RIInv, RecorderType, LockExclusive, HoldersRecord, ProcessFollows,
     RecordingIsOwned, SourceIsClosed, LockFree, IsStopping
<1> QED BY <1>1, <1>2, PartsStep

LEMMA RecorderInitIInv ==
  ASSUME RecorderInit
  PROVE  RIInv
<1> USE DEF RecorderInit, AbsentRow, NoStop
<1>1. RecorderType
  <2>1. recording \in [Recordings -> Rows]
    BY DEF Rows, Stages, RemoteStages
  <2> QED BY <2>1 DEF RecorderType
<1>2. LockExclusive /\ HoldersRecord /\ ProcessFollows /\ RecordingIsOwned /\ SourceIsClosed
  BY NoRecordingAssumption DEF LockExclusive, HoldersRecord, ProcessFollows, RecordingIsOwned,
     SourceIsClosed, LockFree, IsStopping, HoldsLock
<1> QED BY <1>1, <1>2 DEF RIInv

\* Every board recording has one who will end it, is archived from a file
\* nobody writes to, and is archived once, for any number of stops and
\* recordings and with restarts of the station at any moment.
THEOREM RecordingsStaySound == ServicesSpec => RecordingsAreSound
<1>1. ServicesInit => RIInv
  BY RecorderInitIInv DEF ServicesInit
<1>2. RIInv => RecordingIsOwned /\ SourceIsClosed
  BY DEF RIInv
<1>3. Kept => \A j \in Recordings :
                recording[j].stage \notin {"absent", "recording"}
                  => recording'[j].stage \in {recording[j].stage, "completed"}
  BY DEF Kept
<1> QED BY <1>1, <1>2, <1>3, RecorderStepIInv, PTL
    DEF ServicesSpec, RecordingsAreSound, FinishedOnce
-----------------------------------------------------------------------------
(***************************************************************************)
(* The event streams.  What was sent to a client is what it received and   *)
(* what waits in its channel; an event on its way was sent to nobody yet.  *)
(***************************************************************************)
Sent(s) == received[s] \o stream[s].channel

SubscribersBegan ==
  \A s \in subscribers \cup closed : stream[s].at \in {"open", "leaving", "ended"}

SilentBefore ==
  \A s \in Streams : stream[s].at \in {"none", "registering"}
                       => stream[s].channel = <<>> /\ received[s] = <<>>

SentIsKnown ==
  \A s \in Streams : \A i \in 1..Len(Sent(s)) :
    Sent(s)[i].number <= events /\ Sent(s)[i].job = stream[s].job

CallsAreNew ==
  /\ \A k \in Callers : call[k] # <<>> =>
       /\ call[k][1].number <= events
       /\ \A s \in Streams : \A i \in 1..Len(Sent(s)) : Sent(s)[i].number # call[k][1].number
  /\ \A k, l \in Callers : k # l /\ call[k] # <<>> /\ call[l] # <<>>
                             => call[k][1].number # call[l][1].number

OrdersAgree ==
  \A s, t \in Streams :
    \A i, j \in 1..Len(Sent(s)), m, n \in 1..Len(Sent(t)) :
      i < j /\ m < n => ~(Sent(s)[i] = Sent(t)[n] /\ Sent(s)[j] = Sent(t)[m])

SIInv ==
  /\ StreamsType /\ SubscribersAreOpen /\ SubscribersBegan /\ SilentBefore
  /\ SentIsKnown /\ CallsAreNew /\ OrdersAgree

LEMMA SentType ==
  ASSUME StreamsType, NEW s \in Streams
  PROVE  /\ stream[s].channel \in Seq(Event) /\ received[s] \in Seq(Event)
         /\ Sent(s) \in Seq(Event) /\ Len(Sent(s)) \in Nat
         /\ DOMAIN Sent(s) = 1..Len(Sent(s))
         /\ \A i \in 1..Len(Sent(s)) : Sent(s)[i] \in Event
<1>1. stream[s].channel \in Seq(Event) /\ received[s] \in Seq(Event)
  BY DEF StreamsType
<1>2. Sent(s) \in Seq(Event)
  BY <1>1, ConcatProperties DEF Sent
<1> QED BY <1>1, <1>2, LenProperties, ElementOfSeq

\* What is read from the channel was sent and stays so.
LEMMA MovedIsSent ==
  ASSUME NEW E, NEW a \in Seq(E), NEW c \in Seq(E), c # <<>>
  PROVE  Append(a, Head(c)) \o Tail(c) = a \o c
<1>1. /\ Head(c) \in E /\ Tail(c) \in Seq(E) /\ Len(Tail(c)) = Len(c) - 1
      /\ \A i \in 1..Len(Tail(c)) : Tail(c)[i] = c[i + 1]
      /\ Head(c) = c[1] /\ Len(c) \in Nat \ {0} /\ Len(a) \in Nat
  BY HeadTailProperties, EmptySeq, LenProperties
<1>2. PICK b \in Seq(E) : b = Append(a, Head(c))
  BY <1>1, AppendProperties
<1>3. /\ Len(b) = Len(a) + 1 /\ b[Len(a) + 1] = Head(c)
      /\ \A i \in 1..Len(a) : b[i] = a[i]
  BY <1>1, <1>2, AppendProperties
<1>4. /\ a \o c \in Seq(E) /\ Len(a \o c) = Len(a) + Len(c)
      /\ \A i \in 1..Len(a) + Len(c) :
           (a \o c)[i] = IF i <= Len(a) THEN a[i] ELSE c[i - Len(a)]
  BY ConcatProperties
<1>5. PICK t \in Seq(E) : t = Tail(c)
  BY <1>1
<1>6. /\ b \o t \in Seq(E) /\ Len(b \o t) = Len(b) + Len(t)
      /\ \A i \in 1..Len(b) + Len(t) :
           (b \o t)[i] = IF i <= Len(b) THEN b[i] ELSE t[i - Len(b)]
  BY ConcatProperties
<1>7. Len(b \o t) = Len(a \o c)
  BY <1>1, <1>3, <1>4, <1>5, <1>6
<1>8. ASSUME NEW i \in 1..Len(b \o t) PROVE (b \o t)[i] = (a \o c)[i]
  <2>1. CASE i <= Len(a)
    BY <2>1, <1>1, <1>3, <1>4, <1>5, <1>6
  <2>2. CASE i = Len(a) + 1
    BY <2>2, <1>1, <1>3, <1>4, <1>5, <1>6
  <2>3. CASE i > Len(a) + 1
    <3>1. i - Len(b) \in 1..Len(t) /\ i - Len(b) + 1 = i - Len(a)
      BY <2>3, <1>1, <1>3, <1>5, <1>6, <1>8
    <3>2. t[i - Len(b)] = c[i - Len(a)]
      BY <3>1, <1>1, <1>5
    <3> QED BY <3>2, <2>3, <1>1, <1>3, <1>4, <1>5, <1>6, <1>8
  <2> QED BY <2>1, <2>2, <2>3, <1>1, <1>4, <1>7
<1>9. b \o t = a \o c
  BY <1>4, <1>6, <1>7, <1>8, SeqEqual
<1> QED BY <1>2, <1>5, <1>9

\* An event is sent at the end, or not at all.
LEMMA SentByDelivery ==
  ASSUME StreamsType, NEW k \in Callers, Deliver(k), NEW s \in Streams
  PROVE  Sent(s)' = Sent(s) \/ Sent(s)' = Append(Sent(s), call[k][1])
<1>1. PICK e \in Event : call[k] = <<e>>
  BY DEF Deliver, StreamsType
<1>2. received' = received
      /\ stream'[s].channel \in {stream[s].channel, stream[s].channel \o <<e>>}
  BY <1>1 DEF Deliver, StreamsType
<1>3. PICK r \in Seq(Event), c \in Seq(Event) : r = received[s] /\ c = stream[s].channel
  BY SentType
<1>4. <<e>> \in Seq(Event)
  BY <1>1
<1>5. r \o (c \o <<e>>) = (r \o c) \o <<e>>
  <2>1. PICK u \in Seq(Event) : u = <<e>>
    BY <1>4
  <2>2. r \o (c \o u) = (r \o c) \o u
    BY ConcatAssociative
  <2> QED BY <2>1, <2>2
<1>6. r \o c \in Seq(Event)
  BY ConcatProperties
<1>7. (r \o c) \o <<e>> = Append(r \o c, e)
  BY <1>6, AppendIsConcat
<1>8. call[k][1] = e
  BY <1>1
<1>9. Sent(s) = r \o c
  BY <1>3 DEF Sent
<1>10. CASE stream'[s].channel = stream[s].channel
  BY <1>2, <1>10 DEF Sent
<1>11. CASE stream'[s].channel = stream[s].channel \o <<e>>
  <2>1. Sent(s)' = r \o (c \o <<e>>)
    BY <1>2, <1>3, <1>11 DEF Sent
  <2> QED BY <2>1, <1>5, <1>7, <1>8, <1>9
<1> QED BY <1>2, <1>10, <1>11

\* A handler's step between its places leaves its channel alone.
LEMMA HandlerMoves ==
  ASSUME StreamsType, NEW s \in Streams,
         \/ Register(s) \/ RegisterGivenUp(s) \/ StreamCloses(s) \/ Unregister(s)
         \/ UnregisterGivenUp(s) \/ \E j \in Topics : Connect(s, j)
  PROVE  /\ stream' \in [Streams -> [at : Places, job : Topics \cup {NoTopic}, channel : Seq(Event)]]
         /\ \A t \in Streams : stream'[t].channel = stream[t].channel
         /\ \A t \in Streams \ {s} : stream'[t] = stream[t]
<1> DEFINE S == Seq(Event)
<1> HIDE DEF S
<1>0. stream \in [Streams -> [at : Places, job : Topics \cup {NoTopic}, channel : S]]
  BY DEF StreamsType, S
<1>1. ASSUME NEW j \in Topics, Connect(s, j)
      PROVE  /\ stream' \in [Streams -> [at : Places, job : Topics \cup {NoTopic}, channel : S]]
             /\ \A t \in Streams : stream'[t].channel = stream[t].channel
             /\ \A t \in Streams \ {s} : stream'[t] = stream[t]
  <2>1. stream' = [stream EXCEPT ![s] = [stream[s] EXCEPT !.at = "registering", !.job = j]]
    BY <1>0, <1>1 DEF Connect
  <2>2. [stream[s] EXCEPT !.at = "registering", !.job = j]
          \in [at : Places, job : Topics \cup {NoTopic}, channel : S]
    BY <1>0 DEF Places
  <2> QED BY <1>0, <2>1, <2>2
<1>2. ASSUME NEW p \in Places, At(s, p)
      PROVE  /\ stream' \in [Streams -> [at : Places, job : Topics \cup {NoTopic}, channel : S]]
             /\ \A t \in Streams : stream'[t].channel = stream[t].channel
             /\ \A t \in Streams \ {s} : stream'[t] = stream[t]
  <2>1. [stream[s] EXCEPT !.at = p] \in [at : Places, job : Topics \cup {NoTopic}, channel : S]
    BY <1>0
  <2>2. stream' = [stream EXCEPT ![s] = [stream[s] EXCEPT !.at = p]]
    BY <1>2 DEF At
  <2> QED BY <1>0, <2>1, <2>2
<1>3. {"open", "ended", "leaving"} \subseteq Places
  BY DEF Places
<1>4. (\E j \in Topics : Connect(s, j)) \/ \E p \in Places : At(s, p)
  BY <1>3 DEF Register, RegisterGivenUp, StreamCloses, Unregister, UnregisterGivenUp
<1> QED BY <1>1, <1>2, <1>4 DEF S

\* Every other step sends nothing.
LEMMA SentStays ==
  ASSUME StreamsType, StreamsNext, \A k \in Callers : ~Deliver(k), NEW s \in Streams
  PROVE  Sent(s)' = Sent(s)
<1>1. CASE UNCHANGED received
           /\ \A t \in Streams : stream'[t].channel = stream[t].channel
  BY <1>1 DEF Sent
<1>2. ASSUME NEW t \in Streams, WriteEvent(t) PROVE Sent(s)' = Sent(s)
  <2>1. CASE s # t
    BY <1>2, <2>1 DEF WriteEvent, Sent, StreamsType
  <2>2. CASE s = t
    <3>1. PICK c \in Seq(Event), r \in Seq(Event) : c = stream[s].channel /\ r = received[s]
      BY SentType
    <3>2. c # <<>> /\ stream'[s].channel = Tail(c) /\ received'[s] = Append(r, Head(c))
      BY <1>2, <2>2, <3>1 DEF WriteEvent, StreamsType
    <3>3. Append(r, Head(c)) \o Tail(c) = r \o c
      BY <3>2, MovedIsSent
    <3> QED BY <3>1, <3>2, <3>3 DEF Sent
  <2> QED BY <2>1, <2>2
<1>3. ASSUME NEW t \in Streams,
             \/ Register(t) \/ RegisterGivenUp(t) \/ StreamCloses(t) \/ Unregister(t)
             \/ UnregisterGivenUp(t) \/ \E j \in Topics : Connect(t, j)
      PROVE  Sent(s)' = Sent(s)
  <2>1. UNCHANGED received
    BY <1>3 DEF Register, RegisterGivenUp, StreamCloses, Unregister, UnregisterGivenUp, Connect
  <2>2. \A u \in Streams : stream'[u].channel = stream[u].channel
    BY <1>3, HandlerMoves
  <2> QED BY <2>1, <2>2, <1>1
<1>4. CASE \/ \E t \in Streams : ClientLeaves(t)
           \/ \E k \in Callers : CallGivenUp(k) \/ \E j \in Topics : Call(k, j)
           \/ ShutdownStreams \/ ListenEnds
  <2>1. UNCHANGED <<received, stream>>
    BY <1>4 DEF ClientLeaves, CallGivenUp, Call, ShutdownStreams, ListenEnds
  <2> QED BY <2>1, <1>1
<1> QED BY <1>2, <1>3, <1>4 DEF StreamsNext, StreamHandler

LEMMA StreamsStepType ==
  ASSUME StreamsType, StreamsNext
  PROVE  StreamsType'
<1> DEFINE R == [at : Places, job : Topics \cup {NoTopic}, channel : Seq(Event)]
           C == {<<>>} \cup {<<e>> : e \in Event}
<1>0. /\ listening \in BOOLEAN /\ shutdown \in BOOLEAN
      /\ subscribers \subseteq Streams /\ closed \subseteq Streams /\ gone \subseteq Streams
      /\ stream \in [Streams -> R]
      /\ \A s \in Streams : Len(stream[s].channel) <= Buffer
      /\ call \in [Callers -> C]
      /\ received \in [Streams -> Seq(Event)] /\ events \in 0..MaxEvents
  BY DEF StreamsType
<1>1. ASSUME NEW s \in Streams, WriteEvent(s) PROVE StreamsType'
  <2>1. PICK c \in Seq(Event), r \in Seq(Event) : c = stream[s].channel /\ r = received[s]
    BY SentType
  <2>2. c # <<>> /\ Tail(c) \in Seq(Event) /\ Len(Tail(c)) = Len(c) - 1 /\ Head(c) \in Event
        /\ Len(c) \in Nat /\ Append(r, Head(c)) \in Seq(Event)
    <3>1. c # <<>>
      BY <1>1, <2>1 DEF WriteEvent
    <3>2. Head(c) \in Event /\ Tail(c) \in Seq(Event) /\ Len(Tail(c)) = Len(c) - 1
      BY <3>1, HeadTailProperties
    <3> QED BY <3>1, <3>2, LenProperties, AppendProperties
  <2>3. received' \in [Streams -> Seq(Event)]
    BY <1>0, <1>1, <2>1, <2>2 DEF WriteEvent
  <2>4. stream' = [stream EXCEPT ![s].channel = Tail(c)]
    BY <1>1, <2>1 DEF WriteEvent
  <2>5. stream' \in [Streams -> R]
    BY <1>0, <2>2, <2>4
  <2>6. \A t \in Streams : Len(stream'[t].channel) <= Buffer
    <3>1. Len(Tail(c)) <= Buffer
      BY <1>0, <2>1, <2>2, BroadcasterAssumption
    <3> QED BY <3>1, <1>0, <2>4
  <2> QED BY <1>0, <1>1, <2>3, <2>5, <2>6 DEF WriteEvent, StreamsType
<1>2. ASSUME NEW s \in Streams,
             \/ Register(s) \/ RegisterGivenUp(s) \/ StreamCloses(s) \/ Unregister(s)
             \/ UnregisterGivenUp(s) \/ \E j \in Topics : Connect(s, j)
      PROVE  StreamsType'
  <2>1. stream' \in [Streams -> R]
        /\ \A t \in Streams : stream'[t].channel = stream[t].channel
    BY <1>2, HandlerMoves
  <2>3. subscribers' \subseteq Streams /\ closed' \subseteq Streams
        /\ UNCHANGED <<listening, shutdown, gone, call, received, events>>
    BY <1>0, <1>2 DEF Register, RegisterGivenUp, StreamCloses, Unregister, UnregisterGivenUp,
       Connect
  <2> QED BY <1>0, <2>1, <2>3 DEF StreamsType
<1>3. ASSUME NEW k \in Callers, NEW j \in Topics, Call(k, j) PROVE StreamsType'
  <2>1. PICK n \in 1..MaxEvents : n = events + 1 /\ events' = n
    BY <1>0, <1>3, BroadcasterAssumption DEF Call
  <2>2. [job |-> j, number |-> n] \in Event
    BY DEF Event
  <2>3. call' = [call EXCEPT ![k] = <<[job |-> j, number |-> n]>>]
    BY <1>3, <2>1 DEF Call
  <2>4. call' \in [Callers -> C]
    BY <1>0, <2>2, <2>3
  <2> QED BY <1>0, <1>3, <2>1, <2>4 DEF Call, StreamsType
<1>4. ASSUME NEW k \in Callers, Deliver(k) PROVE StreamsType'
  <2>1. PICK e \in Event : call[k] = <<e>>
    BY <1>0, <1>4 DEF Deliver
  <2>2. \A s \in Streams :
          /\ stream[s].channel \o <<e>> \in Seq(Event)
          /\ Len(stream[s].channel \o <<e>>) = Len(stream[s].channel) + 1
          /\ Len(stream[s].channel) \in Nat
    <3>1. TAKE s \in Streams
    <3>2. PICK c \in Seq(Event) : c = stream[s].channel
      BY SentType
    <3>3. Append(c, e) = c \o <<e>> /\ Append(c, e) \in Seq(Event)
          /\ Len(Append(c, e)) = Len(c) + 1 /\ Len(c) \in Nat
      BY AppendIsConcat, AppendProperties, LenProperties
    <3> QED BY <3>2, <3>3
  <2>3. ASSUME NEW s \in Streams
        PROVE  stream'[s] \in R /\ Len(stream'[s].channel) <= Buffer
    <3>1. CASE stream'[s] = stream[s]
      BY <1>0, <3>1
    <3>2. CASE stream'[s] = [stream[s] EXCEPT !.channel = @ \o <<e>>]
               /\ Len(stream[s].channel) < Buffer
      <4>1. stream'[s].channel = stream[s].channel \o <<e>>
            /\ stream'[s] \in R
        BY <1>0, <2>2, <3>2
      <4> QED BY <4>1, <2>2, <3>2, BroadcasterAssumption
    <3> QED BY <1>4, <2>1, <3>1, <3>2 DEF Deliver
  <2>4. stream' \in [Streams -> R]
    BY <1>4, <2>3 DEF Deliver
  <2>5. call' \in [Callers -> C]
    BY <1>0, <1>4 DEF Deliver
  <2> QED BY <1>0, <1>4, <2>3, <2>4, <2>5 DEF Deliver, StreamsType
<1>5. CASE \/ \E s \in Streams : ClientLeaves(s)
           \/ \E k \in Callers : CallGivenUp(k)
           \/ ShutdownStreams \/ ListenEnds
  <2>1. call' \in [Callers -> C]
    BY <1>0, <1>5 DEF ClientLeaves, CallGivenUp, ShutdownStreams, ListenEnds
  <2> QED BY <1>0, <1>5, <2>1 DEF ClientLeaves, CallGivenUp, ShutdownStreams, ListenEnds, StreamsType
<1> QED BY <1>1, <1>2, <1>3, <1>4, <1>5 DEF StreamsNext, StreamHandler

\* Who subscribes and whose channel is closed.
LEMMA SubscribersStep ==
  ASSUME SIInv, StreamsNext
  PROVE  SubscribersAreOpen' /\ SubscribersBegan'
<1> USE DEF SIInv, SubscribersAreOpen, SubscribersBegan
<1>1. ASSUME NEW s \in Streams,
             \/ Register(s) \/ RegisterGivenUp(s) \/ StreamCloses(s) \/ Unregister(s)
             \/ UnregisterGivenUp(s) \/ \E j \in Topics : Connect(s, j)
      PROVE  SubscribersAreOpen' /\ SubscribersBegan'
  <2>1. subscribers \subseteq Streams /\ closed \subseteq Streams
    BY DEF StreamsType
  <2>2. \A t \in Streams \ {s} : stream'[t] = stream[t]
    BY <1>1, HandlerMoves
  <2>3. CASE Register(s)
    <3>1. stream'[s].at = "open" /\ stream[s].at = "registering"
      BY <2>3 DEF Register, At, StreamsType
    <3> QED BY <2>1, <2>2, <2>3, <3>1 DEF Register
  <2>4. CASE \E j \in Topics : Connect(s, j)
    BY <2>1, <2>2, <2>4 DEF Connect
  <2>5. CASE RegisterGivenUp(s) \/ StreamCloses(s) \/ UnregisterGivenUp(s)
    <3>1. stream'[s].at \in {"leaving", "ended"} /\ UNCHANGED <<subscribers, closed>>
      BY <2>5 DEF RegisterGivenUp, StreamCloses, UnregisterGivenUp, At, StreamsType
    <3> QED BY <2>1, <2>2, <3>1
  <2>6. CASE Unregister(s)
    <3>1. stream'[s].at = "ended"
      BY <2>6 DEF Unregister, At, StreamsType
    <3> QED BY <2>1, <2>2, <2>6, <3>1 DEF Unregister
  <2> QED BY <1>1, <2>3, <2>4, <2>5, <2>6
<1>2. ASSUME NEW s \in Streams, WriteEvent(s) PROVE SubscribersAreOpen' /\ SubscribersBegan'
  <2>1. \A t \in Streams : stream'[t].at = stream[t].at
    BY <1>2 DEF WriteEvent, StreamsType
  <2> QED BY <1>2, <2>1 DEF WriteEvent, StreamsType
<1>3. ASSUME NEW k \in Callers, Deliver(k) PROVE SubscribersAreOpen' /\ SubscribersBegan'
  <2>1. \A t \in Streams : stream'[t].at = stream[t].at
    BY <1>3 DEF Deliver, StreamsType
  <2> QED BY <1>3, <2>1 DEF Deliver, StreamsType
<1>4. CASE \/ \E s \in Streams : ClientLeaves(s)
           \/ \E k \in Callers : CallGivenUp(k) \/ \E j \in Topics : Call(k, j)
           \/ ShutdownStreams \/ ListenEnds
  BY <1>4 DEF ClientLeaves, CallGivenUp, Call, ShutdownStreams, ListenEnds
<1> QED BY <1>1, <1>2, <1>3, <1>4 DEF StreamsNext, StreamHandler

LEMMA SilentStep ==
  ASSUME SIInv, StreamsNext
  PROVE  SilentBefore'
<1> USE DEF SIInv, SilentBefore
<1>1. ASSUME NEW s \in Streams,
             \/ Register(s) \/ RegisterGivenUp(s) \/ StreamCloses(s) \/ Unregister(s)
             \/ UnregisterGivenUp(s) \/ \E j \in Topics : Connect(s, j)
      PROVE  SilentBefore'
  <2>1. (\A t \in Streams : stream'[t].channel = stream[t].channel)
        /\ \A t \in Streams \ {s} : stream'[t] = stream[t]
    BY <1>1, HandlerMoves
  <2>2. stream'[s].at \in {"none", "registering"} => stream[s].at \in {"none", "registering"}
    BY <1>1 DEF Register, RegisterGivenUp, StreamCloses, Unregister, UnregisterGivenUp,
       Connect, At, StreamsType
  <2>3. UNCHANGED received
    BY <1>1 DEF Register, RegisterGivenUp, StreamCloses, Unregister, UnregisterGivenUp, Connect
  <2> QED BY <2>1, <2>2, <2>3
<1>2. ASSUME NEW s \in Streams, WriteEvent(s) PROVE SilentBefore'
  <2>1. /\ stream[s].at = "open" /\ \A t \in Streams : stream'[t].at = stream[t].at
        /\ \A t \in Streams \ {s} : stream'[t] = stream[t] /\ received'[t] = received[t]
    BY <1>2 DEF WriteEvent, StreamsType
  <2> QED BY <2>1
<1>3. ASSUME NEW k \in Callers, Deliver(k) PROVE SilentBefore'
  <2>1. /\ \A t \in Streams : stream'[t].at = stream[t].at
        /\ \A t \in Streams \ subscribers : stream'[t] = stream[t]
        /\ UNCHANGED received
    BY <1>3 DEF Deliver, StreamsType
  <2> QED BY <2>1 DEF SubscribersBegan
<1>4. CASE \/ \E s \in Streams : ClientLeaves(s)
           \/ \E k \in Callers : CallGivenUp(k) \/ \E j \in Topics : Call(k, j)
           \/ ShutdownStreams \/ ListenEnds
  <2>1. UNCHANGED <<received, stream>>
    BY <1>4 DEF ClientLeaves, CallGivenUp, Call, ShutdownStreams, ListenEnds
  <2> QED BY <2>1
<1> QED BY <1>1, <1>2, <1>3, <1>4 DEF StreamsNext, StreamHandler

LEMMA SentWithoutDelivery ==
  ASSUME SIInv, StreamsNext, \A k \in Callers : ~Deliver(k)
  PROVE  SentIsKnown' /\ CallsAreNew' /\ OrdersAgree'
<1>1. /\ StreamsType /\ SilentBefore /\ SentIsKnown /\ CallsAreNew /\ OrdersAgree
  BY DEF SIInv
<1>2. \A s \in Streams : Sent(s)' = Sent(s)
  BY <1>1, SentStays
<1>3. OrdersAgree'
  BY <1>1, <1>2 DEF OrdersAgree
<1>4. \A s \in Streams : Len(Sent(s)) \in Nat /\ \A i \in 1..Len(Sent(s)) : Sent(s)[i] \in Event
  BY <1>1, SentType
<1>5. events \in Nat /\ \A e \in Event : e.number \in Nat
  BY <1>1, BroadcasterAssumption DEF StreamsType, Event
<1>6. ASSUME \A s \in Streams : 1..Len(Sent(s)) # {} => stream'[s].job = stream[s].job,
             events' = events, \A k \in Callers : call'[k] \in {call[k], <<>>}
      PROVE  SentIsKnown' /\ CallsAreNew'
  <2>1. SentIsKnown'
    BY <1>1, <1>2, <1>4, <1>6 DEF SentIsKnown
  <2>2. CallsAreNew'
    BY <1>1, <1>2, <1>6 DEF CallsAreNew
  <2> QED BY <2>1, <2>2
<1>7. ASSUME NEW s \in Streams, NEW j \in Topics, Connect(s, j)
      PROVE  SentIsKnown' /\ CallsAreNew'
  <2>1. stream[s].channel = <<>> /\ received[s] = <<>>
    BY <1>1, <1>7 DEF Connect, SilentBefore
  <2>2. Sent(s) = <<>> \o <<>>
    BY <2>1 DEF Sent
  <2>3. Len(Sent(s)) = 0
    BY <2>2
  <2>4. \A t \in Streams \ {s} : stream'[t] = stream[t]
    BY <1>1, <1>7, HandlerMoves
  <2>5. \A t \in Streams : 1..Len(Sent(t)) # {} => stream'[t].job = stream[t].job
    BY <2>3, <2>4
  <2>6. events' = events /\ \A l \in Callers : call'[l] \in {call[l], <<>>}
    BY <1>7 DEF Connect
  <2> QED BY <1>6, <2>5, <2>6
<1>8. ASSUME NEW s \in Streams, StreamHandler(s)
      PROVE  SentIsKnown' /\ CallsAreNew'
  <2>1. UNCHANGED <<call, events>>
    BY <1>8 DEF StreamHandler, Register, RegisterGivenUp, WriteEvent, StreamCloses,
       Unregister, UnregisterGivenUp
  <2>2. \A t \in Streams : stream'[t].job = stream[t].job
    <3>1. stream \in [Streams -> [at : Places, job : Topics \cup {NoTopic}, channel : Seq(Event)]]
      BY <1>1 DEF StreamsType
    <3>2. (\E p : stream' = [stream EXCEPT ![s].at = p]) \/ \E c : stream' = [stream EXCEPT ![s].channel = c]
      BY <1>8 DEF StreamHandler, Register, RegisterGivenUp, WriteEvent, StreamCloses,
         Unregister, UnregisterGivenUp, At
    <3>3. ASSUME NEW p, stream' = [stream EXCEPT ![s].at = p]
          PROVE  \A t \in Streams : stream'[t].job = stream[t].job
      BY <3>1, <3>3
    <3>4. ASSUME NEW c, stream' = [stream EXCEPT ![s].channel = c]
          PROVE  \A t \in Streams : stream'[t].job = stream[t].job
      BY <3>1, <3>4
    <3> QED BY <3>2, <3>3, <3>4
  <2> QED BY <1>6, <2>1, <2>2
<1>9. ASSUME NEW k \in Callers, NEW j \in Topics, Call(k, j)
      PROVE  SentIsKnown' /\ CallsAreNew'
  <2>1. PICK n \in Nat : n = events + 1 /\ events' = n
    BY <1>5, <1>9 DEF Call
  <2>2. call' = [call EXCEPT ![k] = <<[job |-> j, number |-> n]>>] /\ UNCHANGED stream
    BY <1>9, <2>1 DEF Call
  <2>3. call'[k][1].number = n /\ \A l \in Callers \ {k} : call'[l] = call[l]
    BY <1>1, <2>2 DEF StreamsType
  <2>4. \A l \in Callers : call[l] # <<>> => call[l][1].number \in Nat
    BY <1>1, <1>5 DEF StreamsType
  <2>5. SentIsKnown'
    BY <1>1, <1>2, <1>4, <1>5, <2>1, <2>2 DEF SentIsKnown
  <2>6. CallsAreNew'
    BY <1>1, <1>2, <1>4, <1>5, <2>1, <2>3, <2>4 DEF CallsAreNew, SentIsKnown
  <2> QED BY <2>5, <2>6
<1>10. CASE \/ \E s \in Streams : ClientLeaves(s)
            \/ \E k \in Callers : CallGivenUp(k)
            \/ ShutdownStreams \/ ListenEnds
  <2>1. /\ \A s \in Streams : stream'[s].job = stream[s].job
        /\ events' = events /\ \A k \in Callers : call'[k] \in {call[k], <<>>}
    BY <1>1, <1>10 DEF ClientLeaves, CallGivenUp, ShutdownStreams, ListenEnds, StreamsType
  <2>2. \A t \in Streams : 1..Len(Sent(t)) # {} => stream'[t].job = stream[t].job
    BY <2>1
  <2>3. events' = events /\ \A l \in Callers : call'[l] \in {call[l], <<>>}
    BY <2>1
  <2> QED BY <1>3, <1>6, <2>2, <2>3
<1> QED BY <1>3, <1>7, <1>8, <1>9, <1>10 DEF StreamsNext

LEMMA SentWithDelivery ==
  ASSUME SIInv, NEW k \in Callers, Deliver(k)
  PROVE  SentIsKnown' /\ CallsAreNew' /\ OrdersAgree'
<1>1. /\ StreamsType /\ SentIsKnown /\ CallsAreNew /\ OrdersAgree
  BY DEF SIInv
<1>2. PICK e \in Event : e = call[k][1] /\ call[k] # <<>>
  BY <1>1 DEF Deliver, StreamsType
<1>3. \A s \in Streams :
        /\ Sent(s) \in Seq(Event) /\ Len(Sent(s)) \in Nat
        /\ \A i \in 1..Len(Sent(s)) : Sent(s)[i] \in Event
  BY <1>1, SentType
<1>4. \A s \in Streams :
        Append(Sent(s), e) \in Seq(Event) /\ Len(Append(Sent(s), e)) = Len(Sent(s)) + 1
        /\ Append(Sent(s), e)[Len(Sent(s)) + 1] = e
        /\ \A i \in 1..Len(Sent(s)) : Append(Sent(s), e)[i] = Sent(s)[i]
  BY <1>3, AppendProperties
<1>5. \A s \in Streams : \A i \in 1..Len(Sent(s)) : Sent(s)[i] # e
  BY <1>1, <1>2 DEF CallsAreNew
\* The events sent to a stream: those of before, and perhaps the new one.
<1>6. \A s \in Streams :
        \/ Sent(s)' = Sent(s)
        \/ /\ Len(Sent(s)') = Len(Sent(s)) + 1 /\ Sent(s)'[Len(Sent(s)) + 1] = e
           /\ \A i \in 1..Len(Sent(s)) : Sent(s)'[i] = Sent(s)[i]
           /\ stream[s].job = e.job
  <2>1. TAKE s \in Streams
  <2>2. Sent(s)' = Sent(s) \/ Sent(s)' = Append(Sent(s), e)
    BY <1>1, <1>2, SentByDelivery
  <2>3. stream[s].job # e.job => Sent(s)' = Sent(s)
    BY <1>2 DEF Deliver, Sent
  <2> QED BY <2>2, <2>3, <1>4
<1>7. \A s \in Streams : stream'[s].job = stream[s].job
  BY <1>1 DEF Deliver, StreamsType
<1>8. /\ events' = events /\ call'[k] = <<>> /\ \A l \in Callers \ {k} : call'[l] = call[l]
      /\ e.number <= events
  BY <1>1, <1>2 DEF Deliver, StreamsType, CallsAreNew
<1>9. SentIsKnown'
  <2>1. SUFFICES ASSUME NEW s \in Streams, NEW i \in 1..Len(Sent(s)')
                 PROVE  Sent(s)'[i].number <= events' /\ Sent(s)'[i].job = stream'[s].job
    BY DEF SentIsKnown
  <2>2. CASE i \in 1..Len(Sent(s)) /\ Sent(s)'[i] = Sent(s)[i]
    BY <1>1, <1>7, <1>8, <2>2 DEF SentIsKnown
  <2>3. CASE Sent(s)'[i] = e /\ stream[s].job = e.job
    BY <1>7, <1>8, <2>3
  <2> QED BY <1>3, <1>6, <2>1, <2>2, <2>3
<1>10. CallsAreNew'
  <2>1. ASSUME NEW l \in Callers, call'[l] # <<>>, NEW s \in Streams, NEW i \in 1..Len(Sent(s)')
        PROVE  Sent(s)'[i].number # call'[l][1].number
    <3>1. l # k /\ call'[l] = call[l] /\ call[l][1].number # e.number
      BY <1>1, <1>2, <1>8, <2>1 DEF CallsAreNew
    <3>2. CASE i \in 1..Len(Sent(s)) /\ Sent(s)'[i] = Sent(s)[i]
      BY <1>1, <2>1, <3>1, <3>2 DEF CallsAreNew
    <3>3. CASE Sent(s)'[i] = e
      BY <3>1, <3>3
    <3> QED BY <1>3, <1>6, <2>1, <3>2, <3>3
  <2>2. \A l \in Callers : call'[l] # <<>> => call'[l] = call[l]
    BY <1>8
  <2>3. \A l \in Callers : call'[l] # <<>> => call'[l][1].number <= events'
    BY <1>1, <1>8, <2>2 DEF CallsAreNew
  <2>4. \A l, m \in Callers : l # m /\ call'[l] # <<>> /\ call'[m] # <<>>
                               => call'[l][1].number # call'[m][1].number
    BY <1>1, <2>2 DEF CallsAreNew
  <2> QED BY <2>1, <2>3, <2>4 DEF CallsAreNew
<1>11. OrdersAgree'
  <2>1. SUFFICES ASSUME NEW s \in Streams, NEW t \in Streams,
                        NEW i \in 1..Len(Sent(s)'), NEW j \in 1..Len(Sent(s)'),
                        NEW m \in 1..Len(Sent(t)'), NEW n \in 1..Len(Sent(t)'),
                        i < j, m < n,
                        Sent(s)'[i] = Sent(t)'[n], Sent(s)'[j] = Sent(t)'[m]
                 PROVE  FALSE
    BY DEF OrdersAgree
  <2>2. i \in 1..Len(Sent(s)) /\ m \in 1..Len(Sent(t))
        /\ Sent(s)'[i] = Sent(s)[i] /\ Sent(t)'[m] = Sent(t)[m]
    BY <1>3, <1>6, <2>1
  <2>3. Sent(s)[i] # e /\ Sent(t)[m] # e
    BY <1>5, <2>2
  <2>4. j \in 1..Len(Sent(s)) /\ n \in 1..Len(Sent(t))
        /\ Sent(s)'[j] = Sent(s)[j] /\ Sent(t)'[n] = Sent(t)[n]
    <3>1. Sent(s)'[j] # e /\ Sent(t)'[n] # e
      BY <2>1, <2>2, <2>3
    <3>2. j \in 1..Len(Sent(s)) /\ Sent(s)'[j] = Sent(s)[j]
      BY <1>3, <1>6, <2>1, <3>1
    <3>3. n \in 1..Len(Sent(t)) /\ Sent(t)'[n] = Sent(t)[n]
      BY <1>3, <1>6, <2>1, <3>1
    <3> QED BY <3>2, <3>3
  <2> QED BY <1>1, <2>1, <2>2, <2>4 DEF OrdersAgree
<1> QED BY <1>9, <1>10, <1>11

LEMMA StreamsStepIInv ==
  SIInv /\ [ServicesNext]_servicesVars => SIInv'
<1> SUFFICES ASSUME SIInv, [ServicesNext]_servicesVars PROVE SIInv'
  OBVIOUS
<1>1. CASE StreamsNext
  <2>1. StreamsType' /\ SubscribersAreOpen' /\ SubscribersBegan' /\ SilentBefore'
    BY <1>1, StreamsStepType, SubscribersStep, SilentStep DEF SIInv
  <2>2. SentIsKnown' /\ CallsAreNew' /\ OrdersAgree'
    BY <1>1, SentWithDelivery, SentWithoutDelivery
  <2> QED BY <2>1, <2>2 DEF SIInv
<1>2. CASE UNCHANGED streamVars
  <2>1. StreamsType' /\ SubscribersAreOpen' /\ SubscribersBegan' /\ SilentBefore'
    BY <1>2 DEF streamVars, SIInv, StreamsType, SubscribersAreOpen, SubscribersBegan, SilentBefore
  <2>2. \A s \in Streams : Sent(s)' = Sent(s)
    BY <1>2 DEF streamVars, Sent
  <2>3. UNCHANGED <<stream, call, events>>
    BY <1>2 DEF streamVars
  <2>4. SentIsKnown' /\ CallsAreNew' /\ OrdersAgree'
    BY <2>2, <2>3 DEF SIInv, SentIsKnown, CallsAreNew, OrdersAgree
  <2> QED BY <2>1, <2>4 DEF SIInv
<1> QED BY <1>1, <1>2, PartsStep

LEMMA StreamsInitIInv ==
  ASSUME StreamsInit
  PROVE  SIInv
<1>1. \A s \in Streams : stream[s].channel = <<>> /\ received[s] = <<>>
  BY DEF StreamsInit
<1>2. \A s \in Streams : Len(Sent(s)) = 0
  <2>1. TAKE s \in Streams
  <2>2. Sent(s) = <<>> \o <<>>
    BY <1>1 DEF Sent
  <2> QED BY <2>2
<1>3. StreamsType
  <2>1. PICK c \in Seq(Event) : c = <<>> /\ Len(c) = 0
    BY EmptySeq
  <2>2. stream \in [Streams -> [at : Places, job : Topics \cup {NoTopic}, channel : Seq(Event)]]
        /\ received \in [Streams -> Seq(Event)]
    BY <2>1 DEF StreamsInit, Places
  <2>3. \A s \in Streams : Len(stream[s].channel) <= Buffer
    BY <1>1, <2>1, BroadcasterAssumption
  <2>4. call \in [Callers -> {<<>>} \cup {<<e>> : e \in Event}] /\ events \in 0..MaxEvents
    BY BroadcasterAssumption DEF StreamsInit
  <2> QED BY <2>2, <2>3, <2>4 DEF StreamsInit, StreamsType
<1>4. SubscribersAreOpen /\ SubscribersBegan /\ SilentBefore
  BY <1>1 DEF StreamsInit, SubscribersAreOpen, SubscribersBegan, SilentBefore
<1>5. SentIsKnown /\ OrdersAgree
  BY <1>2 DEF SentIsKnown, OrdersAgree
<1>6. CallsAreNew
  BY DEF StreamsInit, CallsAreNew
<1> QED BY <1>3, <1>4, <1>5, <1>6 DEF SIInv

\* No event goes to a closed channel and none to the wrong client, and no two
\* clients see two events in opposite orders, for any number of clients and
\* broadcasts and any size of the channels.
THEOREM StreamsStaySound == ServicesSpec => []StreamsAreSound
<1>1. ServicesInit => SIInv
  BY StreamsInitIInv DEF ServicesInit
<1>2. SIInv => StreamsAreSound
  <2> SUFFICES ASSUME SIInv PROVE EventsAreItsOwn
    BY DEF SIInv, StreamsAreSound
  <2>1. \A s \in Streams : DOMAIN Sent(s) = 1..Len(Sent(s))
    BY SentType DEF SIInv
  <2>2. \A s \in Streams : \A i \in DOMAIN Sent(s) : Sent(s)[i].job = stream[s].job
    BY <2>1 DEF SIInv, SentIsKnown
  <2>3. \A s, t \in Streams :
          \A q \in (DOMAIN Sent(s)) \X (DOMAIN Sent(s)), r \in (DOMAIN Sent(t)) \X (DOMAIN Sent(t)) :
            q[1] < q[2] /\ r[1] < r[2]
              => ~(Sent(s)[q[1]] = Sent(t)[r[2]] /\ Sent(s)[q[2]] = Sent(t)[r[1]])
    BY <2>1 DEF SIInv, OrdersAgree
  <2> DEFINE Order(s) == {<<Sent(s)[p[1]], Sent(s)[p[2]]>> :
                           p \in {q \in (DOMAIN Sent(s)) \X (DOMAIN Sent(s)) : q[1] < q[2]}}
  <2>4. \A s, t \in Streams : \A p \in Order(s) : <<p[2], p[1]>> \notin Order(t)
    <3> SUFFICES ASSUME NEW s \in Streams, NEW t \in Streams, NEW p \in Order(s),
                        <<p[2], p[1]>> \in Order(t)
                 PROVE  FALSE
      OBVIOUS
    <3>1. PICK q \in (DOMAIN Sent(s)) \X (DOMAIN Sent(s)) :
            q[1] < q[2] /\ p = <<Sent(s)[q[1]], Sent(s)[q[2]]>>
      OBVIOUS
    <3>2. PICK r \in (DOMAIN Sent(t)) \X (DOMAIN Sent(t)) :
            r[1] < r[2] /\ <<p[2], p[1]>> = <<Sent(t)[r[1]], Sent(t)[r[2]]>>
      OBVIOUS
    <3> QED BY <3>1, <3>2, <2>3
  <2> QED BY <2>2, <2>4 DEF EventsAreItsOwn, Sent
<1> QED BY <1>1, <1>2, StreamsStepIInv, PTL DEF ServicesSpec

\* The state of every part keeps its shape.
THEOREM TypeCorrect == ServicesSpec => []ServicesType
<1>1. ServicesInit => RIInv /\ SIInv
  BY RecorderInitIInv, StreamsInitIInv DEF ServicesInit
<1>2. RIInv /\ QIInv /\ SIInv => ServicesType
  BY DEF RIInv, QIInv, SIInv, ServicesType
<1> QED BY <1>1, <1>2, RecorderStepIInv, StreamsStepIInv, QueueInvariance, PTL DEF ServicesSpec
=============================================================================
