------------------------------ MODULE Services ------------------------------
(***************************************************************************)
(* What works beside the delivery of a report: the board's microphone      *)
(* recorder in the station, and in the retained service its task queue     *)
(* with the quick transcriptions, and its event broadcaster.  They share   *)
(* no state, so each behaviour is one part's; the others stay where they   *)
(* begin.                                                                  *)
(***************************************************************************)
EXTENDS BoardRecorder, QuickTranscription, Broadcaster

VARIABLE part       \* the part the behaviour is about

servicesVars == <<recorderVars, quickVars, streamVars, part>>

ServicesInit ==
  /\ RecorderInit /\ QuickInit /\ StreamsInit
  /\ part \in {"recorder", "queue", "streams"}

\* The part under view, and the others unchanged.
OfRecorder == part = "recorder" /\ UNCHANGED <<quickVars, streamVars, part>>
OfQueue    == part = "queue" /\ UNCHANGED <<recorderVars, streamVars, part>>
OfStreams  == part = "streams" /\ UNCHANGED <<recorderVars, quickVars, part>>

ServicesNext ==
  \/ OfRecorder /\ RecorderNext
  \/ OfQueue /\ QuickNext
  \/ OfStreams /\ StreamsNext

\* Goroutines, tasks and handlers run on; a processor of a job ends, if only by
\* its timeout of four hours; the process ends when TaskQueue.Stop() returns.
\* asyncio.Lock is first come first served.  What one of them can do is finite
\* while the others wait, so fairness of all of a part is that of each.
ServicesFairness ==
  /\ WF_servicesVars(\/ OfRecorder /\ RecorderGoesOn
                     \/ OfQueue /\ QuickGoesOn
                     \/ OfStreams /\ StreamsGoOn)
  /\ WF_servicesVars(OfQueue /\ QueueGoesOn)
  /\ WF_servicesVars(OfQueue /\ Dies /\ Stopped)
  /\ SF_servicesVars(OfRecorder /\ \E j \in Recordings : WatcherLocks(j))
  /\ \A s \in Stops : SF_servicesVars(OfRecorder /\ StopLocks(s))

ServicesSpec == ServicesInit /\ [][ServicesNext]_servicesVars /\ ServicesFairness

-----------------------------------------------------------------------------
\* The state of every part has the shape its module gives it.
ServicesType == RecorderType /\ QuickType /\ StreamsType

\* A job is processed once at a time, and its row is not taken from the worker
\* that processes it (internal/queue/queue.go, quick_transcription.go).
JobsHaveOneOwner == OneExecution /\ OwnedUnlessPurged

\* What the users see as pending or processing is known to the process that
\* serves them (internal/queue/queue.go).
JobsAreKept == PendingIsKept /\ ProcessingIsOwned

\* A deletion that was accepted is final, and so is a kill, but for the merge of
\* several tracks (queue.go, lifecycle.go, multitrack_transcriber.go).
VerdictsStand == KilledNeverCompletes /\ DeletedStays

\* A quick result outlives a restart, and the audio kept for quick jobs is
\* bounded (quick_transcription.go).
QuickIsSound == QuickIsDurable /\ QuickIsBounded

\* A board recording has one who will end it, is archived from a file that
\* nobody writes to, and only once (recorder.py).
RecordingsAreSound == [](RecordingIsOwned /\ SourceIsClosed) /\ FinishedOnce

\* Every recording that is stopped or ends by itself is archived (recorder.py).
\* Recordings are interchangeable: it is asked of one of them.
RecordingsEnd == RecordingEnds(CHOOSE j \in Recordings : TRUE)

\* No event goes to a closed channel or to the wrong client (broadcaster.go).
StreamsAreSound == SubscribersAreOpen /\ EventsAreItsOwn
=============================================================================
