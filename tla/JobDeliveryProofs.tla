------------------------- MODULE JobDeliveryProofs -------------------------
(***************************************************************************)
(* Theorems about JobDelivery for any set of jobs, any export formats, any *)
(* number of intents and of requests served late.                          *)
(***************************************************************************)
EXTENDS JobDelivery, MacWorkerProofs

(***************************************************************************)
(* The inductive invariant.  The generation guard is only inductive        *)
(* together with the facts that a round never runs ahead of its row, that  *)
(* it was started by a due row, and that rows without a source yet are     *)
(* untouched by delivery.                                                  *)
(***************************************************************************)
\* A row by itself: rows without a source are untouched by delivery, the
\* command is the one the stage asks for, completion has its archive.
RowOK(row, archive) ==
  /\ row.stage \in {"absent", "recording"} => ~row.submitted /\ row.action = "none"
  /\ CommandMatches(row)
  /\ row.stage = "completed" => archive = Formats /\ row.result # NoResult

\* A round of the loop against the row it works on.
RoundFollowsRow ==
  InRound =>
    /\ Generation <= Row.gen
    /\ WorkDue(loop.row)
    /\ loop.row.stage # "recording"
    /\ loop.row.action # "none" => loop.row.submitted
    /\ Row.stage \notin {"absent", "recording"}
    /\ loop.done \subseteq files[loop.job]

IInv ==
  /\ TypeOK
  /\ \A j \in Jobs : RowOK(station[j], files[j])
  /\ RoundFollowsRow
  /\ GenerationGuardsRow

-----------------------------------------------------------------------------
(* What the row operators preserve, whatever row they are given. *)

\* An answer of the worker keeps the row well formed, its generation and its
\* result; it neither completes a job nor touches a cancelled stage.
LEMMA ApplyRemoteLemma ==
  ASSUME NEW r \in Rows, NEW remote \in RemoteStages, NEW gen \in Nat
  PROVE  LET n == ApplyRemote(r, remote, gen) IN
         /\ n \in Rows
         /\ n.gen = r.gen /\ n.result = r.result /\ n.submitted
         /\ n.stage = "completed" => r.stage = "completed"
         /\ r.stage = "cancelled" => n.stage = "cancelled"
         /\ r.gen # gen => n.stage = r.stage
         /\ r.gen # gen /\ r.submitted => n = r
         /\ CommandMatches(r) => CommandMatches(n)
         /\ n.stage \in {"absent", "recording"} => n.stage = r.stage
         /\ r.gen = gen /\ r.stage # "cancelled" /\ remote = "completed" =>
              n.stage = "exporting" /\ n.action = "none"
<1> DEFINE accepted == AcceptRemote(r, remote)
           stale    == AcceptStale(r, remote)
<1>1. /\ accepted \in Rows
      /\ accepted.gen = r.gen /\ accepted.result = r.result /\ accepted.submitted
      /\ accepted.stage # "completed"
      /\ r.stage = "cancelled" => accepted.stage = "cancelled"
      /\ CommandMatches(accepted)
      /\ accepted.stage \in {"absent", "recording"} => accepted.stage = r.stage
      /\ r.stage # "cancelled" /\ remote = "completed" =>
           accepted.stage = "exporting" /\ accepted.action = "none"
  <2>1. CASE r.stage = "cancelled"
    BY <2>1 DEF AcceptRemote, Rows, Commands, CommandMatches
  <2>2. CASE r.stage # "cancelled"
    BY <2>2 DEF AcceptRemote, Rows, Stages, RemoteStages, CommandMatches
  <2> QED BY <2>1, <2>2
<1>2. /\ stale \in Rows
      /\ stale.gen = r.gen /\ stale.result = r.result /\ stale.submitted
      /\ stale.stage = r.stage
      /\ r.submitted => stale = r
      /\ CommandMatches(r) => CommandMatches(stale)
  <2>1. CASE r.submitted
    BY <2>1 DEF AcceptStale
  <2>2. CASE ~r.submitted
    <3>1. PICK a \in Commands \cup {"none"} :
                 /\ stale = [r EXCEPT !.submitted = TRUE, !.action = a]
                 /\ \/ a = "cancel" /\ r.stage = "cancelled"
                    \/ a = "retry" /\ r.stage = "queued"
                    \/ a = r.action
      BY <2>2 DEF AcceptStale, Rows, Commands
    <3> QED BY <2>2, <3>1 DEF Rows, CommandMatches
  <2> QED BY <2>1, <2>2 DEF Rows
<1>3. ApplyRemote(r, remote, gen) = IF r.gen = gen THEN accepted ELSE stale
  BY DEF ApplyRemote, Current, Rows, AnyGeneration
<1> QED BY <1>1, <1>2, <1>3

\* defer() changes the stage only in its terminal form and for its generation.
LEMMA DeferLemma ==
  ASSUME NEW r \in Rows, NEW gen \in Nat, NEW terminal \in BOOLEAN
  PROVE  LET n == Defer(r, gen, terminal) IN
         /\ n \in Rows
         /\ n.gen = r.gen /\ n.result = r.result /\ n.submitted = r.submitted
         /\ n # r => terminal /\ r.gen = gen /\ n.stage = "failed" /\ n.action = "none"
<1> DEFINE n == Defer(r, gen, terminal)
           changed == [r EXCEPT !.stage = "failed", !.action = "none"]
<1>1. n = r \/ (terminal /\ r.gen = gen /\ n = changed)
  BY DEF Defer, Current, Rows, AnyGeneration
<1>2. CASE n = r
  BY <1>2 DEF Rows
<1>3. CASE terminal /\ r.gen = gen /\ n = changed
  <2>1. changed \in Rows
    BY DEF Rows, Stages, RemoteStages
  <2> QED BY <1>3, <2>1 DEF Rows
<1> QED BY <1>1, <1>2, <1>3

\* complete() completes a job of its generation only, never a cancelled one.
LEMMA CompleteLemma ==
  ASSUME NEW r \in Rows, NEW gen \in Nat
  PROVE  LET n == CompleteRow(r, gen, 0) IN
         /\ n \in Rows
         /\ n.gen = r.gen /\ n.submitted = r.submitted
         /\ n # r => /\ r.gen = gen /\ r.stage # "cancelled"
                     /\ n.stage = "completed" /\ n.action = "none" /\ n.result = 0
<1> DEFINE n == CompleteRow(r, gen, 0)
           changed == [r EXCEPT !.stage = "completed", !.action = "none", !.result = 0]
<1>1. n = r \/ (r.gen = gen /\ r.stage # "cancelled" /\ n = changed)
  BY DEF CompleteRow, Current, Rows, AnyGeneration
<1>2. CASE n = r
  BY <1>2 DEF Rows
<1>3. CASE r.gen = gen /\ r.stage # "cancelled" /\ n = changed
  <2>1. changed \in Rows
    BY DEF Rows, Stages, RemoteStages
  <2> QED BY <1>3, <2>1 DEF Rows
<1> QED BY <1>1, <1>2, <1>3

\* remote_missing() forgets the worker's copy and keeps a cancellation.
LEMMA RemoteMissingLemma ==
  ASSUME NEW r \in Rows, NEW gen \in Nat
  PROVE  LET n == RemoteMissing(r, gen) IN
         /\ n \in Rows
         /\ n.gen = r.gen /\ n.result = r.result
         /\ n # r => /\ r.gen = gen /\ ~n.submitted /\ n.action = "none"
                     /\ n.stage = IF r.stage = "cancelled" THEN "cancelled" ELSE "queued"
         /\ r.stage = "cancelled" => n.stage = "cancelled"
<1> DEFINE n == RemoteMissing(r, gen)
           changed == [r EXCEPT !.submitted = FALSE, !.action = "none",
                              !.stage = IF @ = "cancelled" THEN @ ELSE "queued"]
<1>1. n = r \/ (r.gen = gen /\ n = changed)
  BY DEF RemoteMissing, Current, Rows, AnyGeneration
<1>2. CASE n = r
  BY <1>2 DEF Rows
<1>3. CASE r.gen = gen /\ n = changed
  <2>1. changed \in Rows
    BY DEF Rows, Stages, RemoteStages
  <2> QED BY <1>3, <2>1 DEF Rows
<1> QED BY <1>1, <1>2, <1>3

\* cancel() and retry() open a new generation.
LEMMA IntentLemma ==
  ASSUME NEW r \in Rows
  PROVE  /\ CancelRow(r) \in Rows
         /\ CancelRow(r).gen = r.gen + 1 /\ CancelRow(r).stage = "cancelled"
         /\ RetryRow(r) \in Rows
         /\ RetryRow(r).gen = r.gen + 1 /\ RetryRow(r).stage = "queued"
<1>0. r.gen + 1 \in Nat
  BY DEF Rows
<1>1. PICK c \in Commands \cup {"none"} :
        CancelRow(r) = [r EXCEPT !.stage = "cancelled", !.gen = r.gen + 1, !.action = c]
  BY DEF CancelRow, Commands
<1>2. PICK d \in Commands \cup {"none"} :
        RetryRow(r) = [r EXCEPT !.stage = "queued", !.gen = r.gen + 1, !.action = d]
  BY DEF RetryRow, Commands
<1> QED BY <1>0, <1>1, <1>2 DEF Rows, Stages, RemoteStages

-----------------------------------------------------------------------------
LEMMA HandleType ==
  ASSUME MacTypeOK, NEW request, NEW j \in Jobs, NEW answer, Handle(request, j, answer)
  PROVE  MacTypeOK'
<1>1. CASE HandlerStep(j)
  BY <1>1, ConsumerType
<1>2. CASE UNCHANGED macVars
  BY <1>2 DEF macVars, MacTypeOK
<1> QED BY <1>1, <1>2 DEF Handle, HandlerStep

-----------------------------------------------------------------------------
(* Three ways a step can preserve the invariant. *)

\* The worker moves, or an answer arrives on the wire: no row changes.
LEMMA NoRowWritten ==
  ASSUME IInv, MacTypeOK', UNCHANGED <<station, files, loop>>,
         wire' = wire \/ \E a \in Answers :
                           wire.answer # "none" /\ wire' = [wire EXCEPT !.answer = a],
         late' \subseteq late, overtaken' \subseteq Jobs
  PROVE  IInv'
<1>1. TypeOK'
  BY DEF IInv, TypeOK, InRound, Answers, RemoteStages
<1>2. (\A j \in Jobs : RowOK(station[j], files[j]))'
  BY DEF IInv
<1>3. RoundFollowsRow' /\ GenerationGuardsRow'
  BY DEF IInv, InRound, RoundFollowsRow, GenerationGuardsRow, Row, Generation
<1> QED BY <1>1, <1>2, <1>3 DEF IInv

\* A user or a recorder writes a row: a new intent has a new generation, and
\* without one the row has no source and so no round works on it.
LEMMA UserWrites ==
  ASSUME IInv, NEW j \in Jobs, NEW n \in Rows, SetRow(j, n), RowOK(n, files[j]),
         \/ n.gen = station[j].gen + 1 /\ n.stage \notin {"absent", "recording"}
         \/ station[j].stage \in {"absent", "recording"},
         UNCHANGED <<macVars, files, loop, wire, late, overtaken>>
  PROVE  IInv'
<1>0. station' \in [Jobs -> Rows] /\ station'[j] = n
  BY DEF IInv, TypeOK, InRound, SetRow
<1>1. TypeOK'
  BY <1>0 DEF IInv, TypeOK, InRound, MacTypeOK, macVars
<1>2. (\A i \in Jobs : RowOK(station[i], files[i]))'
  BY DEF IInv, TypeOK, InRound, SetRow
<1>3. CASE ~InRound
  BY <1>1, <1>2, <1>3 DEF IInv, InRound, RoundFollowsRow, GenerationGuardsRow
<1>4. CASE InRound /\ loop.job # j
  <2>1. loop.job \in Jobs
    BY <1>4 DEF IInv, TypeOK, InRound
  <2>2. station'[loop.job] = station[loop.job]
    BY <1>4, <2>1 DEF IInv, TypeOK, InRound, SetRow
  <2> QED
    BY <1>1, <1>2, <1>4, <2>2 DEF IInv, RoundFollowsRow, GenerationGuardsRow, Row, Generation
<1>5. CASE InRound /\ loop.job = j
  <2>1. n.gen = station[j].gen + 1 /\ n.stage \notin {"absent", "recording"}
    BY <1>5 DEF IInv, RoundFollowsRow, Row
  <2>2. /\ loop.row.gen \in Nat /\ station[j].gen \in Nat
        /\ loop.row.gen <= station[j].gen
    BY <1>5 DEF IInv, TypeOK, InRound, Rows, RoundFollowsRow, Row, Generation
  <2>3. loop.row.gen <= n.gen /\ n.gen # loop.row.gen
    BY <2>1, <2>2
  <2>4. RoundFollowsRow' /\ GenerationGuardsRow'
    BY <1>0, <1>5, <2>1, <2>3
    DEF IInv, RoundFollowsRow, GenerationGuardsRow, Row, Generation
  <2> QED BY <1>1, <1>2, <2>4 DEF IInv
<1> QED BY <1>3, <1>4, <1>5

\* A round ends, having written a row or not, or the task ends with it.
LEMMA RoundEnds ==
  ASSUME IInv, station' \in [Jobs -> Rows],
         \A j \in Jobs : RowOK(station'[j], files[j]),
         loop' \in {LoopIdle, LoopDead}, wire' = NoWire,
         UNCHANGED <<macVars, files, overtaken>>,
         late' \subseteq Requests \X Jobs
  PROVE  IInv'
<1>0. /\ loop'.job = NoJob /\ loop'.at \in {"idle", "dead"}
      /\ loop' \in [at : Steps, job : Jobs \cup {NoJob}, row : Rows, done : SUBSET Formats]
  <2>1. AbsentRow \in Rows
    BY DEF Rows, AbsentRow, Stages, NoResult
  <2> QED BY <2>1 DEF LoopIdle, LoopDead, Steps
<1>1. TypeOK'
  BY <1>0 DEF IInv, TypeOK, InRound, MacTypeOK, macVars, NoWire
<1>2. RoundFollowsRow' /\ GenerationGuardsRow'
  BY DEF LoopIdle, LoopDead, InRound, RoundFollowsRow, GenerationGuardsRow
<1> QED BY <1>1, <1>2 DEF IInv

\* As above, the row being the one of the round.
LEMMA RoundEndsWith ==
  ASSUME IInv, InRound, NEW n \in Rows, SetRow(loop.job, n),
         RowOK(n, files[loop.job]), EndRound, UNCHANGED <<macVars, files, overtaken>>,
         late' \subseteq Requests \X Jobs
  PROVE  IInv'
<1>1. loop.job \in Jobs
  BY DEF IInv, TypeOK, InRound
<1>2. station' \in [Jobs -> Rows]
  BY <1>1 DEF IInv, TypeOK, InRound, SetRow
<1>3. \A j \in Jobs : RowOK(station'[j], files[j])
  BY <1>1 DEF IInv, TypeOK, InRound, SetRow
<1> QED BY <1>2, <1>3, RoundEnds DEF EndRound

-----------------------------------------------------------------------------
(* The invariant is inductive: one lemma per group of actions. *)

LEMMA InitIInv == Init => IInv
<1> SUFFICES ASSUME Init PROVE IInv
  OBVIOUS
<1>1. TypeOK
  BY NoJobAssumption DEF Init, TypeOK, InRound, MacInit, MacTypeOK, MacStages, Places, Idle, Rows,
     AbsentRow, Stages, NoResult, LoopIdle, Steps, NoWire
<1>2. \A j \in Jobs : RowOK(station[j], files[j])
  BY DEF Init, RowOK, CommandMatches, AbsentRow
<1> QED
  BY <1>1, <1>2 DEF Init, IInv, InRound, RoundFollowsRow, GenerationGuardsRow, LoopIdle

LEMMA UserIInv ==
  ASSUME IInv, NEW j \in Jobs, User(j) \/ StopRecording(j)
  PROVE  IInv'
<1>0. station[j] \in Rows /\ RowOK(station[j], files[j])
  BY DEF IInv, TypeOK, InRound
<1>1. ASSUME NEW recording \in BOOLEAN, station[j].stage = "absent",
             SetRow(j, CreateRow(station[j], recording)),
             UNCHANGED <<macVars, files, loop, wire, late, overtaken>>
      PROVE  IInv'
  <2> DEFINE n == CreateRow(station[j], recording)
  <2>1. n \in Rows /\ RowOK(n, files[j])
    BY <1>0, <1>1 DEF CreateRow, Rows, Stages, RemoteStages, RowOK, CommandMatches
  <2> QED BY <1>1, <2>1, UserWrites
<1>2. CASE Submit(j) \/ StartRecording(j)
  BY <1>1, <1>2 DEF Submit, StartRecording
<1>3. CASE StopRecording(j)
  <2>1. PICK error \in BOOLEAN, hasBytes \in BOOLEAN :
          SetRow(j, FinishRecording(station[j], error, hasBytes))
    BY <1>3 DEF StopRecording
  <2> DEFINE n == FinishRecording(station[j], error, hasBytes)
  <2>2. n \in Rows /\ RowOK(n, files[j])
    BY <1>0, <1>3
    DEF StopRecording, FinishRecording, Rows, Stages, RemoteStages, RowOK, CommandMatches
  <2> QED BY <1>3, <2>1, <2>2, UserWrites DEF StopRecording
<1>4. CASE UserCancel(j)
  <2> DEFINE n == CancelRow(station[j])
  <2>1. n \in Rows /\ n.gen = station[j].gen + 1 /\ n.stage = "cancelled"
    BY <1>0, IntentLemma
  <2>2. RowOK(n, files[j])
    BY <1>0 DEF CancelRow, Rows, RowOK, CommandMatches
  <2> QED BY <1>4, <2>1, <2>2, UserWrites DEF UserCancel
<1>5. CASE UserRetry(j)
  <2> DEFINE n == RetryRow(station[j])
  <2>1. n \in Rows /\ n.gen = station[j].gen + 1 /\ n.stage = "queued"
    BY <1>0, IntentLemma
  <2>2. RowOK(n, files[j])
    BY <1>0 DEF RetryRow, Rows, RowOK, CommandMatches
  <2> QED BY <1>5, <2>1, <2>2, UserWrites DEF UserRetry
<1> QED BY <1>2, <1>3, <1>4, <1>5 DEF User

LEMMA PickIInv ==
  ASSUME IInv, NEW j \in Jobs, Pick(j)
  PROVE  IInv'
<1>0. station[j] \in Rows /\ RowOK(station[j], files[j])
  BY DEF IInv, TypeOK, InRound
<1>1. RequestFor(station[j]) \in Requests /\ RequestFor(station[j]) # "none"
  BY <1>0 DEF RequestFor, Requests, Commands, Rows
<1>2. TypeOK'
  BY <1>0, <1>1, NoJobAssumption DEF Pick, IInv, TypeOK, InRound, MacTypeOK, macVars, Steps
<1>3. station[j].stage \notin {"absent", "recording"}
  BY <1>0 DEF Pick, WorkDue, RowOK
<1>4. RoundFollowsRow' /\ GenerationGuardsRow'
  BY <1>0, <1>3
  DEF Pick, RoundFollowsRow, GenerationGuardsRow, Row, Generation, RowOK, CommandMatches, Rows
<1> QED BY <1>2, <1>4 DEF IInv, Pick

LEMMA ServeIInv ==
  ASSUME IInv, Serve \/ Unavailable
  PROVE  IInv'
<1>1. CASE Serve /\ ServeWaiting
  <2>1. PICK answer \in Answers :
          /\ Handle(wire.request, loop.job, answer)
          /\ wire' = [wire EXCEPT !.answer = answer]
    BY <1>1 DEF ServeWaiting
  <2>2. wire.request # "none" /\ loop.job \in Jobs
    BY <1>1 DEF ServeWaiting, IInv, TypeOK, InRound
  <2>3. MacTypeOK'
    BY <2>1, <2>2, HandleType DEF IInv, TypeOK, InRound
  <2>4. overtaken' \subseteq Jobs
    BY <1>1 DEF ServeWaiting, IInv, TypeOK
  <2> QED BY <1>1, <2>1, <2>3, <2>4, NoRowWritten DEF Serve, ServeWaiting
<1>2. CASE Serve /\ ServeLate
  <2>1. PICK r \in late, answer \in Answers :
          /\ Handle(r[1], r[2], answer)
          /\ late' = late \ {r}
          /\ overtaken' = IF mac' # mac THEN overtaken \cup {r[2]} ELSE overtaken
          /\ UNCHANGED wire
    BY <1>2 DEF ServeLate
  <2>2. r[2] \in Jobs
    BY DEF IInv, TypeOK, InRound
  <2>3. MacTypeOK'
    BY <2>1, <2>2, HandleType DEF IInv, TypeOK, InRound
  <2>4. overtaken' \subseteq Jobs
    BY <2>1, <2>2 DEF IInv, TypeOK
  <2> QED BY <1>2, <2>1, <2>3, <2>4, NoRowWritten DEF Serve
<1>3. CASE Unavailable
  <2>1. MacTypeOK'
    BY <1>3 DEF Unavailable, IInv, TypeOK, InRound, MacTypeOK, macVars
  <2> QED BY <1>3, <2>1, NoRowWritten DEF Unavailable, Answers, IInv, TypeOK
<1> QED BY <1>1, <1>2, <1>3 DEF Serve

\* The seven ways an answer, or the lack of one, ends a round or moves it on.
LEMMA ReceiveIInv ==
  ASSUME IInv, Receive
  PROVE  IInv'
<1>0. loop.at = "request" /\ loop.job \in Jobs
  BY DEF Receive, ReceiveJob, ReceiveConflict, ReceiveRetryPending, ReceiveMissing,
     ReceiveRefused, ReceiveUnavailable, IInv, TypeOK, InRound, RemoteStages
<1>1. /\ Row \in Rows /\ Generation \in Nat /\ RowOK(Row, files[loop.job])
      /\ Row.stage \notin {"absent", "recording"}
  BY <1>0 DEF IInv, TypeOK, InRound, Rows, Row, Generation, RoundFollowsRow
<1>2. CASE ReceiveJob
  <2> DEFINE n == ApplyRemote(Row, wire.answer, Generation)
  <2>1. /\ n \in Rows /\ RowOK(n, files[loop.job])
        /\ n.gen = Row.gen /\ n.submitted
        /\ n.stage \notin {"absent", "recording"}
    BY <1>1, <1>2, ApplyRemoteLemma DEF ReceiveJob, RowOK
  <2>2. CASE EndRound
    BY <1>0, <1>2, <2>1, <2>2, RoundEndsWith DEF ReceiveJob, IInv, TypeOK, InRound
  <2>3. CASE ~EndRound
    <3>1. /\ Row.gen = Generation /\ wire.answer = "completed" /\ Row.stage # "cancelled"
          /\ loop' = [loop EXCEPT !.at = "result"] /\ wire' = NoWire
      BY <1>1, <1>2, <2>3 DEF ReceiveJob, Current, AnyGeneration
    <3>2. n.stage = "exporting" /\ n.action = "none"
      BY <1>1, <1>2, <3>1, ApplyRemoteLemma DEF ReceiveJob
    <3>3. station' \in [Jobs -> Rows] /\ station'[loop.job] = n
      BY <1>0, <1>2, <2>1 DEF ReceiveJob, SetRow, IInv, TypeOK, InRound
    <3>4. TypeOK'
      BY <1>0, <1>2, <3>1, <3>3
      DEF ReceiveJob, IInv, TypeOK, InRound, MacTypeOK, macVars, NoWire, Steps
    <3>5. (\A j \in Jobs : RowOK(station[j], files[j]))'
      BY <1>0, <1>2, <2>1 DEF ReceiveJob, SetRow, IInv, TypeOK, InRound
    <3>6. RoundFollowsRow' /\ GenerationGuardsRow'
      BY <1>0, <1>2, <2>1, <3>1, <3>2, <3>3
      DEF ReceiveJob, IInv, TypeOK, InRound, RoundFollowsRow, GenerationGuardsRow, Row, Generation
    <3> QED BY <3>4, <3>5, <3>6 DEF IInv
  <2> QED BY <2>2, <2>3
<1>3. CASE ReceiveConflict
  <2>1. TypeOK'
    BY <1>0, <1>3 DEF ReceiveConflict, IInv, TypeOK, InRound, MacTypeOK, macVars, Requests
  <2>2. RoundFollowsRow' /\ GenerationGuardsRow'
    BY <1>3 DEF ReceiveConflict, IInv, InRound, RoundFollowsRow, GenerationGuardsRow, Row, Generation
  <2> QED BY <1>3, <2>1, <2>2 DEF ReceiveConflict, IInv
<1>4. CASE ReceiveMissing
  <2> DEFINE n == RemoteMissing(Row, Generation)
  <2>1. n \in Rows /\ RowOK(n, files[loop.job])
    BY <1>1, RemoteMissingLemma DEF RowOK, CommandMatches
  <2> QED BY <1>0, <1>4, <2>1, RoundEndsWith DEF ReceiveMissing, IInv, TypeOK, InRound
<1>5. CASE ReceiveRetryPending \/ ReceiveRefused \/ ReceiveUnavailable
  <2>1. PICK terminal \in BOOLEAN : SetRow(loop.job, Defer(Row, Generation, terminal))
    BY <1>5 DEF ReceiveRetryPending, ReceiveRefused, ReceiveUnavailable, Final
  <2> DEFINE n == Defer(Row, Generation, terminal)
  <2>2. n \in Rows /\ RowOK(n, files[loop.job])
    BY <1>1, DeferLemma DEF RowOK, CommandMatches
  <2> QED
    BY <1>0, <1>5, <2>1, <2>2, RoundEndsWith
    DEF ReceiveRetryPending, ReceiveRefused, ReceiveUnavailable, IInv, TypeOK, InRound
<1> QED BY <1>2, <1>3, <1>4, <1>5 DEF Receive

LEMMA ArchiveIInv ==
  ASSUME IInv, Archive
  PROVE  IInv'
<1>0. loop.at \in {"result", "archive"} /\ loop.job \in Jobs
  BY DEF Archive, FetchResult, FetchRefused, Complete, ArchiveFile, IInv, TypeOK, InRound
<1>1. /\ Row \in Rows /\ Generation \in Nat /\ RowOK(Row, files[loop.job])
      /\ Row.stage \notin {"absent", "recording"} /\ loop.done \subseteq files[loop.job]
  BY <1>0 DEF IInv, TypeOK, InRound, Rows, Row, Generation, RoundFollowsRow
<1>2. CASE FetchResult
  <2>1. TypeOK'
    BY <1>0, <1>2 DEF FetchResult, IInv, TypeOK, InRound, MacTypeOK, macVars, Steps
  <2>2. RoundFollowsRow' /\ GenerationGuardsRow'
    BY <1>0, <1>2
    DEF FetchResult, IInv, TypeOK, InRound, RoundFollowsRow, GenerationGuardsRow, Row, Generation
  <2> QED BY <1>2, <2>1, <2>2 DEF FetchResult, IInv
<1>3. ASSUME NEW f \in Formats, ArchiveFile(f) PROVE IInv'
  <2>1. TypeOK'
    BY <1>0, <1>3 DEF ArchiveFile, IInv, TypeOK, InRound, MacTypeOK, macVars
  <2>2. RoundFollowsRow' /\ GenerationGuardsRow'
    BY <1>0, <1>3
    DEF ArchiveFile, IInv, TypeOK, InRound, RoundFollowsRow, GenerationGuardsRow, Row, Generation
  <2>3. (\A j \in Jobs : RowOK(station[j], files[j]))'
    BY <1>0, <1>3 DEF ArchiveFile, IInv, TypeOK, InRound, RowOK
  <2> QED BY <2>1, <2>2, <2>3 DEF IInv
<1>4. CASE FetchRefused
  <2>1. PICK terminal \in BOOLEAN : SetRow(loop.job, Defer(Row, Generation, terminal))
    BY <1>4 DEF FetchRefused, Final
  <2> DEFINE n == Defer(Row, Generation, terminal)
  <2>2. n \in Rows /\ RowOK(n, files[loop.job])
    BY <1>1, DeferLemma DEF RowOK, CommandMatches
  <2> QED BY <1>0, <1>4, <2>1, <2>2, RoundEndsWith DEF FetchRefused, IInv, TypeOK, InRound
<1>5. CASE Complete
  <2> DEFINE n == CompleteRow(Row, Generation, 0)
  <2>1. files[loop.job] = Formats
    BY <1>0, <1>1, <1>5 DEF Complete, IInv, TypeOK, InRound
  <2>2. n \in Rows /\ RowOK(n, files[loop.job])
    BY <1>1, <2>1, CompleteLemma DEF RowOK, CommandMatches, NoResult
  <2> QED BY <1>0, <1>5, <2>2, RoundEndsWith DEF Complete, IInv, TypeOK, InRound
<1> QED BY <1>2, <1>3, <1>4, <1>5 DEF Archive

LEMMA AbandonType ==
  ASSUME TypeOK, Abandon
  PROVE  late' \subseteq Requests \X Jobs
BY DEF TypeOK, InRound, Abandon, Requests

LEMMA FaultIInv ==
  ASSUME IInv, Fault
  PROVE  IInv'
<1>1. CASE Unavailable
  BY <1>1, ServeIInv
<1>2. CASE GiveUp
  <2>1. Row \in Rows /\ Generation \in Nat /\ RowOK(Row, files[loop.job])
    BY <1>2 DEF GiveUp, IInv, TypeOK, InRound, Rows, Row, Generation
  <2>2. Defer(Row, Generation, FALSE) \in Rows /\ Defer(Row, Generation, FALSE) = Row
    BY <2>1, DeferLemma
  <2> QED BY <1>2, <2>1, <2>2, AbandonType, RoundEndsWith DEF GiveUp, IInv
<1>3. CASE StationRestart
  <2>1. PICK hasBytes \in [Jobs -> BOOLEAN] :
          station' = [j \in Jobs |-> Recovered(j, hasBytes[j])]
    BY <1>3 DEF StationRestart
  <2>2. ASSUME NEW j \in Jobs
        PROVE  station'[j] \in Rows /\ RowOK(station'[j], files[j])
    <3>1. station[j] \in Rows /\ RowOK(station[j], files[j])
      BY DEF IInv, TypeOK, InRound
    <3>2. CASE station'[j] = station[j]
      BY <3>1, <3>2
    <3>3. CASE /\ station[j].stage = "recording"
               /\ station'[j] = BrowserImportPending(station[j])
      BY <3>1, <3>3 DEF BrowserImportPending, RowOK, CommandMatches, Rows, Stages
    <3>4. CASE /\ station[j].stage = "recording"
               /\ station'[j] = FinishRecording(station[j], TRUE, hasBytes[j])
      BY <3>1, <3>4
      DEF FinishRecording, RowOK, CommandMatches, Rows, Stages, RemoteStages
    <3> QED BY <2>1, <3>2, <3>3, <3>4 DEF Recovered
  <2>3. station' \in [Jobs -> Rows]
    BY <2>1, <2>2
  <2>4. late' \subseteq Requests \X Jobs
    BY <1>3, AbandonType DEF StationRestart, IInv
  <2> QED BY <1>3, <2>2, <2>3, <2>4, RoundEnds DEF StationRestart, EndRound
<1>4. CASE ConsumerLosesWrite
  <2>1. MacTypeOK'
    BY <1>4, ConsumerType DEF ConsumerLosesWrite, IInv, TypeOK, InRound
  <2> QED BY <1>4, <2>1, NoRowWritten DEF ConsumerLosesWrite, stationVars, IInv, TypeOK
<1>5. CASE (MacRestart \/ MacReset) /\ UNCHANGED stationVars
  <2>1. MacTypeOK'
    BY <1>5, RestartType DEF IInv, TypeOK, InRound
  <2> QED BY <1>5, <2>1, NoRowWritten DEF stationVars, IInv, TypeOK
<1>6. CASE LoopDies
  <2>1. late' \subseteq Requests \X Jobs
    BY <1>6, AbandonType DEF LoopDies, IInv
  <2> QED BY <1>6, <2>1, RoundEnds DEF LoopDies, IInv, TypeOK
<1> QED BY <1>1, <1>2, <1>3, <1>4, <1>5, <1>6 DEF Fault

LEMMA NextIInv == IInv /\ [Next]_vars => IInv'
<1> SUFFICES ASSUME IInv, [Next]_vars PROVE IInv'
  OBVIOUS
<1>1. ASSUME NEW j \in Jobs, User(j) \/ StopRecording(j) PROVE IInv'
  BY <1>1, UserIInv
<1>2. ASSUME NEW j \in Jobs, Pick(j) PROVE IInv'
  BY <1>2, PickIInv
<1>3. CASE Serve
  BY <1>3, ServeIInv
<1>4. CASE Receive
  BY <1>4, ReceiveIInv
<1>5. CASE Archive
  BY <1>5, ArchiveIInv
<1>6. CASE MacStep
  <2>1. MacTypeOK'
    BY <1>6, ConsumerType DEF MacStep, IInv, TypeOK, InRound
  <2> QED BY <1>6, <2>1, NoRowWritten DEF MacStep, stationVars, IInv, TypeOK
<1>7. CASE Fault
  BY <1>7, FaultIInv
<1>8. CASE UNCHANGED vars
  <2>1. MacTypeOK'
    BY <1>8 DEF vars, macVars, MacTypeOK, IInv, TypeOK, InRound
  <2> QED BY <1>8, <2>1, NoRowWritten DEF vars, stationVars, IInv, TypeOK
<1> QED BY <1>1, <1>2, <1>3, <1>4, <1>5, <1>6, <1>7, <1>8 DEF Next, Work

-----------------------------------------------------------------------------
(* The theorems. *)

\* In every reachable state the whole inductive invariant holds.
THEOREM Invariance == Spec => []IInv
<1>1. Init => IInv
  BY InitIInv
<1>2. IInv /\ [Next]_vars => IInv'
  BY NextIInv
<1> QED BY <1>1, <1>2, PTL DEF Spec

\* Rows, rounds, exchanges and the worker's table are always well formed.
THEOREM TypeCorrect == Spec => []TypeOK
<1>1. IInv => TypeOK
  BY DEF IInv
<1> QED BY <1>1, Invariance, PTL

\* store.py's generation check is enough: a round whose generation is still
\* the row's finds the row as it left it, whatever happened in between.
THEOREM GenerationIsSound == Spec => []GenerationGuardsRow
<1>1. IInv => GenerationGuardsRow
  BY DEF IInv
<1> QED BY <1>1, Invariance, PTL

\* A pending cancel or retry is always what the user asked for last.
THEOREM CommandsFollowIntent == Spec => []CommandIsLatestIntent
<1>1. IInv => CommandIsLatestIntent
  BY DEF IInv, RowOK, CommandIsLatestIntent
<1> QED BY <1>1, Invariance, PTL

\* No completed job lacks a result or one of its exports on the station.
THEOREM CompletionIsArchived == Spec => []CompletedIsArchived
<1>1. IInv => CompletedIsArchived
  BY DEF IInv, RowOK, CompletedIsArchived
<1> QED BY <1>1, Invariance, PTL

\* A cancellation at the station lasts until its user retries the job.
THEOREM CancellationSticks == Spec => CancelSticks
<1> DEFINE Kept(j)  == station'[j].stage = "cancelled"
           Retried(j) == /\ station'[j].gen = station[j].gen + 1
                         /\ station'[j].stage = "queued"
<1>1. ASSUME IInv, Next, NEW j \in Jobs, station[j].stage = "cancelled"
      PROVE  Kept(j) \/ Retried(j)
  <2>0. station \in [Jobs -> Rows]
    BY <1>1 DEF IInv, TypeOK, InRound
  <2>1. CASE UNCHANGED station
    BY <1>1, <2>1
  <2>2. ASSUME NEW i \in Jobs, User(i) \/ StopRecording(i)
        PROVE  Kept(j) \/ Retried(j)
    <3>1. CASE i # j
      BY <1>1, <2>0, <2>2, <3>1
      DEF User, Submit, StartRecording, StopRecording, UserCancel, UserRetry, SetRow
    <3>2. CASE i = j
      <4>1. UserRetry(j)
        BY <1>1, <2>2, <3>2 DEF User, Submit, StartRecording, StopRecording, UserCancel,
           CanCancel, TERMINAL
      <4>2. station'[j] = RetryRow(station[j])
        BY <2>0, <4>1 DEF UserRetry, SetRow
      <4> QED BY <2>0, <4>2, IntentLemma
    <3> QED BY <3>1, <3>2
  <2>3. ASSUME NEW n \in Rows, SetRow(loop.job, n), loop.job \in Jobs,
               Row.stage = "cancelled" => n.stage = "cancelled"
        PROVE  Kept(j)
    BY <1>1, <2>0, <2>3 DEF SetRow, Row
  <2>4. CASE Receive \/ Archive \/ GiveUp
    <3>1. ASSUME InRound
          PROVE  /\ loop.job \in Jobs /\ Row \in Rows /\ Generation \in Nat
                 /\ loop.row \in Rows
      BY <1>1, <3>1 DEF IInv, TypeOK, InRound, Rows, Row, Generation
    <3>2. ASSUME NEW terminal \in BOOLEAN, InRound,
                 SetRow(loop.job, Defer(Row, Generation, terminal)),
                 terminal => Row.gen # Generation \/ Row.stage # "cancelled"
          PROVE  Kept(j)
      BY <2>3, <3>1, <3>2, DeferLemma
    <3>3. CASE ReceiveJob
      <4>1. InRound
        BY <1>1, <3>3 DEF ReceiveJob, IInv, TypeOK, InRound, RemoteStages
      <4> QED BY <2>3, <3>1, <3>3, <4>1, ApplyRemoteLemma DEF ReceiveJob
    <3>4. CASE ReceiveMissing
      <4>1. InRound
        BY <1>1, <3>4 DEF ReceiveMissing, IInv, TypeOK, InRound
      <4> QED BY <2>3, <3>1, <3>4, <4>1, RemoteMissingLemma DEF ReceiveMissing
    <3>5. CASE ReceiveRetryPending \/ ReceiveUnavailable \/ GiveUp
      <4>1. InRound
        BY <1>1, <3>5 DEF ReceiveRetryPending, ReceiveUnavailable, GiveUp, IInv, TypeOK, InRound
      <4> QED BY <3>2, <3>5, <4>1 DEF ReceiveRetryPending, ReceiveUnavailable, GiveUp
    <3>6. CASE ReceiveRefused
      <4>1. loop.at = "request" /\ InRound
        BY <1>1, <3>6 DEF ReceiveRefused, IInv, TypeOK, InRound
      <4>2. Final => Row.gen # Generation \/ Row.stage # "cancelled"
        BY <1>1, <3>1, <4>1
        DEF Final, IInv, GenerationGuardsRow, RoundFollowsRow, WorkDue, TERMINAL
      <4> QED BY <3>2, <3>6, <4>1, <4>2 DEF ReceiveRefused, Final
    <3>7. CASE FetchRefused
      <4>1. loop.at \in {"result", "archive"} /\ InRound
        BY <1>1, <3>7 DEF FetchRefused, IInv, TypeOK, InRound
      <4>2. Row.gen # Generation \/ Row.stage # "cancelled"
        BY <1>1, <4>1 DEF IInv, GenerationGuardsRow
      <4> QED BY <3>2, <3>7, <4>1, <4>2 DEF FetchRefused, Final
    <3>8. CASE Complete
      <4>1. InRound
        BY <1>1, <3>8 DEF Complete, IInv, TypeOK, InRound
      <4> QED BY <2>3, <3>1, <3>8, <4>1, CompleteLemma DEF Complete
    <3>9. CASE UNCHANGED station
      BY <2>1, <3>9
    <3> QED
      BY <2>4, <3>3, <3>4, <3>5, <3>6, <3>7, <3>8, <3>9
      DEF Receive, Archive, ReceiveConflict, FetchResult, ArchiveFile
  <2>5. CASE StationRestart
    BY <1>1, <2>5 DEF StationRestart, Recovered
  <2> QED
    BY <1>1, <2>1, <2>2, <2>4, <2>5
    DEF Next, Work, Pick, Serve, MacStep, Fault, Unavailable, LoopDies, ConsumerLosesWrite,
        stationVars
<1>2. IInv /\ [Next]_vars =>
        [\A j \in Jobs :
           station[j].stage = "cancelled" /\ station'[j].stage # "cancelled"
             => station'[j].gen = station[j].gen + 1 /\ station'[j].stage = "queued"]_vars
  BY <1>1
<1> QED BY <1>2, Invariance, PTL DEF CancelSticks, Spec

\* What the loop learnt for an older intent of the user leaves the newer one
\* alone: the row keeps its stage and the command that is waiting in it.
THEOREM StaleAnswersAreHarmless == Spec => StaleAnswerKeepsIntent
<1> DEFINE Kept(j) == /\ station'[j].stage = Row.stage
                      /\ Row.action # "none" => station'[j].action = Row.action
<1>1. ASSUME IInv, Next, InRound, Row.gen # Generation, loop'.job = NoJob
      PROVE  Kept(loop.job)
  <2>0. /\ loop.job \in Jobs /\ Row \in Rows /\ Generation \in Nat
        /\ CommandMatches(Row) /\ Row.stage \notin {"absent", "recording"}
        /\ station \in [Jobs -> Rows]
    BY <1>1 DEF IInv, TypeOK, InRound, Rows, Row, Generation, RowOK, RoundFollowsRow
  <2>1. ASSUME NEW n \in Rows, SetRow(loop.job, n), n.stage = Row.stage,
               Row.action # "none" => n.action = Row.action
        PROVE  Kept(loop.job)
    BY <2>0, <2>1 DEF SetRow
  <2>2. CASE ReceiveJob
    BY <1>1, <2>0, <2>1, <2>2, ApplyRemoteLemma DEF ReceiveJob, CommandMatches
  <2>3. CASE ReceiveMissing
    BY <1>1, <2>0, <2>1, <2>3, RemoteMissingLemma DEF ReceiveMissing
  <2>4. CASE Complete
    BY <1>1, <2>0, <2>1, <2>4, CompleteLemma DEF Complete
  <2>5. CASE ReceiveRetryPending \/ ReceiveRefused \/ ReceiveUnavailable \/ FetchRefused \/ GiveUp
    <3>1. PICK terminal \in BOOLEAN : SetRow(loop.job, Defer(Row, Generation, terminal))
      BY <2>5 DEF ReceiveRetryPending, ReceiveRefused, ReceiveUnavailable, FetchRefused,
         GiveUp, Final
    <3> QED BY <1>1, <2>0, <2>1, <3>1, DeferLemma
  <2>6. CASE StationRestart
    BY <2>0, <2>6 DEF StationRestart, Recovered, Row
  <2>7. CASE UNCHANGED station
    BY <2>7 DEF Row
  <2>8. \/ Receive \/ Archive \/ GiveUp \/ StationRestart
        \/ UNCHANGED station
    <3>1. loop' # loop
      BY <1>1 DEF InRound
    <3> QED
      BY <1>1, <3>1 DEF Next, Work, User, Submit, StartRecording, UserCancel, UserRetry,
         StopRecording, Pick, Serve, MacStep, Fault, Unavailable, LoopDies,
         ConsumerLosesWrite, stationVars
  <2> QED
    BY <2>2, <2>3, <2>4, <2>5, <2>6, <2>7, <2>8
    DEF Receive, Archive, ReceiveConflict, FetchResult, ArchiveFile
<1>2. IInv /\ [Next]_vars =>
        [InRound /\ Row.gen # Generation /\ loop'.job = NoJob =>
           LET j == loop.job IN
           /\ station'[j].stage = Row.stage
           /\ Row.action # "none" => station'[j].action = Row.action]_vars
  BY <1>1
<1> QED BY <1>2, Invariance, PTL DEF StaleAnswerKeepsIntent, Spec

-----------------------------------------------------------------------------
(***************************************************************************)
(* Station and worker together.  What the station may forget about a       *)
(* command depends on what the worker did, so the invariant relates row,   *)
(* exchange and the worker's table.  A request served after its client     *)
(* gave up may break this relation, for its own job alone and until the    *)
(* loop's next command for that job is served: "overtaken" holds the jobs  *)
(* it may be broken for.                                                   *)
(***************************************************************************)
\* A job that is cancelled at the worker is known to be there, and its user
\* still wants that or has asked for a retry that is on its way.
CancelledIsWanted ==
  \A j \in Jobs \ overtaken : mac[j] = "cancelled" =>
    /\ station[j].submitted
    /\ station[j].stage = "cancelled" \/ station[j].action = "retry"

\* What an exchange still says about its row, although the user may have
\* changed the row since the round began.
ExchangeFollowsRow ==
  /\ Row.gen = Generation => wire.request \in {RequestFor(Row), "recheck"}
  /\ wire.request = "upload" => ~Row.submitted
  /\ wire.request \in Commands \cup {"recheck"} => Row.submitted /\ Row.action # "none"
  /\ wire.answer = "409" => wire.request = "retry"

\* What its answer still says about the worker.
AnswerFollowsWorker ==
  /\ wire.answer \in (RemoteStages \ {"cancelled"}) \cup {"404"} =>
       mac[loop.job] # "cancelled"
  /\ wire.answer \in TERMINAL => mac[loop.job] \notin Live
  /\ wire.answer = "cancelled" /\ Row.gen = Generation =>
       Row.stage = "cancelled" \/ wire.request = "recheck"

ExchangeSound ==
  /\ ExchangeFollowsRow
  /\ loop.job \notin overtaken => AnswerFollowsWorker

CInv ==
  /\ CancelledIsWanted
  /\ CancelReachesWorker
  /\ loop.at = "request" => ExchangeSound
  /\ ConsumerWorks

\* The worker moves and nothing is received: the invariant needs no more than
\* that nothing is cancelled or made live.
LEMMA WorkerMoves ==
  ASSUME IInv, CInv, UNCHANGED <<station, loop, overtaken>>, ConsumerWorks',
         \A j \in Jobs : /\ mac'[j] = "cancelled" => mac[j] = "cancelled"
                         /\ mac'[j] \in Live => mac[j] \in Live,
         wire' = wire \/ wire' = [wire EXCEPT !.answer = "unavailable"]
  PROVE  CInv'
<1>1. loop.at = "request" => loop.job \in Jobs
  BY DEF IInv, TypeOK, InRound
<1>2. CancelledIsWanted' /\ CancelReachesWorker'
  BY DEF CInv, CancelledIsWanted, CancelReachesWorker
<1>3. loop.at = "request" => ExchangeSound'
  BY <1>1 DEF CInv, ExchangeSound, ExchangeFollowsRow, AnswerFollowsWorker, Row, Generation,
     IInv, TypeOK, InRound, RemoteStages, TERMINAL
<1> QED BY <1>2, <1>3 DEF CInv

LEMMA WorkerCInv ==
  ASSUME IInv, CInv, MacStep \/ ConsumerLosesWrite \/ Unavailable
                       \/ ((MacRestart \/ MacReset) /\ UNCHANGED stationVars)
  PROVE  CInv'
<1>1. CASE Unavailable
  BY <1>1, WorkerMoves DEF Unavailable, macVars, CInv, ConsumerWorks
<1>2. CASE ~Unavailable
  BY <1>2, ConsumerMoves, WorkerMoves
  DEF MacStep, ConsumerLosesWrite, stationVars, IInv, TypeOK, InRound, CInv
<1> QED BY <1>1, <1>2

\* The user or a recorder writes row j.
LEMMA UserCInv ==
  ASSUME IInv, CInv, NEW j \in Jobs, User(j) \/ StopRecording(j)
  PROVE  CInv'
<1>0. /\ station[j] \in Rows /\ RowOK(station[j], files[j])
      /\ station \in [Jobs -> Rows]
  BY DEF IInv, TypeOK, InRound
<1>1. PICK n \in Rows :
        /\ SetRow(j, n)
        /\ n.submitted = station[j].submitted
        /\ n.submitted => /\ n.action # "none"
                          /\ n.stage = "cancelled" \/ n.action = "retry"
        /\ \/ n.gen = station[j].gen + 1
           \/ station[j].stage \in {"absent", "recording"}
  <2>1. CASE Submit(j) \/ StartRecording(j)
    <3>1. PICK recording \in BOOLEAN : SetRow(j, CreateRow(station[j], recording))
      BY <2>1 DEF Submit, StartRecording
    <3> DEFINE n == CreateRow(station[j], recording)
    <3>2. n \in Rows /\ ~n.submitted /\ n.submitted = station[j].submitted
      BY <1>0, <2>1 DEF Submit, StartRecording, CreateRow, Rows, Stages, RemoteStages, RowOK
    <3> QED BY <1>0, <2>1, <3>1, <3>2 DEF Submit, StartRecording, RowOK
  <2>2. CASE StopRecording(j)
    <3>1. PICK error \in BOOLEAN, hasBytes \in BOOLEAN :
            SetRow(j, FinishRecording(station[j], error, hasBytes))
      BY <2>2 DEF StopRecording
    <3> DEFINE n == FinishRecording(station[j], error, hasBytes)
    <3>2. n \in Rows /\ ~n.submitted /\ n.submitted = station[j].submitted
      BY <1>0, <2>2 DEF StopRecording, FinishRecording, Rows, Stages, RemoteStages, RowOK
    <3> QED BY <1>0, <2>2, <3>1, <3>2 DEF StopRecording, RowOK
  <2>3. CASE UserCancel(j)
    <3> DEFINE n == CancelRow(station[j])
    <3>1. n.submitted = station[j].submitted /\ (n.submitted => n.action = "cancel")
      BY <1>0 DEF CancelRow, Rows
    <3> QED BY <1>0, <2>3, <3>1, IntentLemma DEF UserCancel
  <2>4. CASE UserRetry(j)
    <3> DEFINE n == RetryRow(station[j])
    <3>1. n.submitted = station[j].submitted /\ (n.submitted => n.action = "retry")
      BY <1>0 DEF RetryRow, Rows
    <3> QED BY <1>0, <2>4, <3>1, IntentLemma DEF UserRetry
  <2> QED BY <2>1, <2>2, <2>3, <2>4 DEF User
<1>2. station' = [station EXCEPT ![j] = n]
  BY <1>1 DEF SetRow
<1>3. UNCHANGED <<mac, consumer, loop, wire, overtaken>>
  BY DEF User, Submit, StartRecording, StopRecording, UserCancel, UserRetry, macVars
<1>4. CancelledIsWanted' /\ CancelReachesWorker'
  BY <1>0, <1>1, <1>2, <1>3 DEF CInv, CancelledIsWanted, CancelReachesWorker
<1>5. CASE loop.at = "request"
  <2>1. loop.job \in Jobs
    BY <1>5 DEF IInv, TypeOK, InRound
  <2>2. CASE loop.job # j
    BY <1>0, <1>2, <1>3, <1>4, <1>5, <2>1, <2>2
    DEF CInv, ExchangeSound, ExchangeFollowsRow, AnswerFollowsWorker, ConsumerWorks, Row,
        Generation
  <2>3. CASE loop.job = j
    <3>1. Row' = n /\ Generation' = Generation /\ n.submitted = Row.submitted
      BY <1>0, <1>1, <1>2, <1>3, <2>3 DEF Row, Generation
    <3>2. n.gen # Generation
      <4>1. Generation <= station[j].gen /\ Generation \in Nat /\ station[j].gen \in Nat
        BY <1>5, <2>3 DEF IInv, TypeOK, InRound, RoundFollowsRow, Row, Generation, Rows
      <4>2. n.gen = station[j].gen + 1
        BY <1>1, <1>5, <2>3 DEF IInv, InRound, TypeOK, RoundFollowsRow, Row
      <4> QED BY <4>1, <4>2
    <3> QED BY <1>1, <1>3, <1>4, <1>5, <3>1, <3>2
        DEF CInv, ExchangeSound, ExchangeFollowsRow, AnswerFollowsWorker, ConsumerWorks
  <2> QED BY <2>2, <2>3
<1>6. CASE loop.at # "request"
  BY <1>3, <1>4, <1>6 DEF CInv, ConsumerWorks
<1> QED BY <1>5, <1>6

LEMMA PickCInv ==
  ASSUME IInv, CInv, NEW j \in Jobs, Pick(j)
  PROVE  CInv'
<1>0. station[j] \in Rows /\ CommandMatches(station[j])
  BY DEF IInv, TypeOK, InRound, RowOK
<1>1. Row' = station[j] /\ loop'.job = j /\ wire'.answer = "pending"
      /\ wire'.request = RequestFor(station[j])
  BY DEF Pick, Row
<1>2. ExchangeSound'
  BY <1>0, <1>1 DEF ExchangeSound, ExchangeFollowsRow, AnswerFollowsWorker, RequestFor, CommandMatches, Rows, Commands,
     RemoteStages, TERMINAL
<1> QED
  BY <1>2 DEF Pick, macVars, CInv, CancelledIsWanted, CancelReachesWorker, ConsumerWorks

\* A request served late: the worker may now differ from what row and
\* exchange say of that one job, which counts as overtaken.
LEMMA ServeLateCInv ==
  ASSUME IInv, CInv, ServeLate, UNCHANGED <<station, files, loop>>
  PROVE  CInv'
<1>1. PICK r \in late, answer \in Answers :
        /\ Handle(r[1], r[2], answer)
        /\ overtaken' = IF mac' # mac THEN overtaken \cup {r[2]} ELSE overtaken
        /\ UNCHANGED wire
  BY DEF ServeLate
<1>2. r[2] \in Jobs /\ mac \in [Jobs -> MacStages]
  BY DEF IInv, TypeOK, MacTypeOK
<1>3. /\ UNCHANGED consumer
      /\ \A j \in Jobs \ {r[2]} : mac'[j] = mac[j]
      /\ \A j \in Jobs : mac[j] \in Live \cup {"cancelled"} => mac'[j] \in Live \cup {"cancelled"}
  BY <1>1, <1>2
  DEF Handle, CreateJob, CancelJob, RetryJob, RetryAccepted, Update, Updated, macVars,
      MacStages, Ended, Live
<1>4. overtaken \subseteq overtaken' /\ \A j \in Jobs \ overtaken' : mac'[j] = mac[j]
  BY <1>1, <1>3
<1>5. CancelledIsWanted' /\ CancelReachesWorker'
  BY <1>4 DEF CInv, CancelledIsWanted, CancelReachesWorker
<1>6. loop.at = "request" => ExchangeSound'
  <2> SUFFICES ASSUME loop.at = "request" PROVE ExchangeSound'
    OBVIOUS
  <2>1. loop.job \in Jobs
    BY DEF IInv, TypeOK, InRound
  <2> QED BY <1>1, <1>4, <2>1
      DEF CInv, ExchangeSound, ExchangeFollowsRow, AnswerFollowsWorker, Row, Generation
<1>7. ConsumerWorks'
  BY <1>3 DEF CInv, ConsumerWorks, IInv, TypeOK, MacTypeOK
<1> QED BY <1>5, <1>6, <1>7 DEF CInv

\* The worker's handlers: a cancel is still what the row says, and what is
\* made live again is not waiting for its cancellation.  A command leaves the
\* worker as the row wants it whatever a late request did before.
LEMMA ServeCInv ==
  ASSUME IInv, CInv, ServeWaiting, UNCHANGED <<station, files, loop>>
  PROVE  CInv'
<1>0. wire.answer = "pending"
  BY DEF ServeWaiting
<1>1. PICK answer \in Answers :
        /\ Handle(wire.request, loop.job, answer)
        /\ wire' = [wire EXCEPT !.answer = answer]
  BY DEF ServeWaiting
<1>2. /\ loop.at = "request" /\ loop.job \in Jobs /\ wire.request \in Requests
      /\ wire'.request = wire.request /\ wire'.answer = answer
      /\ mac \in [Jobs -> MacStages] /\ station \in [Jobs -> Rows]
  BY <1>0, <1>1 DEF IInv, TypeOK, InRound, MacTypeOK
<1>3. ExchangeFollowsRow /\ CommandMatches(Row)
      /\ Row.action \in Commands \cup {"none"} /\ Row.submitted \in BOOLEAN
  BY <1>2 DEF CInv, ExchangeSound, IInv, RowOK, Row, Rows
<1> DEFINE k == loop.job
           Answered == /\ answer \in (RemoteStages \ {"cancelled"}) \cup {"404"} =>
                            mac'[k] # "cancelled"
                       /\ answer \in TERMINAL => mac'[k] \notin Live
                       /\ answer = "cancelled" /\ Row.gen = Generation =>
                            Row.stage = "cancelled" \/ wire.request = "recheck"
           Wanted == /\ mac'[k] = "cancelled" =>
                          /\ Row.submitted
                          /\ Row.stage = "cancelled" \/ Row.action = "retry"
                     /\ Row.stage = "cancelled" /\ Row.submitted /\ Row.action = "none" =>
                          mac'[k] \notin Live
<1>4. overtaken' = IF wire.request \in Commands THEN overtaken \ {k} ELSE overtaken
  BY DEF ServeWaiting
<1>5. /\ k \notin overtaken' => Answered /\ Wanted
      /\ answer = "409" => wire.request = "retry"
      /\ UNCHANGED consumer
      /\ mac' \in [Jobs -> MacStages]
      /\ \A j \in Jobs \ {k} : mac'[j] = mac[j]
      /\ mac[k] \in Live \cup {"cancelled"} => mac'[k] \in Live \cup {"cancelled"}
  <2>0. /\ mac[k] \in MacStages
        /\ k \notin overtaken =>
             /\ mac[k] = "cancelled" =>
                  /\ Row.submitted
                  /\ Row.stage = "cancelled" \/ Row.action = "retry"
             /\ Row.stage = "cancelled" /\ Row.submitted /\ Row.action = "none" =>
                  mac[k] \notin Live
    BY <1>2 DEF CInv, CancelledIsWanted, CancelReachesWorker, Row
  <2>1. CASE wire.request = "upload"
    <3>1. ~Row.submitted /\ overtaken' = overtaken
      BY <1>3, <1>4, <2>1 DEF ExchangeFollowsRow, Commands
    <3>2. CASE CreateJob(k) /\ answer = mac'[k]
      BY <1>2, <2>0, <3>1, <3>2
      DEF CreateJob, MacStages, Ended, Live, RemoteStages, TERMINAL
    <3>3. CASE answer = "refused" /\ UNCHANGED macVars
      BY <1>2, <2>0, <3>1, <3>3 DEF macVars, RemoteStages, TERMINAL
    <3> QED BY <1>1, <2>1, <3>2, <3>3 DEF Handle, Commands
  <2>2. CASE wire.request \in {"get", "recheck"}
    <3>1. UNCHANGED macVars /\ answer = IF mac[k] = "absent" THEN "404" ELSE mac[k]
      BY <1>1, <2>2 DEF Handle, Commands
    <3>2. wire.request = "get" /\ Row.gen = Generation => Row.action = "none"
      BY <1>3 DEF ExchangeFollowsRow, RequestFor, Commands
    <3>3. overtaken' = overtaken
      BY <1>4, <2>2 DEF Commands
    <3> QED BY <1>2, <2>0, <2>2, <3>1, <3>2, <3>3
        DEF macVars, RemoteStages, TERMINAL, MacStages, Ended, Live
  <2>3. CASE wire.request \in Commands
    <3>1. /\ Row.submitted /\ Row.action # "none"
          /\ Row.stage = "cancelled" \/ Row.action = "retry"
      BY <1>3, <2>3 DEF ExchangeFollowsRow, CommandMatches, Commands
    <3>2. CASE wire.request = "cancel" /\ mac[k] = "absent" /\ answer = "404" /\ UNCHANGED macVars
      BY <1>2, <2>0, <3>1, <3>2 DEF macVars, RemoteStages, TERMINAL, Live
    <3>3. CASE wire.request = "cancel" /\ CancelJob(k) /\ answer = mac'[k]
      <4>1. Row.gen = Generation => Row.stage = "cancelled"
        BY <1>3, <3>3 DEF ExchangeFollowsRow, RequestFor, CommandMatches, Commands
      <4> QED BY <1>2, <2>0, <3>1, <3>3, <4>1
          DEF CancelJob, Update, Updated, MacStages, Ended, Live, RemoteStages, TERMINAL
    <3>4. CASE RetryJob(k) /\ answer = mac'[k]
      BY <1>2, <2>0, <3>1, <3>4
      DEF RetryJob, RetryAccepted, Update, Updated, MacStages, Ended, Live, RemoteStages, TERMINAL
    <3>5. CASE /\ answer \in {"404", "409"} /\ UNCHANGED macVars
               /\ answer = "404" => mac[k] = "absent"
               /\ answer = "409" => wire.request = "retry"
      BY <1>2, <2>0, <3>1, <3>5 DEF macVars, RemoteStages, TERMINAL, Live
    <3>6. \/ wire.request = "cancel" /\ mac[k] = "absent" /\ answer = "404" /\ UNCHANGED macVars
          \/ wire.request = "cancel" /\ CancelJob(k) /\ answer = mac'[k]
          \/ RetryJob(k) /\ answer = mac'[k]
          \/ /\ answer \in {"404", "409"} /\ UNCHANGED macVars
             /\ answer = "404" => mac[k] = "absent"
             /\ answer = "409" => wire.request = "retry"
      BY <1>1, <2>3 DEF Handle, Commands
    <3> QED BY <3>2, <3>3, <3>4, <3>5, <3>6
  <2> QED BY <1>2, <2>1, <2>2, <2>3 DEF Requests
<1>6. CancelledIsWanted' /\ CancelReachesWorker'
  BY <1>2, <1>4, <1>5 DEF CInv, CancelledIsWanted, CancelReachesWorker, Row
<1>7. ExchangeSound'
  BY <1>0, <1>2, <1>3, <1>5
  DEF ExchangeSound, ExchangeFollowsRow, AnswerFollowsWorker, Row, Generation
<1>8. ConsumerWorks'
  BY <1>5 DEF CInv, ConsumerWorks, IInv, TypeOK, MacTypeOK
<1> QED BY <1>6, <1>7, <1>8 DEF CInv

PendingStages == {"queued", "running", "exporting"}

\* What a round of the loop may write: the outcome of a pending job, or
\* nothing the user can see; and what it forgets is done at the worker.  Only
\* of a job a late request has changed does it learn a cancellation.
RoundWrites(n) ==
  /\ n \in Rows /\ SetRow(loop.job, n) /\ n.gen = Row.gen
  /\ \/ n.stage = Row.stage
     \/ Row.stage \in PendingStages /\ n.stage \in PendingStages \cup {"completed", "failed"}
     \/ Row.stage \in PendingStages /\ n.stage = "cancelled" /\ loop.job \in overtaken
  /\ loop.job \notin overtaken =>
       /\ mac[loop.job] = "cancelled" =>
            n.submitted /\ (n.stage = "cancelled" \/ n.action = "retry")
       /\ n.stage = "cancelled" /\ n.submitted /\ n.action = "none" => mac[loop.job] \notin Live

LEMMA RoundLemma ==
  ASSUME IInv, CInv, Receive \/ Archive \/ GiveUp
  PROVE  /\ InRound /\ loop.job \in Jobs /\ UNCHANGED <<mac, consumer, overtaken>>
         /\ UNCHANGED station \/ \E n \in Rows : RoundWrites(n)
<1>0. InRound /\ loop.job \in Jobs
  BY DEF Receive, ReceiveJob, ReceiveConflict, ReceiveRetryPending, ReceiveMissing,
     ReceiveRefused, ReceiveUnavailable, Archive, FetchResult, FetchRefused, Complete,
     ArchiveFile, GiveUp, IInv, TypeOK, InRound, RemoteStages
<1>1. UNCHANGED <<mac, consumer, overtaken>>
  BY DEF macVars, Receive, ReceiveJob, ReceiveConflict, ReceiveRetryPending, ReceiveMissing,
     ReceiveRefused, ReceiveUnavailable, Archive, FetchResult, FetchRefused, Complete,
     ArchiveFile, GiveUp
<1> SUFFICES UNCHANGED station \/ \E n \in Rows : RoundWrites(n)
  BY <1>0, <1>1
<1>2. /\ Row \in Rows /\ Generation \in Nat /\ CommandMatches(Row)
      /\ Row.stage \notin {"absent", "recording"}
      /\ loop.job \notin overtaken =>
           /\ mac[loop.job] = "cancelled" =>
                Row.submitted /\ (Row.stage = "cancelled" \/ Row.action = "retry")
           /\ Row.stage = "cancelled" /\ Row.submitted /\ Row.action = "none" =>
                mac[loop.job] \notin Live
  BY <1>0 DEF IInv, TypeOK, InRound, Rows, RowOK, Row, Generation, RoundFollowsRow, CInv,
     CancelledIsWanted, CancelReachesWorker
<1>3. Row.gen = Generation =>
        /\ Row.stage \in PendingStages \cup {"cancelled"} \/ Row.action # "none"
        /\ loop.at = "request" => Row = loop.row
        /\ loop.at # "request" => Row.stage = "exporting" /\ Row.action = "none"
  BY <1>0, <1>2 DEF IInv, GenerationGuardsRow, RoundFollowsRow, WorkDue, TERMINAL,
     PendingStages, Rows, Stages, RemoteStages
<1>4. Row.gen = Generation => Row.stage \in PendingStages \cup {"cancelled"}
  BY <1>2, <1>3 DEF CommandMatches, Rows, Commands, PendingStages
<1>5. ASSUME NEW terminal \in BOOLEAN, SetRow(loop.job, Defer(Row, Generation, terminal)),
             terminal /\ Row.gen = Generation =>
               /\ Row.stage # "cancelled"
               /\ loop.job \in overtaken \/ mac[loop.job] # "cancelled"
      PROVE  RoundWrites(Defer(Row, Generation, terminal))
  BY <1>2, <1>4, <1>5, DeferLemma DEF RoundWrites
<1>6. CASE ReceiveJob
  <2> DEFINE n == ApplyRemote(Row, wire.answer, Generation)
  <2>1. /\ n \in Rows /\ n.gen = Row.gen /\ n.submitted /\ SetRow(loop.job, n)
        /\ Row.stage = "cancelled" => n.stage = "cancelled"
        /\ Row.gen # Generation => n.stage = Row.stage
        /\ Row.gen # Generation /\ Row.submitted => n = Row
    BY <1>2, <1>6, ApplyRemoteLemma DEF ReceiveJob
  <2>2. /\ loop.at = "request"
        /\ loop.job \notin overtaken => AnswerFollowsWorker
    BY <1>6 DEF ReceiveJob, CInv, ExchangeSound, IInv, TypeOK, InRound, RemoteStages
  <2>3. CASE Row.gen # Generation
    <3>1. ~Row.submitted /\ loop.job \notin overtaken => mac[loop.job] # "cancelled"
      BY <1>2
    <3>2. n.stage = "cancelled" /\ n.action = "none" /\ ~Row.submitted /\ loop.job \notin overtaken =>
            mac[loop.job] \notin Live
      BY <1>2, <1>6, <2>2, <2>3
      DEF ReceiveJob, ApplyRemote, Current, AcceptStale, AnswerFollowsWorker, Rows, AnyGeneration
    <3> QED BY <1>2, <2>1, <2>3, <3>1, <3>2 DEF RoundWrites, Rows
  <2>4. CASE Row.gen = Generation /\ Row.stage = "cancelled"
    <3>1. n.action = "none" => wire.answer \in TERMINAL
      BY <2>4 DEF ApplyRemote, Current, AcceptRemote, Rows
    <3> QED BY <2>1, <2>2, <2>4, <3>1 DEF RoundWrites, AnswerFollowsWorker
  <2>5. CASE Row.gen = Generation /\ Row.stage # "cancelled"
    <3>1. loop.job \notin overtaken => wire.answer # "cancelled"
      BY <1>6, <2>2, <2>5 DEF ReceiveJob, AnswerFollowsWorker
    <3>2. loop.job \notin overtaken => mac[loop.job] # "cancelled"
      BY <1>6, <2>2, <3>1 DEF ReceiveJob, AnswerFollowsWorker
    <3>3. n.stage = IF wire.answer = "completed" THEN "exporting" ELSE wire.answer
      BY <1>2, <2>5 DEF ApplyRemote, Current, AcceptRemote, Rows
    <3> QED
      BY <1>4, <1>6, <2>1, <2>5, <3>1, <3>2, <3>3
      DEF ReceiveJob, RoundWrites, RemoteStages, PendingStages
  <2> QED BY <2>1, <2>3, <2>4, <2>5
<1>7. CASE ReceiveMissing
  <2> DEFINE n == RemoteMissing(Row, Generation)
  <2>1. loop.at = "request" /\ (loop.job \notin overtaken => mac[loop.job] # "cancelled")
    BY <1>7 DEF ReceiveMissing, CInv, ExchangeSound, AnswerFollowsWorker, IInv, TypeOK, InRound
  <2>2. /\ n \in Rows /\ n.gen = Row.gen /\ SetRow(loop.job, n)
        /\ n = Row \/ (/\ Row.gen = Generation /\ ~n.submitted
                       /\ n.stage = IF Row.stage = "cancelled" THEN "cancelled" ELSE "queued")
    BY <1>2, <1>7, RemoteMissingLemma DEF ReceiveMissing
  <2>3. RoundWrites(n)
    BY <1>2, <1>4, <2>1, <2>2 DEF RoundWrites, PendingStages
  <2> QED BY <2>2, <2>3
<1>8. CASE ReceiveRetryPending \/ ReceiveUnavailable \/ GiveUp
  BY <1>5, <1>8, <1>2, DeferLemma DEF ReceiveRetryPending, ReceiveUnavailable, GiveUp
<1>9. CASE ReceiveRefused
  <2>1. loop.at = "request"
    BY <1>9 DEF ReceiveRefused, IInv, TypeOK, InRound
  <2>2. Final /\ Row.gen = Generation =>
          Row.stage # "cancelled" /\ (loop.job \in overtaken \/ mac[loop.job] # "cancelled")
    <3> SUFFICES ASSUME Final, Row.gen = Generation
                 PROVE  /\ Row.stage # "cancelled"
                        /\ loop.job \in overtaken \/ mac[loop.job] # "cancelled"
      OBVIOUS
    <3>1. Row = loop.row /\ ~Row.submitted /\ Row.action = "none" /\ WorkDue(Row)
      BY <1>0, <1>3, <2>1 DEF Final, IInv, RoundFollowsRow
    <3> QED BY <1>2, <3>1 DEF WorkDue, TERMINAL
  <2> QED BY <1>2, <1>5, <1>9, <2>2, DeferLemma DEF ReceiveRefused, Final
<1>10. CASE FetchRefused
  <2>1. Row.gen = Generation =>
          Row.stage # "cancelled" /\ (loop.job \in overtaken \/ mac[loop.job] # "cancelled")
    BY <1>2, <1>3, <1>10 DEF FetchRefused
  <2> QED BY <1>2, <1>5, <1>10, <2>1, DeferLemma DEF FetchRefused, Final
<1>11. CASE Complete
  <2> DEFINE n == CompleteRow(Row, Generation, 0)
  <2>1. RoundWrites(n)
    BY <1>2, <1>3, <1>4, <1>11, CompleteLemma DEF Complete, RoundWrites
  <2> QED BY <1>2, <2>1, CompleteLemma
<1>12. CASE UNCHANGED station
  BY <1>0, <1>1, <1>12
<1> QED
  BY <1>0, <1>1, <1>6, <1>7, <1>8, <1>9, <1>10, <1>11, <1>12
  DEF Receive, ReceiveConflict, Archive, FetchResult, ArchiveFile

LEMMA RoundCInv ==
  ASSUME IInv, CInv, Receive \/ Archive \/ GiveUp
  PROVE  CInv'
<1>0. /\ InRound /\ loop.job \in Jobs /\ UNCHANGED <<mac, consumer, overtaken>>
      /\ UNCHANGED station \/ \E n \in Rows : RoundWrites(n)
  BY RoundLemma
<1>2. CancelledIsWanted' /\ CancelReachesWorker'
  <2>1. CASE UNCHANGED station
    BY <1>0, <2>1 DEF CInv, CancelledIsWanted, CancelReachesWorker
  <2>2. ASSUME NEW n \in Rows, RoundWrites(n)
        PROVE  CancelledIsWanted' /\ CancelReachesWorker'
    BY <1>0, <2>2 DEF CInv, CancelledIsWanted, CancelReachesWorker, RoundWrites, SetRow,
       IInv, TypeOK, InRound
  <2> QED BY <1>0, <2>1, <2>2
<1>3. ConsumerWorks'
  BY <1>0 DEF CInv, ConsumerWorks
<1>4. CASE ReceiveConflict
  <2>1. loop.at = "request" /\ ExchangeFollowsRow /\ wire.request = "retry"
    BY <1>4 DEF ReceiveConflict, CInv, ExchangeSound, IInv, TypeOK, InRound, ExchangeFollowsRow
  <2>2. ExchangeSound'
    BY <1>4, <2>1 DEF ReceiveConflict, macVars, ExchangeSound, ExchangeFollowsRow,
       AnswerFollowsWorker, Row, Generation, Commands, RemoteStages, TERMINAL
  <2> QED BY <1>2, <1>3, <2>2 DEF CInv
<1>5. CASE EndRound \/ FetchResult \/ Archive
  <2>1. loop'.at # "request"
    BY <1>5 DEF EndRound, LoopIdle, Archive, FetchResult, FetchRefused, Complete,
       ArchiveFile, IInv, TypeOK, InRound
  <2> QED BY <1>2, <1>3, <2>1 DEF CInv
<1>6. CASE ReceiveJob /\ ~EndRound
  <2>1. loop'.at # "request"
    BY <1>6 DEF ReceiveJob, IInv, TypeOK, InRound
  <2> QED BY <1>2, <1>3, <2>1 DEF CInv
<1> QED
  BY <1>4, <1>5, <1>6
  DEF Receive, ReceiveRetryPending, ReceiveMissing, ReceiveRefused, ReceiveUnavailable, GiveUp

\* The loop ends for good: no exchange is left, rows and worker are the same.
LEMMA LoopDiesCInv ==
  ASSUME IInv, CInv, LoopDies
  PROVE  CInv'
BY DEF LoopDies, LoopDead, LoopIdle, macVars, CInv, CancelledIsWanted, CancelReachesWorker,
   ConsumerWorks

\* A restart of the station touches recordings only, which no worker knows of.
LEMMA StationRestartCInv ==
  ASSUME IInv, CInv, StationRestart
  PROVE  CInv'
<1>1. PICK hasBytes \in [Jobs -> BOOLEAN] :
        station' = [j \in Jobs |-> Recovered(j, hasBytes[j])]
  BY DEF StationRestart
<1>2. ASSUME NEW j \in Jobs
      PROVE  /\ station'[j].submitted = station[j].submitted
             /\ station[j].submitted => station'[j] = station[j]
  <2>1. station[j] \in Rows /\ RowOK(station[j], files[j])
    BY DEF IInv, TypeOK, InRound
  <2> QED BY <1>1, <2>1 DEF Recovered, RowOK, BrowserImportPending, FinishRecording, Rows
<1>3. loop'.at # "request" /\ UNCHANGED <<mac, consumer, overtaken>>
  BY DEF StationRestart, EndRound, LoopIdle, macVars
<1>4. CancelledIsWanted' /\ CancelReachesWorker'
  BY <1>2, <1>3 DEF CInv, CancelledIsWanted, CancelReachesWorker
<1> QED BY <1>3, <1>4 DEF CInv, ConsumerWorks

LEMMA InitCInv == Init => CInv
BY DEF Init, MacInit, CInv, CancelledIsWanted, CancelReachesWorker, ConsumerWorks,
   LoopIdle, Idle, AbsentRow

LEMMA NextCInv ==
  ASSUME IInv, CInv, [Next]_vars
  PROVE  CInv'
<1>1. ASSUME NEW j \in Jobs, User(j) \/ StopRecording(j) PROVE CInv'
  BY <1>1, UserCInv
<1>2. ASSUME NEW j \in Jobs, Pick(j) PROVE CInv'
  BY <1>2, PickCInv
<1>3. CASE Serve
  BY <1>3, ServeCInv, ServeLateCInv DEF Serve
<1>4. CASE Receive \/ Archive \/ GiveUp
  BY <1>4, RoundCInv
<1>5. CASE MacStep \/ ConsumerLosesWrite \/ Unavailable
             \/ ((MacRestart \/ MacReset) /\ UNCHANGED stationVars)
  BY <1>5, WorkerCInv
<1>6. CASE StationRestart
  BY <1>6, StationRestartCInv
<1>7. CASE UNCHANGED vars
  BY <1>7 DEF vars, macVars, stationVars, CInv, CancelledIsWanted, CancelReachesWorker,
     ExchangeSound, ExchangeFollowsRow, AnswerFollowsWorker, ConsumerWorks, Row, Generation
<1>8. CASE LoopDies
  BY <1>8, LoopDiesCInv
<1> QED BY <1>1, <1>2, <1>3, <1>4, <1>5, <1>6, <1>7, <1>8 DEF Next, Work, Fault

\* Station, exchange and worker agree in every reachable state, about every
\* job but those a late request has changed.
THEOREM Agreement == Spec => [](IInv /\ CInv)
<1>1. Init => IInv /\ CInv
  BY InitIInv, InitCInv
<1>2. IInv /\ CInv /\ [Next]_vars => (IInv /\ CInv)'
  BY NextIInv, NextCInv
<1> QED BY <1>1, <1>2, PTL DEF Spec

\* The station forgets a cancel command only when the job is no longer live
\* at the worker, whatever is lost, restarted or served late; the exception is
\* a job that a late request itself has changed since the loop's last command.
THEOREM CancellationReachesWorker == Spec => []CancelReachesWorker
<1>1. CInv => CancelReachesWorker
  BY DEF CInv
<1> QED BY <1>1, Agreement, PTL

-----------------------------------------------------------------------------
(* The station implements the life of a job its users are promised. *)

LEMMA InitLifecycle == Init => Lifecycle!Init
BY DEF Init, Lifecycle!Init, Status, Pending, AbsentRow

\* One row is written: what its user sees of the other jobs is unchanged.
LEMMA OneStatus ==
  ASSUME station \in [Jobs -> Rows], NEW j \in Jobs, NEW n \in Rows, SetRow(j, n)
  PROVE  /\ station'[j] = n
         /\ \A i \in Jobs \ {j} : station'[i] = station[i]
         /\ Status(j)' = IF n.stage \in PendingStages THEN "pending" ELSE n.stage
         /\ \A i \in Jobs \ {j} : Status(i)' = Status(i)
         /\ n.gen = station[j].gen =>
              [i \in Jobs |-> station'[i].gen] = [i \in Jobs |-> station[i].gen]
         /\ n.gen = station[j].gen + 1 =>
              [i \in Jobs |-> station'[i].gen] =
                [[i \in Jobs |-> station[i].gen] EXCEPT ![j] = @ + 1]
BY DEF SetRow, Status, Pending, PendingStages

\* ... so a write that moves a status is a step of the abstract life.
LEMMA OneMove ==
  ASSUME station \in [Jobs -> Rows], NEW j \in Jobs, NEW n \in Rows, SetRow(j, n),
         NEW from, NEW to, Status(j) = from,
         to = IF n.stage \in PendingStages THEN "pending" ELSE n.stage
  PROVE  Lifecycle!Move(j, from, to)
BY OneStatus DEF Lifecycle!Move

LEMMA UserLifecycle ==
  ASSUME IInv, NEW j \in Jobs, User(j) \/ StopRecording(j)
  PROVE  Lifecycle!Next
<1>0. station[j] \in Rows /\ station \in [Jobs -> Rows] /\ UNCHANGED overtaken
  BY DEF IInv, TypeOK, User, Submit, StartRecording, UserCancel, UserRetry, StopRecording
<1> USE DEF PendingStages, Status, Pending
<1>1. CASE Submit(j) \/ StartRecording(j)
  <2>1. PICK recording \in BOOLEAN : SetRow(j, CreateRow(station[j], recording))
    BY <1>1 DEF Submit, StartRecording
  <2> DEFINE n == CreateRow(station[j], recording)
  <2>2. /\ n \in Rows /\ n.gen = station[j].gen /\ SetRow(j, n)
        /\ n.stage = IF recording THEN "recording" ELSE "queued"
        /\ Status(j) = "absent"
    BY <1>0, <1>1, <2>1
    DEF Submit, StartRecording, CreateRow, Rows, Stages, RemoteStages
  <2>3. UNCHANGED [i \in Jobs |-> station[i].gen]
    BY <1>0, <2>2, OneStatus
  <2>4. Lifecycle!Move(j, "absent", IF recording THEN "recording" ELSE "pending")
    BY <1>0, <2>2, OneMove
  <2> QED BY <1>0, <2>3, <2>4 DEF Lifecycle!Next, Lifecycle!Submit, Lifecycle!Record
<1>2. CASE StopRecording(j)
  <2>1. PICK error \in BOOLEAN, hasBytes \in BOOLEAN :
          SetRow(j, FinishRecording(station[j], error, hasBytes))
    BY <1>2 DEF StopRecording
  <2> DEFINE n == FinishRecording(station[j], error, hasBytes)
  <2>2. /\ n \in Rows /\ n.gen = station[j].gen /\ SetRow(j, n)
        /\ n.stage = IF error THEN "failed" ELSE "queued"
        /\ Status(j) = "recording"
    BY <1>0, <1>2, <2>1
    DEF StopRecording, FinishRecording, Rows, Stages, RemoteStages
  <2>3. UNCHANGED [i \in Jobs |-> station[i].gen]
    BY <1>0, <2>2, OneStatus
  <2>4. Lifecycle!Move(j, "recording", IF error THEN "failed" ELSE "pending")
    BY <1>0, <2>2, OneMove
  <2> QED BY <1>0, <2>3, <2>4 DEF Lifecycle!Next, Lifecycle!StopRecording
<1>3. CASE UserCancel(j)
  <2> DEFINE n == CancelRow(station[j])
  <2>1. /\ n \in Rows /\ n.gen = station[j].gen + 1 /\ SetRow(j, n) /\ n.stage = "cancelled"
    BY <1>0, <1>3, IntentLemma DEF UserCancel
  <2>2. Status(j) = "pending"
    BY <1>0, <1>3 DEF UserCancel, CanCancel, Rows, Stages, RemoteStages, TERMINAL
  <2>3. Lifecycle!Move(j, "pending", "cancelled")
    BY <1>0, <2>1, <2>2, OneMove
  <2> QED BY <1>0, <2>1, <2>3, OneStatus DEF Lifecycle!Next, Lifecycle!Cancel
<1>4. CASE UserRetry(j)
  <2> DEFINE n == RetryRow(station[j])
  <2>1. /\ n \in Rows /\ n.gen = station[j].gen + 1 /\ SetRow(j, n) /\ n.stage = "queued"
    BY <1>0, <1>4, IntentLemma DEF UserRetry
  <2>2. Status(j) = "failed" \/ Status(j) = "cancelled"
    BY <1>4 DEF UserRetry, CanRetry
  <2>3. Lifecycle!Move(j, "failed", "pending") \/ Lifecycle!Move(j, "cancelled", "pending")
    BY <1>0, <2>1, <2>2, OneMove
  <2> QED BY <1>0, <2>1, <2>3, OneStatus DEF Lifecycle!Next, Lifecycle!Retry
<1> QED BY <1>1, <1>2, <1>3, <1>4 DEF User

LEMMA RoundLifecycle ==
  ASSUME IInv, CInv, Receive \/ Archive \/ GiveUp
  PROVE  Lifecycle!Next \/ UNCHANGED Lifecycle!lifeVars
<1>0. station \in [Jobs -> Rows] /\ loop.job \in Jobs /\ UNCHANGED overtaken
  BY RoundLemma DEF IInv, TypeOK, InRound
<1> PICK k \in Jobs : k = loop.job
  BY <1>0
<1>1. CASE UNCHANGED station
  BY <1>0, <1>1 DEF Lifecycle!lifeVars, Status, Pending
<1>2. ASSUME NEW n \in Rows, RoundWrites(n)
      PROVE  Lifecycle!Next \/ UNCHANGED Lifecycle!lifeVars
  <2>1. SetRow(k, n) /\ n.gen = station[k].gen
    BY <1>2 DEF RoundWrites, Row
  <2>2. UNCHANGED [i \in Jobs |-> station[i].gen]
    BY <1>0, <2>1, OneStatus
  <2>3. CASE Status(k)' = Status(k)
    <3>1. \A i \in Jobs : Status(i)' = Status(i)
      BY <1>0, <2>1, <2>3, OneStatus
    <3> QED BY <1>0, <2>2, <3>1 DEF Lifecycle!lifeVars
  <2>4. CASE Status(k)' # Status(k)
    <3>1. /\ Status(k) = "pending"
          /\ \/ n.stage \in {"completed", "failed"}
             \/ n.stage = "cancelled" /\ k \in overtaken
      <4>1. Status(k)' = IF n.stage \in PendingStages THEN "pending" ELSE n.stage
        BY <1>0, <2>1, OneStatus
      <4> QED BY <1>2, <2>4, <4>1 DEF RoundWrites, Row, Status, Pending, PendingStages
    <3>2. Lifecycle!Move(k, "pending", n.stage)
      <4>1. n.stage = IF n.stage \in PendingStages THEN "pending" ELSE n.stage
        BY <3>1 DEF PendingStages
      <4> QED BY <1>0, <2>1, <3>1, <4>1, OneMove
    <3>3. Lifecycle!Finish(k) \/ Lifecycle!CancelledLate(k)
      BY <1>0, <2>2, <3>1, <3>2 DEF Lifecycle!Finish, Lifecycle!CancelledLate
    <3> QED BY <1>0, <3>3 DEF Lifecycle!Next
  <2> QED BY <2>3, <2>4
<1> QED BY <1>1, <1>2, RoundLemma

LEMMA RestartLifecycle ==
  ASSUME IInv, StationRestart
  PROVE  Lifecycle!Next
<1>1. PICK hasBytes \in [Jobs -> BOOLEAN] :
        station' = [j \in Jobs |-> Recovered(j, hasBytes[j])]
  BY DEF StationRestart
<1> DEFINE old  == [j \in Jobs |-> Status(j)]
           lost == {j \in Jobs : station[j].stage = "recording" /\ j \notin BrowserJobs}
<1>2. ASSUME NEW j \in Jobs
      PROVE  /\ station'[j].gen = station[j].gen
             /\ Status(j)' = IF j \in lost THEN "failed" ELSE Status(j)
             /\ j \in lost => Status(j) = "recording"
  <2>1. station[j] \in Rows
    BY DEF IInv, TypeOK, InRound
  <2> QED BY <1>1, <2>1 DEF Recovered, BrowserImportPending, FinishRecording, Rows,
             Status, Pending
<1>3. lost \in SUBSET {j \in Jobs : old[j] = "recording"}
  BY <1>2
<1>4. [j \in Jobs |-> Status(j)]' = [j \in Jobs |-> IF j \in lost THEN "failed" ELSE old[j]]
  BY <1>2
<1>5. UNCHANGED [j \in Jobs |-> station[j].gen]
  BY <1>2
<1> QED BY <1>3, <1>4, <1>5 DEF StationRestart, Lifecycle!Next, Lifecycle!Interrupt

\* Whatever is lost, overtaken or restarted, the users of the station see the
\* life of JobLifecycle: jobs are retried by them alone and cancelled by them
\* or by a late command of theirs, and a completed job is final.
THEOREM ImplementsJobLifecycle == Spec => ImplementsLifecycle
<1>1. Init => Lifecycle!Init
  BY InitLifecycle
<1>2. IInv /\ CInv /\ [Next]_vars => [Lifecycle!Next]_(Lifecycle!lifeVars)
  <2> SUFFICES ASSUME IInv, CInv, [Next]_vars
               PROVE  Lifecycle!Next \/ UNCHANGED Lifecycle!lifeVars
    OBVIOUS
  <2>1. ASSUME NEW j \in Jobs, User(j) \/ StopRecording(j) PROVE Lifecycle!Next
    BY <2>1, UserLifecycle
  <2>2. CASE Receive \/ Archive \/ GiveUp
    BY <2>2, RoundLifecycle
  <2>3. CASE StationRestart
    BY <2>3, RestartLifecycle
  <2>4. CASE UNCHANGED station /\ overtaken' \in SUBSET Jobs
    <3>1. UNCHANGED <<[j \in Jobs |-> Status(j)], [j \in Jobs |-> station[j].gen]>>
      BY <2>4 DEF Status, Pending
    <3> QED BY <2>4, <3>1 DEF Lifecycle!Next, Lifecycle!Overtake
  <2>5. overtaken' \in SUBSET Jobs
    BY NextIInv DEF IInv, TypeOK
  <2> QED
    BY <2>1, <2>2, <2>3, <2>4, <2>5
    DEF Next, Work, Pick, Serve, MacStep, Fault, Unavailable, LoopDies, ConsumerLosesWrite,
        stationVars, vars
<1> QED BY <1>1, <1>2, Agreement, PTL DEF ImplementsLifecycle, Lifecycle!Spec, Spec
=============================================================================
