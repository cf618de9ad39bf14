------------------------ MODULE BrowserCaptureProofs ------------------------
(***************************************************************************)
(* Theorems about BrowserCapture for any set of recordings and any length  *)
(* of the controller's status list, with every restart and lost request.   *)
(***************************************************************************)
EXTENDS BrowserCapture, FiniteSetTheorems, SequenceTheorems, WellFoundedInduction,
        TLAPS

(* The controller's list of records. *)

LEMMA LeastPosition ==
  ASSUME NEW I \in SUBSET Nat, I # {}
  PROVE  Min(I) \in I
<1>1. \E m \in I : \A y \in I : ~ (<<y, m>> \in OpToRel(<, Nat))
  BY NatLessThanWellFounded, WFMin
<1>2. PICK m \in I : \A y \in I : ~ (y < m)
  BY <1>1 DEF OpToRel
<1>3. \E x \in I : \A y \in I : x =< y
  BY <1>2
<1> QED BY <1>3 DEF Min

LEMMA RemoveFirstType ==
  ASSUME NEW S, NEW s \in Seq(S), NEW e
  PROVE  RemoveFirst(s, e) \in Seq(S)
<1> DEFINE I == {i \in 1 .. Len(s) : s[i] = e}
<1>0. Len(s) \in Nat
  BY LenProperties
<1>1. CASE I = {}
  BY <1>1 DEF RemoveFirst
<1>2. CASE I # {}
  <2>1. Min(I) \in 1 .. Len(s)
    <3>1. I \in SUBSET Nat
      BY <1>0
    <3> HIDE DEF I
    <3>2. Min(I) \in I
      BY <1>2, <3>1, LeastPosition
    <3> QED BY <3>2 DEF I
  <2>2. SelectInSeq(s, LAMBDA v : v = e) = Min(I)
    BY <1>2 DEF SelectInSeq
  <2>3. RemoveFirst(s, e) = SubSeq(s, 1, Min(I) - 1) \o SubSeq(s, Min(I) + 1, Len(s))
    BY <1>2, <2>2 DEF RemoveFirst, RemoveAt
  <2> HIDE DEF I
  <2>4. PICK m \in 1 .. Len(s) : m = Min(I)
    BY <2>1
  <2>5. SubSeq(s, 1, m - 1) \in Seq(S) /\ SubSeq(s, m + 1, Len(s)) \in Seq(S)
    BY <1>0, SubSeqProperties
  <2> QED BY <2>3, <2>4, <2>5, ConcatProperties
<1> QED BY <1>1, <1>2

LEMMA StatusListType ==
  ASSUME listing \in Seq(Jobs)
  PROVE  StatusList \in Seq(Jobs)
<1> DEFINE n == IF Len(listing) < Listed THEN Len(listing) ELSE Listed
<1>1. Len(listing) \in Nat /\ Listed \in Nat
  BY LenProperties, CaptureAssumption
<1>2. \A i \in 1 .. n : i \in 1 .. Len(listing)
  BY <1>1
<1>3. n \in Nat /\ n <= Len(listing)
  BY <1>1
<1> HIDE DEF n
<1>4. SubSeq(listing, 1, n) \in Seq(Jobs)
  BY <1>1, <1>2, <1>3, SubSeqProperties
<1> QED BY <1>4 DEF StatusList, n
-----------------------------------------------------------------------------
(***************************************************************************)
(* The inductive invariant.  The lock's holder works on a row that is not  *)
(* archived, and what it has been told of the capture stays true although  *)
(* the controller goes on by itself: a finished recording is final.        *)
(***************************************************************************)
\* The controller is done with a recording: what it holds of it is final.
Finished(j) == capture.job # j /\ record[j].state \in {"stopped", "interrupted"}

\* An archived row is a finished recording with audio, and is past the stages
\* in which recover() or a failing stop() would write it.
ArchivedRows ==
  \A j \in Jobs : row[j].archived =>
    /\ row[j].stage \notin {"absent", "recording"}
    /\ Finished(j) /\ record[j].audio

\* The operation under the lock against its row and its capture.
OpFollowsRow ==
  /\ op.at # "idle" => op.job \in Jobs /\ ~row[op.job].archived
  /\ op.at \in {"post", "confirm"} =>
       op.how \in Starts /\ row[op.job].stage = "recording"
  /\ op.at = "post" => begun[op.job] = op.how
  /\ op.at = "import" => Finished(op.job) /\ record[op.job].audio
  /\ op.how = "sweep" => sweep.wants

IInv ==
  /\ TypeOK
  /\ RecordingIsActive
  /\ ArchivedRows
  /\ OpFollowsRow
  /\ FailedJoinIsSilent

-----------------------------------------------------------------------------
(* What the controller does to its own state, and what it keeps. *)

Final     == {"stopped", "interrupted"}
Processes == {"running", "exited", "crashed"}

ControllerTypes ==
  /\ record \in [Jobs -> Records]
  /\ listing \in Seq(Jobs)
  /\ capture \in Captures
  /\ saveLost \subseteq Jobs \ {capture.job}

\* A finished recording stays as it is, and no capture begins but of those in
\* "starting".
Keeps(starting) ==
  /\ ControllerTypes' /\ RecordingIsActive'
  /\ \A i \in Jobs : Finished(i) => Finished(i)' /\ record'[i] = record[i]
  /\ \A i \in Jobs : capture'.job = i => capture.job = i \/ i \in starting

LEMMA NothingChanges ==
  ASSUME ControllerTypes, RecordingIsActive, UNCHANGED controllerVars
  PROVE  Keeps({})
BY DEF controllerVars, Keeps, ControllerTypes, RecordingIsActive, Finished

LEMMA KeepsMore ==
  ASSUME NEW S, Keeps({})
  PROVE  Keeps(S)
BY DEF Keeps

LEMMA FinalizedFacts ==
  ASSUME NEW forced \in BOOLEAN, NEW r \in Finalized(forced)
  PROVE  /\ r \in Records /\ r.state \in Final
         /\ Interrupted(r) \in Records /\ Interrupted(r).state \in Final
<1>1. PICK error \in BOOLEAN, audio \in BOOLEAN : r = Ended(error, audio)
  BY DEF Finalized
<1>2. r \in Records /\ r.state \in Final
  BY <1>1 DEF Ended, Records, Final
<1> QED BY <1>2 DEF Interrupted, Records, Final

LEMMA SaveFacts ==
  ASSUME ControllerTypes, NEW j \in Jobs, NEW r \in Records, Save(j, r)
  PROVE  /\ record' \in [Jobs -> Records] /\ listing' \in Seq(Jobs)
         /\ record'[j] = r /\ \A i \in Jobs \ {j} : record'[i] = record[i]
<1>1. RemoveFirst(listing, j) \in Seq(Jobs)
  BY RemoveFirstType DEF ControllerTypes
<1>2. <<j>> \in Seq(Jobs)
  OBVIOUS
<1>3. <<j>> \o RemoveFirst(listing, j) \in Seq(Jobs)
  BY <1>1, <1>2, ConcatProperties
<1>4. listing' \in Seq(Jobs)
  <2>1. listing' = <<j>> \o RemoveFirst(listing, j)
    BY Zenon DEF Save
  <2> QED BY <1>3, <2>1, Zenon
<1>5. record \in [Jobs -> Records] /\ record' = [record EXCEPT ![j] = r]
  BY DEF Save, ControllerTypes
<1> QED BY <1>4, <1>5

LEMMA CaptureFacts ==
  ASSUME ControllerTypes
  PROVE  /\ capture.job \in Jobs \cup {NoJob} /\ NoJob \notin Jobs
         /\ capture.job = NoJob <=> capture = NoCapture
         /\ capture.process \in Processes => capture.job \in Jobs
         /\ capture.job \in Jobs =>
              capture \in [job : Jobs, process : Processes, watched : BOOLEAN,
                           admission : {"none", "pending", "given"}]
BY CaptureAssumption DEF ControllerTypes, Captures, NoCapture, Processes

\* Nothing is captured any more.
LEMMA NoCaptureFacts ==
  /\ NoCapture \in Captures /\ NoCapture.job = NoJob /\ NoJob \notin Jobs
BY CaptureAssumption DEF NoCapture, Captures

\* The active capture ends: its record is written for good.
LEMMA CaptureEnds ==
  ASSUME ControllerTypes, RecordingIsActive, NEW j \in Jobs, capture.job = j,
         NEW r \in Records, r.state \in Final, Save(j, r), capture' = NoCapture,
         UNCHANGED saveLost
  PROVE  Keeps({})
<1>1. record' \in [Jobs -> Records] /\ listing' \in Seq(Jobs)
      /\ record'[j] = r /\ \A i \in Jobs \ {j} : record'[i] = record[i]
  BY SaveFacts
<1>2. ControllerTypes'
  BY <1>1, NoCaptureFacts DEF ControllerTypes
<1>3. RecordingIsActive'
  <2>1. j \notin saveLost
    BY DEF ControllerTypes
  <2> QED BY <1>1, <2>1, NoCaptureFacts DEF RecordingIsActive, Final
<1>4. ASSUME NEW i \in Jobs, Finished(i) PROVE Finished(i)' /\ record'[i] = record[i]
  BY <1>1, <1>4, NoCaptureFacts DEF Finished
<1> QED BY <1>2, <1>3, <1>4, NoCaptureFacts DEF Keeps

\* The active capture is forgotten and its record stands as it was.
LEMMA CaptureForgotten ==
  ASSUME ControllerTypes, RecordingIsActive, NEW j \in Jobs, capture.job = j,
         capture' = NoCapture, saveLost' = saveLost \cup {j}, UNCHANGED <<record, listing>>
  PROVE  Keeps({})
BY NoCaptureFacts DEF Keeps, ControllerTypes, RecordingIsActive, Finished

LEMMA StopActiveKeeps ==
  ASSUME ControllerTypes, RecordingIsActive, NEW j \in Jobs, capture.job = j,
         NEW blocked \in BOOLEAN, StopActive(blocked)
  PROVE  Keeps({})
<1>1. PICK forced \in Forced : \E r \in Finalized(forced) :
        Save(j, IF blocked \/ capture.admission = "pending" THEN Interrupted(r) ELSE r)
  BY DEF StopActive
<1>2. forced \in BOOLEAN
  BY DEF Forced
<1>3. PICK q \in Records : q.state \in Final /\ Save(j, q)
  BY <1>1, <1>2, FinalizedFacts
<1> QED BY <1>3, CaptureEnds DEF StopActive

LEMMA StartCaptureKeeps ==
  ASSUME ControllerTypes, RecordingIsActive, NEW j \in Jobs, NEW answer,
         NEW admission \in {"none", "pending"}, StartCapture(j, admission, answer)
  PROVE  Keeps({j})
<1>1. CASE UNCHANGED <<record, listing, capture>>
  BY <1>1, NothingChanges, KeepsMore DEF StartCapture, controllerVars
<1>2. CASE /\ capture.job = NoJob /\ record[j].state = "none"
           /\ Save(j, Recording(TRUE))
           /\ capture' = [job |-> j, process |-> "running", watched |-> TRUE,
                          admission |-> admission]
  <2>1. Recording(TRUE) \in Records /\ Recording(TRUE).state = "recording"
    BY DEF Records, Recording
  <2>2. /\ record' \in [Jobs -> Records] /\ listing' \in Seq(Jobs)
        /\ record'[j].state = "recording" /\ \A i \in Jobs \ {j} : record'[i] = record[i]
    BY <1>2, <2>1, SaveFacts
  <2>3. capture' \in Captures /\ capture'.job = j
    BY <1>2 DEF Captures
  <2>4. saveLost' = saveLost /\ j \notin saveLost
    BY <1>2 DEF StartCapture, RecordingIsActive
  <2>5. ControllerTypes' /\ RecordingIsActive'
    BY <1>2, <2>2, <2>3, <2>4, CaptureFacts DEF ControllerTypes, RecordingIsActive
  <2> QED BY <1>2, <2>2, <2>3, <2>5 DEF Keeps, Finished
<1>3. CASE /\ capture.job = NoJob /\ record[j].state = "none"
           /\ Save(j, Interrupted(NoRecord))
           /\ UNCHANGED capture
  <2>1. Interrupted(NoRecord) \in Records /\ Interrupted(NoRecord).state = "interrupted"
    BY DEF Records, Interrupted, NoRecord
  <2>2. /\ record' \in [Jobs -> Records] /\ listing' \in Seq(Jobs)
        /\ record'[j].state = "interrupted" /\ \A i \in Jobs \ {j} : record'[i] = record[i]
    BY <1>3, <2>1, SaveFacts
  <2>3. saveLost' = saveLost /\ j \notin saveLost
    BY <1>3 DEF StartCapture, RecordingIsActive
  <2>4. ControllerTypes' /\ RecordingIsActive'
    BY <1>3, <2>2, <2>3, CaptureFacts DEF ControllerTypes, RecordingIsActive
  <2> QED BY <1>3, <2>2, <2>4 DEF Keeps, Finished
<1> QED BY <1>1, <1>2, <1>3 DEF StartCapture

\* Every POST, early or late.
LEMMA HandleKeeps ==
  ASSUME ControllerTypes, RecordingIsActive, NEW j \in Jobs,
         NEW post \in Starts \cup {"stop"}, NEW answer, Handle(post, j, answer)
  PROVE  Keeps(IF post = "stop" THEN {} ELSE {j})
<1>1. CASE post = "join"
  <2>1. CASE UNCHANGED controllerVars
    BY <1>1, <2>1, NothingChanges, KeepsMore
  <2>2. CASE StartCapture(j, "pending", answer)
    BY <1>1, <2>2, StartCaptureKeeps
  <2> QED BY <1>1, <2>1, <2>2 DEF Handle, JoinMeeting
<1>2. CASE post = "start"
  BY <1>2, StartCaptureKeeps DEF Handle
<1>3. CASE post = "stop"
  <2>1. CASE UNCHANGED controllerVars
    BY <1>3, <2>1, NothingChanges
  <2>2. CASE capture.job = j /\ StopActive(FALSE)
    BY <1>3, <2>2, StopActiveKeeps
  <2> QED BY <1>3, <2>1, <2>2 DEF Handle, HandleStop
<1> QED BY <1>1, <1>2, <1>3 DEF Starts

\* The records of a new controller, and its list of them.
LEMMA EndingFacts ==
  ASSUME NEW j \in Jobs, NEW r \in Endings(j)
  PROVE  r \in Records /\ r.state \in Final
<1>1. CASE r = Ended(TRUE, FALSE)
  BY <1>1 DEF Ended, Records, Final
<1>2. CASE r # Ended(TRUE, FALSE)
  <2>1. PICK forced \in BOOLEAN : r \in Finalized(forced)
    BY <1>2 DEF Endings, Forced
  <2> QED BY <2>1, FinalizedFacts
<1> QED BY <1>1, <1>2

LEMMA WrittenLastType ==
  ASSUME listing \in Seq(Jobs), NEW saved, NEW s \in WrittenLast(saved)
  PROVE  s \in Seq(Jobs)
<1> DEFINE L == ToSet(listing)
<1>1. L \subseteq Jobs
  BY ElementOfSeq DEF ToSet
<1>2. IsFiniteSet(L)
  BY <1>1, CaptureAssumption, FS_Subset
<1>3. Cardinality(L) \in Nat
  BY <1>2, FS_CardinalityType
<1> HIDE DEF L
<1>4. s \in [1 .. Cardinality(L) -> L]
  BY DEF WrittenLast, SetToSeqs, L
<1> QED BY <1>1, <1>3, <1>4

LEMMA RestartKeeps ==
  ASSUME ControllerTypes, RecordingIsActive, ControllerRestart
  PROVE  Keeps({})
<1>1. PICK saved \in SUBSET Open :
        /\ \E r \in [saved -> UNION {Endings(j) : j \in saved}] :
             /\ \A j \in saved : r[j] \in Endings(j)
             /\ record' = [j \in Jobs |-> IF j \in saved THEN r[j] ELSE record[j]]
        /\ listing' \in WrittenLast(saved)
        /\ saveLost' = Open \ saved
  BY DEF ControllerRestart
<1>2. PICK r : /\ \A j \in saved : r[j] \in Endings(j)
               /\ record' = [j \in Jobs |-> IF j \in saved THEN r[j] ELSE record[j]]
  BY <1>1
<1>3. saved \subseteq Jobs /\ Open \subseteq Jobs
  BY DEF Open
<1>4. \A j \in saved : r[j] \in Records /\ r[j].state \in Final
  BY <1>2, <1>3, EndingFacts
<1>5. \A j \in Jobs : record'[j] = IF j \in saved THEN r[j] ELSE record[j]
  BY <1>2
<1>6. record' \in [Jobs -> Records]
  BY <1>2, <1>4 DEF ControllerTypes
<1>7. listing' \in Seq(Jobs)
  BY <1>1, WrittenLastType DEF ControllerTypes
<1>8. capture' = NoCapture
  BY DEF ControllerRestart, ControllerLost
<1>9. ControllerTypes'
  BY <1>1, <1>3, <1>6, <1>7, <1>8, NoCaptureFacts DEF ControllerTypes
<1>10. RecordingIsActive'
  BY <1>1, <1>4, <1>5, <1>8, NoCaptureFacts DEF RecordingIsActive, Open, Final
<1>11. ASSUME NEW i \in Jobs, Finished(i) PROVE Finished(i)' /\ record'[i] = record[i]
  <2>1. i \notin saved
    BY <1>11 DEF Finished, Open
  <2> QED BY <1>5, <1>8, <1>11, <2>1, NoCaptureFacts DEF Finished
<1> QED BY <1>8, <1>9, <1>10, <1>11, NoCaptureFacts DEF Keeps

\* A POST that the disk lets down.
LEMMA NotSavedKeeps ==
  ASSUME ControllerTypes, RecordingIsActive, NEW j \in Jobs,
         StartNotSaved(j) \/ StopNotSaved(j)
  PROVE  Keeps({})
<1>1. CASE StartNotSaved(j) /\ UNCHANGED <<record, listing, saveLost>>
  BY <1>1, NothingChanges DEF StartNotSaved, controllerVars
<1>2. CASE /\ StartNotSaved(j)
           /\ Save(j, Recording(FALSE)) /\ saveLost' = saveLost \cup {j}
  <2>1. Recording(FALSE) \in Records /\ Recording(FALSE).state = "recording"
    BY DEF Records, Recording
  <2>2. capture.job = NoJob /\ record[j].state = "none" /\ UNCHANGED capture
    BY <1>2 DEF StartNotSaved
  <2>3. /\ record' \in [Jobs -> Records] /\ listing' \in Seq(Jobs)
        /\ record'[j].state = "recording" /\ \A i \in Jobs \ {j} : record'[i] = record[i]
    BY <1>2, <2>1, SaveFacts
  <2>4. ControllerTypes' /\ RecordingIsActive'
    BY <1>2, <2>2, <2>3, NoCaptureFacts DEF ControllerTypes, RecordingIsActive
  <2> QED BY <2>2, <2>3, <2>4 DEF Keeps, Finished
<1>3. CASE StopNotSaved(j) /\ saveLost' = saveLost \cup {j} /\ UNCHANGED <<record, listing>>
  BY <1>3, CaptureForgotten DEF StopNotSaved
<1>4. CASE /\ StopNotSaved(j) /\ UNCHANGED saveLost
           /\ \E forced \in Forced : \E r \in Finalized(forced) : Save(j, r)
  <2>1. PICK q \in Records : q.state \in Final /\ Save(j, q)
    BY <1>4, FinalizedFacts DEF Forced
  <2> QED BY <1>4, <2>1, CaptureEnds DEF StopNotSaved
<1> QED BY <1>1, <1>2, <1>3, <1>4 DEF StartNotSaved, StopNotSaved

\* The controller by itself, its restarts and its disk.
Alone ==
  \/ \E j \in Jobs : Admitted(j) \/ MeetingOver(j) \/ StartNotSaved(j) \/ StopNotSaved(j)
  \/ CaptureExits \/ Watch \/ WatchFails \/ ControllerRestart

LEMMA AloneKeeps ==
  ASSUME ControllerTypes, RecordingIsActive, Alone
  PROVE  Keeps({})
<1>1. CASE CaptureExits \/ WatchFails \/ \E j \in Jobs : Admitted(j)
  <2>1. capture.job \in Jobs /\ UNCHANGED <<record, listing, saveLost>>
    BY <1>1, CaptureFacts DEF CaptureExits, WatchFails, Admitted, Processes
  <2>2. capture \in [job : Jobs, process : Processes, watched : BOOLEAN,
                     admission : {"none", "pending", "given"}]
    BY <2>1, CaptureFacts
  <2>3. \/ \E how \in Processes : capture' = [capture EXCEPT !.process = how]
        \/ capture' = [capture EXCEPT !.watched = FALSE]
        \/ capture' = [capture EXCEPT !.admission = "given"]
    BY <1>1 DEF CaptureExits, WatchFails, Admitted, Processes
  <2>4. capture' \in Captures /\ capture'.job = capture.job
    BY <2>2, <2>3 DEF Captures, Processes
  <2> QED BY <2>1, <2>4 DEF Keeps, ControllerTypes, RecordingIsActive, Finished
<1>2. ASSUME NEW j \in Jobs, MeetingOver(j) PROVE Keeps({})
  BY <1>2, StopActiveKeeps DEF MeetingOver
<1>3. CASE Watch
  <2>1. capture.job \in Jobs /\ capture' = NoCapture /\ UNCHANGED saveLost
    BY <1>3, CaptureFacts DEF Watch, Processes
  <2>2. PICK q \in Records : q.state \in Final /\ Save(capture.job, q)
    BY <1>3, FinalizedFacts DEF Watch
  <2>3. PICK j \in Jobs : j = capture.job
    BY <2>1
  <2> QED BY <2>1, <2>2, <2>3, CaptureEnds
<1> QED BY <1>1, <1>2, <1>3, RestartKeeps, NotSavedKeeps DEF Alone
-----------------------------------------------------------------------------
(* The invariant under a step of the controller, and under one of the station. *)

LEMMA TypesOfController == TypeOK => ControllerTypes
BY DEF TypeOK, ControllerTypes

\* The controller moves, and at most the answer of the waiting POST changes.
LEMMA ControllerIInv ==
  ASSUME IInv, NEW starting \in SUBSET Jobs, Keeps(starting), TypeOK',
         UNCHANGED <<row, sweep, begun>>,
         op'.at = op.at, op'.job = op.job, op'.how = op.how,
         ~outlived' => ~outlived /\ \A j \in starting : row[j].stage # "failed"
  PROVE  IInv'
<1>1. RecordingIsActive'
  BY DEF Keeps
<1>2. ArchivedRows'
  BY DEF IInv, ArchivedRows, Keeps, Finished
<1>3. OpFollowsRow'
  <2>1. CASE op.at = "idle"
    BY <2>1 DEF IInv, OpFollowsRow, TypeOK, NoOp
  <2>2. CASE op.at # "idle"
    <3>1. PICK k \in Jobs : k = op.job
      BY <2>2 DEF IInv, OpFollowsRow
    <3>2. Finished(k) => Finished(k)' /\ record'[k] = record[k]
      BY DEF Keeps
    <3>3. Finished(op.job)' <=> Finished(k)'
      BY <3>1 DEF Finished
    <3>4. Finished(op.job) <=> Finished(k)
      BY <3>1 DEF Finished
    <3> QED BY <2>2, <3>1, <3>2, <3>3, <3>4 DEF IInv, OpFollowsRow
  <2> QED BY <2>1, <2>2
<1>4. FailedJoinIsSilent'
  BY DEF IInv, FailedJoinIsSilent, Keeps
<1> QED BY <1>1, <1>2, <1>3, <1>4 DEF IInv

LEMMA PostFailsFacts ==
  ASSUME TypeOK, NEW post, NEW j, PostFails(post, j)
  PROVE  /\ late' \subseteq late
         /\ request' = request \/ (request = "pending" /\ request' = "refused")
BY DEF PostFails

LEMMA AloneIInv ==
  ASSUME IInv, Alone
  PROVE  IInv'
<1>1. Keeps({}) /\ ControllerTypes'
  BY AloneKeeps, TypesOfController DEF IInv, Keeps
<1>2. /\ UNCHANGED <<row, op, sweep, outlived, begun>>
      /\ late' \subseteq late
      /\ request' = request \/ (request = "pending" /\ request' = "refused")
  <2>1. CASE \/ \E j \in Jobs : Admitted(j) \/ MeetingOver(j)
             \/ CaptureExits \/ Watch \/ WatchFails
    BY <2>1 DEF Admitted, MeetingOver, CaptureExits, Watch, WatchFails, stationVars
  <2>2. ASSUME NEW j \in Jobs, StartNotSaved(j) \/ StopNotSaved(j)
        PROVE  /\ UNCHANGED <<row, op, sweep, outlived, begun>>
               /\ late' \subseteq late
               /\ request' = request \/ (request = "pending" /\ request' = "refused")
    BY <2>2, PostFailsFacts DEF StartNotSaved, StopNotSaved, IInv
  <2>3. CASE ControllerRestart
    BY <2>3 DEF ControllerRestart, ControllerLost
  <2> QED BY <2>1, <2>2, <2>3 DEF Alone
<1>3. TypeOK'
  BY <1>1, <1>2 DEF IInv, TypeOK, ControllerTypes
<1> QED BY <1>1, <1>2, <1>3, ControllerIInv

LEMMA ServeIInv ==
  ASSUME IInv, Serve
  PROVE  IInv'
<1>1. op.at \in {"post", "stop"} /\ op.job \in Jobs /\ Post \in Starts \cup {"stop"}
      /\ (Post = "stop" <=> op.at = "stop")
  BY DEF Serve, IInv, TypeOK, OpFollowsRow, Post, Starts
<1>2. PICK answer \in {"ok", "refused"}, k \in Jobs, post \in Starts \cup {"stop"} :
        /\ k = op.job /\ post = Post /\ Handle(post, k, answer) /\ request' = answer
        /\ op' = [op EXCEPT !.error = post = "stop" /\ answer = "ok" /\ record'[k].error]
  BY <1>1 DEF Serve
<1> DEFINE starting == IF post = "stop" THEN {} ELSE {k}
<1>3. Keeps(starting) /\ ControllerTypes'
  BY <1>2, HandleKeeps, TypesOfController DEF IInv, Keeps
<1>4. request = "pending" /\ UNCHANGED <<row, sweep, late, outlived, begun>>
  BY DEF Serve
<1>5. /\ op' \in Ops /\ op'.at = op.at /\ op'.job = op.job /\ op'.how = op.how
      /\ op'.at # "idle" /\ op' # NoOp
  <2>1. PICK b \in BOOLEAN : b = (post = "stop" /\ answer = "ok" /\ record'[k].error)
    OBVIOUS
  <2>2. op' = [op EXCEPT !.error = b]
    BY <1>2, <2>1
  <2>3. op \in Ops
    BY DEF IInv, TypeOK
  <2> QED BY <1>1, <2>2, <2>3 DEF Ops, NoOp
<1>6. TypeOK'
  BY <1>1, <1>2, <1>3, <1>4, <1>5 DEF IInv, TypeOK, ControllerTypes
<1>7. \A j \in starting : row[j].stage # "failed"
  BY <1>1, <1>2 DEF IInv, OpFollowsRow
<1>8. starting \in SUBSET Jobs
  OBVIOUS
<1> HIDE DEF starting
<1> QED BY <1>3, <1>4, <1>5, <1>6, <1>7, <1>8, ControllerIInv

LEMMA ServeLateIInv ==
  ASSUME IInv, ServeLate
  PROVE  IInv'
<1>1. PICK p \in late : /\ \E answer \in {"ok", "refused"} : Handle(p[1], p[2], answer)
                        /\ late' = late \ {p}
  BY DEF ServeLate
<1>2. PICK post \in Starts \cup {"stop"}, k \in Jobs, answer \in {"ok", "refused"} :
        Handle(post, k, answer)
  BY <1>1 DEF IInv, TypeOK
<1> DEFINE starting == IF post = "stop" THEN {} ELSE {k}
<1>3. Keeps(starting) /\ ControllerTypes'
  BY <1>2, HandleKeeps, TypesOfController DEF IInv, Keeps
<1>4. outlived /\ UNCHANGED <<row, op, request, sweep, outlived, begun>>
  BY <1>1 DEF ServeLate, stationVars, IInv, TypeOK
<1>5. TypeOK'
  BY <1>1, <1>3, <1>4 DEF IInv, TypeOK, ControllerTypes
<1>6. starting \in SUBSET Jobs
  OBVIOUS
<1> HIDE DEF starting
<1> QED BY <1>3, <1>4, <1>5, <1>6, ControllerIInv

LEMMA RowTypes ==
  ASSUME NEW r \in Rows, NEW error \in BOOLEAN, NEW hasBytes \in BOOLEAN
  PROVE  /\ CreateRow(r, TRUE) \in Rows /\ FinishRecording(r, error, hasBytes) \in Rows
         /\ BrowserImportPending(r) \in Rows /\ Delivered(r) \in Rows
BY DEF Rows, CreateRow, FinishRecording, BrowserImportPending, Delivered, Stages,
   RemoteStages

\* A step of the station: the controller is left alone, and at most one row is
\* written.
LEMMA StationIInv ==
  ASSUME IInv, NEW k \in Jobs, NEW r \in Rows, SetRow(k, r),
         UNCHANGED <<controllerVars, begun>>, TypeOK', OpFollowsRow',
         ~outlived' => ~outlived,
         r.archived => r.stage \notin {"absent", "recording"} /\ Finished(k)
                       /\ record[k].audio,
         begun[k] = "join" /\ r.stage = "failed" /\ ~r.archived
           => capture.job # k
  PROVE  IInv'
<1>1. row'[k] = r /\ \A j \in Jobs \ {k} : row'[j] = row[j]
  BY DEF IInv, TypeOK, SetRow
<1>2. RecordingIsActive'
  BY DEF controllerVars, IInv, RecordingIsActive
<1>3. ArchivedRows'
  BY <1>1 DEF controllerVars, IInv, ArchivedRows, Finished
<1>4. FailedJoinIsSilent'
  BY <1>1 DEF controllerVars, IInv, FailedJoinIsSilent
<1> QED BY <1>2, <1>3, <1>4 DEF IInv

\* A step of the station that writes no row.
LEMMA RowsStandIInv ==
  ASSUME IInv, UNCHANGED <<row, controllerVars, begun>>, TypeOK', OpFollowsRow',
         ~outlived' => ~outlived
  PROVE  IInv'
BY DEF controllerVars, IInv, RecordingIsActive, ArchivedRows, Finished,
   FailedJoinIsSilent

\* The lock is released: nothing is left to follow.
LEMMA ReleaseFacts ==
  ASSUME Release
  PROVE  /\ op' \in Ops
         /\ (op.at = "idle" <=> op = NoOp)' /\ request' = "none"
         /\ (request = "none" <=> op.at \notin {"post", "stop"})'
         /\ OpFollowsRow'
BY DEF Release, NoOp, Ops, OpFollowsRow

LEMMA AbandonFacts ==
  ASSUME TypeOK, OpFollowsRow, Abandon
  PROVE  /\ late' \subseteq (Starts \cup {"stop"}) \X Jobs
         /\ outlived' \in BOOLEAN /\ (late' # {} => outlived')
         /\ ~outlived' => ~outlived
<1>1. CASE UNCHANGED <<late, outlived>>
  BY <1>1 DEF TypeOK
<1>2. CASE /\ request = "pending"
           /\ late' = late \cup {<<Post, op.job>>} /\ outlived' = TRUE
  <2>1. op.at \in {"post", "stop"} /\ op.job \in Jobs /\ Post \in Starts \cup {"stop"}
    BY <1>2, Zenon DEF TypeOK, OpFollowsRow, Post
  <2> QED BY <1>2, <2>1 DEF TypeOK
<1> QED BY <1>1, <1>2 DEF Abandon

LEMMA SweepTypes ==
  /\ NoSweep \in Sweeps /\ ~NoSweep.wants /\ NoSweep.alive
  /\ DeadSweep \in Sweeps /\ ~DeadSweep.wants
  /\ \A t \in Seq([job : Jobs, skip : BOOLEAN]) :
       [NoSweep EXCEPT !.todo = t] \in Sweeps /\ ~[NoSweep EXCEPT !.todo = t].wants
<1> DEFINE S == [job : Jobs, skip : BOOLEAN]
<1> HIDE DEF S
<1>1. <<>> \in Seq(S)
  OBVIOUS
<1> QED BY <1>1 DEF NoSweep, DeadSweep, Sweeps, S

\* The round of the reconciler goes on to the next record, or ends.
LEMMA SweepOnType ==
  ASSUME TypeOK, sweep.todo # <<>>
  PROVE  /\ SweepOn(sweep) \in Sweeps
         /\ SweepOn(sweep).wants = FALSE
         /\ Head(sweep.todo) \in [job : Jobs, skip : BOOLEAN]
<1> DEFINE S == [job : Jobs, skip : BOOLEAN]
<1>1. sweep.todo \in Seq(S)
  BY DEF TypeOK, Sweeps
<1> HIDE DEF S
<1>2. Tail(sweep.todo) \in Seq(S) /\ Head(sweep.todo) \in S
  BY <1>1, HeadTailProperties
<1>3. PICK t \in Seq(S) : t = Tail(sweep.todo)
  BY <1>2
<1> QED BY <1>2, <1>3, SweepTypes DEF SweepOn, S, Sweeps

LEMMA ReportType ==
  ASSUME ControllerTypes, NEW skipped
  PROVE  Report(skipped) \in Seq([job : Jobs, skip : BOOLEAN])
<1>1. StatusList \in Seq(Jobs)
  BY StatusListType DEF ControllerTypes
<1>2. Len(StatusList) \in Nat /\ \A i \in 1 .. Len(StatusList) : StatusList[i] \in Jobs
  BY <1>1, ElementOfSeq, LenProperties
<1>3. \A i \in 1 .. Len(StatusList) :
        [job |-> StatusList[i], skip |-> record[StatusList[i]].state \in skipped]
          \in [job : Jobs, skip : BOOLEAN]
  BY <1>2
<1> DEFINE S == [job : Jobs, skip : BOOLEAN]
           e(i) == [job |-> StatusList[i], skip |-> record[StatusList[i]].state \in skipped]
<1>4. \A i \in 1 .. Len(StatusList) : e(i) \in S
  BY <1>3
<1> HIDE DEF S, e
<1>5. [i \in 1 .. Len(StatusList) |-> e(i)] \in Seq(S)
  BY <1>2, <1>4, IsASeq
<1> QED BY <1>5 DEF Report, S, e
-----------------------------------------------------------------------------
(* One lemma per step of the station. *)

LEMMA BeginIInv ==
  ASSUME IInv, NEW k \in Jobs, NEW how \in Starts, Begin(k, how)
  PROVE  IInv'
<1> DEFINE r == CreateRow(row[k], TRUE)
<1>1. /\ row[k] \in Rows /\ r \in Rows /\ row[k].stage = "absent"
      /\ ~row[k].archived /\ capture.job = NoJob
  BY RowTypes DEF IInv, TypeOK, Begin, ArchivedRows
<1>2. r.stage = "recording" /\ ~r.archived
  BY <1>1 DEF CreateRow, Rows
<1> HIDE DEF r
<1>3. /\ SetRow(k, r) /\ op' = [at |-> "post", job |-> k, how |-> how, error |-> FALSE]
      /\ request' = "pending" /\ UNCHANGED <<sweep, late, outlived, controllerVars>>
      /\ begun' = [begun EXCEPT ![k] = how]
  BY DEF Begin, r
<1>4. row' \in [Jobs -> Rows] /\ row'[k] = r /\ \A j \in Jobs \ {k} : row'[j] = row[j]
  BY <1>1, <1>3 DEF SetRow, IInv, TypeOK
<1>5. /\ begun' \in [Jobs -> Starts \cup {"none"}]
      /\ begun'[k] = how /\ \A j \in Jobs \ {k} : begun'[j] = begun[j]
  BY <1>3 DEF IInv, TypeOK
<1>6. TypeOK'
  <2>1. op' \in Ops
        /\ (op.at = "idle" <=> op = NoOp)'
    BY <1>3 DEF NoOp, Ops
  <2> QED BY <1>3, <1>4, <1>5, <2>1 DEF IInv, TypeOK, controllerVars
<1>7. RecordingIsActive'
  BY <1>3 DEF controllerVars, IInv, RecordingIsActive
<1>8. ArchivedRows'
  BY <1>2, <1>3, <1>4 DEF controllerVars, IInv, ArchivedRows, Finished
<1>9. OpFollowsRow'
  BY <1>2, <1>3, <1>4, <1>5 DEF OpFollowsRow, Starts
<1>10. FailedJoinIsSilent'
  BY <1>2, <1>3, <1>4, <1>5 DEF controllerVars, IInv, FailedJoinIsSilent
<1> QED BY <1>6, <1>7, <1>8, <1>9, <1>10 DEF IInv

\* The job of the operation under way, and what the station knows of its row.
LEMMA OpFacts ==
  ASSUME IInv, op.at # "idle"
  PROVE  /\ op.job \in Jobs /\ row[op.job] \in Rows /\ ~row[op.job].archived
         /\ op.at \in {"post", "confirm"} => op.how \in Starts
BY DEF IInv, TypeOK, OpFollowsRow

\* A job whose import did not come about goes back to waiting for it.
LEMMA PendingIInv ==
  ASSUME IInv, op.at # "idle", SetRow(op.job, BrowserImportPending(row[op.job])),
         UNCHANGED <<controllerVars, begun>>, TypeOK', OpFollowsRow',
         ~outlived' => ~outlived
  PROVE  IInv'
<1>1. PICK k \in Jobs : k = op.job
  BY OpFacts
<1>2. PICK r \in Rows : r = BrowserImportPending(row[op.job])
  BY OpFacts, RowTypes
<1>3. SetRow(k, r) /\ r.stage = "recording" /\ ~r.archived
  BY <1>1, <1>2, OpFacts DEF BrowserImportPending, Rows
<1> QED BY <1>3, StationIInv

\* A capture that did not start fails its job.
LEMMA FailedIInv ==
  ASSUME IInv, op.at # "idle", SetRow(op.job, FinishRecording(row[op.job], TRUE, FALSE)),
         UNCHANGED <<controllerVars, begun>>, TypeOK', OpFollowsRow',
         ~outlived' => ~outlived,
         begun[op.job] = "join" => capture.job # op.job
  PROVE  IInv'
<1>1. PICK k \in Jobs : k = op.job
  BY OpFacts
<1>2. PICK r \in Rows : r = FinishRecording(row[op.job], TRUE, FALSE)
  BY OpFacts, RowTypes
<1>3. SetRow(k, r) /\ ~r.archived
  BY <1>1, <1>2, OpFacts DEF FinishRecording, Rows
<1> QED BY <1>1, <1>3, StationIInv

\* A row of the right type leaves the rows of the right type.
LEMMA SetRowType ==
  ASSUME TypeOK, NEW k, NEW r \in Rows, SetRow(k, r)
  PROVE  row' \in [Jobs -> Rows]
BY DEF TypeOK, SetRow

LEMMA NotStartedIInv ==
  ASSUME IInv, op.at = "post", NotStarted, Abandon, UNCHANGED <<sweep, controllerVars, begun>>
  PROVE  IInv'
<1>1. op.job \in Jobs /\ row[op.job] \in Rows /\ op.how \in Starts
      /\ row[op.job].stage = "recording" /\ ~row[op.job].archived
      /\ begun[op.job] = op.how
  BY OpFacts DEF IInv, OpFollowsRow
<1>2. /\ late' \subseteq (Starts \cup {"stop"}) \X Jobs
      /\ outlived' \in BOOLEAN /\ (late' # {} => outlived')
      /\ ~outlived' => ~outlived
  BY AbandonFacts DEF IInv
<1>3. CASE op.how = "join"
  <2>1. /\ SetRow(op.job, BrowserImportPending(row[op.job]))
        /\ op' = [op EXCEPT !.at = "confirm"] /\ request' = "none"
    BY <1>3 DEF NotStarted
  <2>2. op' = [at |-> "confirm", job |-> op.job, how |-> op.how, error |-> op.error]
        /\ op.error \in BOOLEAN
    BY <2>1 DEF IInv, TypeOK, Ops
  <2>3. row' \in [Jobs -> Rows]
    BY <1>1, <2>1, RowTypes, SetRowType DEF IInv
  <2>4. TypeOK'
    <3>1. op' \in Ops
          /\ (op.at = "idle" <=> op = NoOp)'
      BY <1>1, <2>2 DEF NoOp, Ops
    <3>2. (request = "none" <=> op.at \notin {"post", "stop"})'
      BY <2>1, <2>2
    <3> QED BY <1>2, <2>1, <2>3, <3>1, <3>2 DEF IInv, TypeOK, controllerVars
  <2>5. OpFollowsRow'
    <3>1. PICK k \in Jobs : k = op.job
      BY <1>1
    <3>2. row'[k].stage = "recording" /\ ~row'[k].archived
      BY <1>1, <2>1, <3>1 DEF SetRow, BrowserImportPending, IInv, TypeOK, Rows
    <3> QED BY <1>1, <2>1, <2>2, <3>1, <3>2 DEF OpFollowsRow, Starts
  <2> QED BY <1>2, <2>1, <2>4, <2>5, PendingIInv
<1>4. CASE op.how # "join"
  <2>1. SetRow(op.job, FinishRecording(row[op.job], TRUE, FALSE)) /\ Release
    BY <1>4 DEF NotStarted
  <2>2. row' \in [Jobs -> Rows]
    BY <1>1, <2>1, RowTypes, SetRowType DEF IInv
  <2>3. TypeOK'
    BY <1>2, <2>1, <2>2, ReleaseFacts DEF IInv, TypeOK, controllerVars
  <2> QED BY <1>1, <1>2, <1>4, <2>1, <2>3, ReleaseFacts, FailedIInv
<1> QED BY <1>3, <1>4

LEMMA ConfirmIInv ==
  ASSUME IInv, Confirm
  PROVE  IInv'
<1>1. /\ op.at # "idle" /\ Release /\ UNCHANGED <<sweep, late, outlived, controllerVars, begun>>
      /\ row[op.job] \in Rows
  BY OpFacts DEF Confirm
<1>2. CASE UNCHANGED row
  <2>1. TypeOK'
    BY <1>1, <1>2, ReleaseFacts DEF IInv, TypeOK, controllerVars
  <2> QED BY <1>1, <1>2, <2>1, ReleaseFacts, RowsStandIInv
<1>3. CASE capture.job # op.job /\ SetRow(op.job, FinishRecording(row[op.job], TRUE, FALSE))
  <2>1. row' \in [Jobs -> Rows]
    BY <1>1, <1>3, RowTypes, SetRowType DEF IInv
  <2>2. TypeOK'
    BY <1>1, <2>1, ReleaseFacts DEF IInv, TypeOK, controllerVars
  <2> QED BY <1>1, <1>3, <2>2, ReleaseFacts, FailedIInv
<1> QED BY <1>2, <1>3 DEF Confirm

LEMMA StopFailsIInv ==
  ASSUME IInv, op.at # "idle", StopFails, Abandon, UNCHANGED <<controllerVars, begun>>
  PROVE  IInv'
<1>1. row[op.job] \in Rows /\ Release /\ SetRow(op.job, BrowserImportPending(row[op.job]))
  BY OpFacts DEF StopFails
<1>2. /\ late' \subseteq (Starts \cup {"stop"}) \X Jobs
      /\ outlived' \in BOOLEAN /\ (late' # {} => outlived')
      /\ ~outlived' => ~outlived
  BY AbandonFacts DEF IInv
<1>3. row' \in [Jobs -> Rows]
  BY <1>1, RowTypes, SetRowType DEF IInv
<1>4. /\ sweep' \in Sweeps
      /\ sweep'.wants => sweep'.todo # <<>>
  <2>1. CASE sweep' = NoSweep
    BY <2>1, SweepTypes
  <2>2. CASE sweep' = sweep
    BY <2>2 DEF IInv, TypeOK
  <2> QED BY <2>1, <2>2 DEF StopFails
<1>5. TypeOK'
  BY <1>1, <1>2, <1>3, <1>4, ReleaseFacts DEF IInv, TypeOK, controllerVars
<1> QED BY <1>1, <1>2, <1>5, ReleaseFacts, PendingIInv

\* stop() takes the lock for a job that is not archived.
LEMMA BeginStopIInv ==
  ASSUME IInv, NEW k \in Jobs, NEW how \in {"user", "sweep"}, BeginStop(k, how),
         how = "sweep" => sweep.wants,
         UNCHANGED <<row, sweep, late, outlived, controllerVars, begun>>
  PROVE  IInv'
<1>1. /\ op' = [at |-> "stop", job |-> k, how |-> how, error |-> FALSE]
      /\ request' = "pending"
      /\ ~row[k].archived
  BY DEF BeginStop
<1>2. TypeOK'
  <2>1. op' \in Ops
        /\ (op.at = "idle" <=> op = NoOp)'
    BY <1>1 DEF NoOp, Ops
  <2>2. (request = "none" <=> op.at \notin {"post", "stop"})'
    BY <1>1
  <2> QED BY <1>1, <2>1, <2>2 DEF IInv, TypeOK, controllerVars
<1>3. OpFollowsRow'
  BY <1>1 DEF OpFollowsRow
<1> QED BY <1>2, <1>3, RowsStandIInv

\* The operation goes on under the lock.
LEMMA GoesOnIInv ==
  ASSUME IInv, NEW at \in {"download", "import"}, op.at # "idle",
         op' = [op EXCEPT !.at = at], request' = "none",
         at = "import" => Finished(op.job) /\ record[op.job].audio,
         UNCHANGED <<row, sweep, late, outlived, controllerVars, begun>>
  PROVE  IInv'
<1>1. /\ op' = [at |-> at, job |-> op.job, how |-> op.how, error |-> op.error]
      /\ op.job \in Jobs /\ op.how \in Starts \cup {"user", "sweep", "none"}
      /\ op.error \in BOOLEAN
  BY OpFacts DEF IInv, TypeOK, Ops
<1>2. TypeOK'
  <2>1. op' \in Ops /\ (op.at = "idle" <=> op = NoOp)'
    <3>1. op'.at \in {"download", "import"} /\ op'.job = op.job /\ op'.how = op.how
      BY <1>1
    <3>2. op'.at # "idle" /\ op' # NoOp
      BY <3>1 DEF NoOp
    <3>3. op' \in Ops
      BY <1>1 DEF Ops
    <3> QED BY <3>2, <3>3
  <2>2. (request = "none" <=> op.at \notin {"post", "stop"})'
    BY <1>1
  <2> QED BY <2>1, <2>2 DEF IInv, TypeOK, controllerVars
<1>3. OpFollowsRow'
  <2>1. PICK k \in Jobs : k = op.job
    BY <1>1
  <2> QED BY <1>1, <2>1, OpFacts DEF IInv, OpFollowsRow, controllerVars, Finished
<1> QED BY <1>2, <1>3, RowsStandIInv

LEMMA ImportIInv ==
  ASSUME IInv, Import
  PROVE  IInv'
<1>1. PICK k \in Jobs : k = op.job
  BY OpFacts DEF Import
<1>2. /\ Release /\ UNCHANGED <<late, outlived, controllerVars, begun>>
      /\ SetRow(k, FinishRecording(row[k], op.error, TRUE))
      /\ sweep' = IF op.how = "sweep" THEN SweepOn(sweep) ELSE sweep
  BY <1>1 DEF Import
<1>3. row[k] \in Rows /\ op.error \in BOOLEAN /\ Finished(k) /\ record[k].audio
  BY <1>1 DEF Import, IInv, TypeOK, Ops, OpFollowsRow, Finished
<1>4. PICK r \in Rows : r = FinishRecording(row[k], op.error, TRUE)
  BY <1>3, RowTypes
<1>5. r.stage \in {"failed", "queued"} /\ r.archived
  BY <1>3, <1>4 DEF FinishRecording, Rows
<1>6. row' \in [Jobs -> Rows]
  BY <1>2, <1>4, SetRowType DEF IInv
<1>7. /\ sweep' \in Sweeps
      /\ sweep'.wants => sweep'.todo # <<>>
  <2>1. CASE op.how = "sweep"
    <3>1. sweep.todo # <<>>
      BY <2>1 DEF IInv, OpFollowsRow, TypeOK
    <3> QED BY <1>2, <2>1, <3>1, SweepOnType DEF IInv
  <2>2. CASE op.how # "sweep"
    BY <1>2, <2>2 DEF IInv, TypeOK
  <2> QED BY <2>1, <2>2
<1>8. TypeOK'
  BY <1>2, <1>6, <1>7, ReleaseFacts DEF IInv, TypeOK, controllerVars
<1> QED BY <1>2, <1>3, <1>4, <1>5, <1>8, ReleaseFacts, StationIInv

LEMMA OperationIInv ==
  ASSUME IInv, Operation
  PROVE  IInv'
<1>1. CASE Started
  <2>1. Release /\ UNCHANGED <<row, sweep, late, outlived, controllerVars, begun>>
    BY <1>1 DEF Started
  <2>2. TypeOK'
    BY <2>1, ReleaseFacts DEF IInv, TypeOK, controllerVars
  <2> QED BY <2>1, <2>2, ReleaseFacts, RowsStandIInv
<1>2. CASE StartRefused
  BY <1>2, NotStartedIInv DEF StartRefused, Abandon
<1>3. CASE Confirm
  BY <1>3, ConfirmIInv
<1>4. CASE Stopped
  BY <1>4, GoesOnIInv DEF Stopped
<1>5. CASE StopRefused
  BY <1>5, StopFailsIInv DEF StopRefused, Abandon
<1>6. CASE Download /\ record[op.job].state # "recording" /\ record[op.job].audio
  <2>1. PICK k \in Jobs : k = op.job
    BY <1>6, OpFacts DEF Download
  <2>2. record[k] \in Records /\ record[k].state # "recording" /\ record[k].audio
    BY <1>6, <2>1 DEF IInv, TypeOK
  <2>3. capture.job # k
    BY <2>1, <2>2 DEF IInv, RecordingIsActive
  <2>4. record[k].state # "none"
    BY <2>2 DEF Records
  <2>5. Finished(op.job)
    BY <2>1, <2>2, <2>3, <2>4 DEF Finished, Records
  <2>6. /\ op' = [op EXCEPT !.at = "import"] /\ request' = "none"
        /\ UNCHANGED <<row, sweep, late, outlived, controllerVars, begun>>
    BY <1>6 DEF Download, IInv, TypeOK
  <2> QED BY <1>6, <2>5, <2>6, GoesOnIInv DEF Download
<1>7. CASE Download /\ ~(record[op.job].state # "recording" /\ record[op.job].audio)
  BY <1>7, StopFailsIInv DEF Download, Abandon
<1>8. CASE Import
  BY <1>8, ImportIInv
<1> QED BY <1>1, <1>2, <1>3, <1>4, <1>5, <1>6, <1>7, <1>8 DEF Operation

\* The round of the reconciler moves without the lock.
LEMMA SweepMovesIInv ==
  ASSUME IInv, UNCHANGED <<row, op, request, late, outlived, controllerVars, begun>>,
         sweep' \in Sweeps,
         sweep'.wants => sweep'.todo # <<>>,
         op.how = "sweep" => sweep'.wants
  PROVE  IInv'
<1>1. TypeOK'
  BY DEF IInv, TypeOK, controllerVars
<1>2. OpFollowsRow'
  <2>1. CASE op.at = "idle"
    BY <2>1 DEF IInv, OpFollowsRow, TypeOK, NoOp
  <2>2. CASE op.at # "idle"
    <3>1. PICK k \in Jobs : k = op.job
      BY <2>2, OpFacts
    <3> QED BY <2>2, <3>1 DEF IInv, OpFollowsRow, controllerVars, Finished
  <2> QED BY <2>1, <2>2
<1> QED BY <1>1, <1>2, RowsStandIInv

LEMMA SweepIInv ==
  ASSUME IInv, Sweep
  PROVE  IInv'
<1>1. CASE SweepStatus
  <2>1. Report({"recording"}) \in Seq([job : Jobs, skip : BOOLEAN])
    BY ReportType, TypesOfController DEF IInv
  <2>2. op.how # "sweep"
    BY <1>1 DEF SweepStatus, NoSweep, IInv, OpFollowsRow
  <2>3. /\ sweep' = [NoSweep EXCEPT !.todo = Report({"recording"})]
        /\ UNCHANGED <<row, op, request, late, outlived, controllerVars, begun>>
    BY <1>1 DEF SweepStatus
  <2>4. PICK t \in Seq([job : Jobs, skip : BOOLEAN]) : t = Report({"recording"})
    BY <2>1
  <2>5. sweep' \in Sweeps /\ ~sweep'.wants
    BY <2>3, <2>4, SweepTypes
  <2> QED BY <2>2, <2>3, <2>5, SweepMovesIInv
<1>2. CASE SweepLooks
  <2>1. sweep.todo # <<>> /\ ~sweep.wants /\ op.how # "sweep"
    BY <1>2 DEF SweepLooks, IInv, OpFollowsRow
  <2>2. /\ sweep' \in {SweepOn(sweep), [sweep EXCEPT !.wants = TRUE]}
        /\ UNCHANGED <<row, op, request, late, outlived, controllerVars, begun>>
    BY <1>2 DEF SweepLooks
  <2>3. CASE sweep' = SweepOn(sweep)
    BY <2>1, <2>2, <2>3, SweepOnType, SweepMovesIInv DEF IInv
  <2>4. CASE sweep' = [sweep EXCEPT !.wants = TRUE]
    <3>1. sweep \in Sweeps
      BY DEF IInv, TypeOK
    <3>2. sweep' \in Sweeps /\ sweep'.wants /\ sweep'.todo = sweep.todo
      BY <2>4, <3>1 DEF Sweeps
    <3> QED BY <2>1, <2>2, <3>2, SweepMovesIInv
  <2> QED BY <2>2, <2>3, <2>4
<1>3. CASE SweepStops
  <2>1. /\ sweep.wants /\ op = NoOp /\ sweep.todo # <<>>
        /\ UNCHANGED <<row, late, outlived, controllerVars, begun>>
    BY <1>3 DEF SweepStops, IInv, TypeOK
  <2>2. PICK k \in Jobs : k = Head(sweep.todo).job
    BY <2>1, SweepOnType DEF IInv
  <2>3. CASE sweep' = SweepOn(sweep) /\ UNCHANGED <<op, request>>
    BY <2>1, <2>3, SweepOnType, SweepMovesIInv DEF IInv, NoOp
  <2>4. CASE BeginStop(k, "sweep") /\ UNCHANGED sweep
    BY <2>1, <2>4, BeginStopIInv
  <2> QED BY <1>3, <2>2, <2>3, <2>4 DEF SweepStops
<1> QED BY <1>1, <1>2, <1>3 DEF Sweep

LEMMA UserIInv ==
  ASSUME IInv, NEW k \in Jobs, User(k)
  PROVE  IInv'
<1>1. ASSUME NEW how \in Starts, Begin(k, how) PROVE IInv'
  BY <1>1, BeginIInv
<1>2. CASE UserStop(k)
  BY <1>2, BeginStopIInv DEF UserStop
<1> QED BY <1>1, <1>2 DEF User

LEMMA DeliverIInv ==
  ASSUME IInv, NEW k \in Jobs, Deliver(k)
  PROVE  IInv'
<1>1. PICK r \in Rows : r = Delivered(row[k])
  BY RowTypes DEF IInv, TypeOK
<1>2. /\ row[k] \in Rows /\ row[k].archived /\ SetRow(k, r)
      /\ UNCHANGED <<op, request, sweep, late, outlived, controllerVars, begun>>
  BY <1>1 DEF Deliver, IInv, TypeOK
<1>3. r.stage = "completed" /\ r.archived
  BY <1>1, <1>2 DEF Delivered, Rows
<1>4. row' \in [Jobs -> Rows]
  BY <1>2, SetRowType DEF IInv
<1>5. TypeOK'
  BY <1>2, <1>4 DEF IInv, TypeOK, controllerVars
<1>6. OpFollowsRow'
  <2>1. CASE op.at = "idle"
    BY <1>2, <2>1 DEF IInv, OpFollowsRow, TypeOK, NoOp
  <2>2. CASE op.at # "idle"
    <3>1. PICK i \in Jobs : i = op.job
      BY <2>2, OpFacts
    <3>2. row'[i] = row[i]
      BY <1>2, <2>2, <3>1, OpFacts DEF SetRow, IInv, TypeOK
    <3> QED BY <1>2, <2>2, <3>1, <3>2 DEF IInv, OpFollowsRow, controllerVars, Finished
  <2> QED BY <2>1, <2>2
<1>7. Finished(k) /\ record[k].audio
  BY <1>2 DEF IInv, ArchivedRows
<1> QED BY <1>2, <1>3, <1>5, <1>6, <1>7, StationIInv

LEMMA ConnectionLostIInv ==
  ASSUME IInv, ConnectionLost
  PROVE  IInv'
<1>1. CASE op.at = "post" /\ NotStarted /\ Abandon /\ UNCHANGED sweep
  BY <1>1, NotStartedIInv DEF ConnectionLost
<1>2. CASE op.at = "confirm" /\ Release /\ UNCHANGED <<row, sweep, late, outlived>>
  <2>1. TypeOK'
    BY <1>2, ReleaseFacts DEF ConnectionLost, IInv, TypeOK, controllerVars
  <2> QED BY <1>2, <2>1, ReleaseFacts, RowsStandIInv DEF ConnectionLost
<1>3. CASE op.at \in {"stop", "download"} /\ StopFails /\ Abandon
  BY <1>3, StopFailsIInv DEF ConnectionLost
<1> QED BY <1>1, <1>2, <1>3 DEF ConnectionLost

LEMMA StoreFailsIInv ==
  ASSUME IInv, StoreFails
  PROVE  IInv'
<1>1. /\ op # NoOp /\ Release /\ Abandon /\ sweep' \in {sweep, DeadSweep}
      /\ UNCHANGED <<row, controllerVars, begun>>
  BY DEF StoreFails
<1>2. /\ late' \subseteq (Starts \cup {"stop"}) \X Jobs
      /\ outlived' \in BOOLEAN /\ (late' # {} => outlived')
      /\ ~outlived' => ~outlived
  BY <1>1, AbandonFacts DEF IInv
<1>3. sweep' \in Sweeps /\ (sweep'.wants => sweep'.todo # <<>>)
  BY <1>1, SweepTypes DEF IInv, TypeOK
<1>4. TypeOK'
  BY <1>1, <1>2, <1>3, ReleaseFacts DEF IInv, TypeOK, controllerVars
<1> QED BY <1>1, <1>2, <1>4, ReleaseFacts, RowsStandIInv

LEMMA ReconcilerDiesIInv ==
  ASSUME IInv, ReconcilerDies
  PROVE  IInv'
<1>1. op.how # "sweep"
  BY DEF ReconcilerDies, IInv, OpFollowsRow, NoOp
<1> QED BY <1>1, SweepTypes, SweepMovesIInv DEF ReconcilerDies

LEMMA StationRestartIInv ==
  ASSUME IInv, StationRestart
  PROVE  IInv'
<1>1. /\ Release /\ sweep' = NoSweep /\ UNCHANGED <<controllerVars, begun>>
      /\ row' = [j \in Jobs |-> IF row[j].stage = "recording"
                                THEN BrowserImportPending(row[j]) ELSE row[j]]
  BY DEF StationRestart
<1>2. /\ late' \subseteq (Starts \cup {"stop"}) \X Jobs
      /\ outlived' \in BOOLEAN /\ (late' # {} => outlived')
      /\ ~outlived' => ~outlived
  BY AbandonFacts DEF IInv, StationRestart
<1>3. ASSUME NEW j \in Jobs
      PROVE  row'[j] \in Rows /\ row'[j] = row[j]
  <2>1. row[j].stage = "recording" => BrowserImportPending(row[j]) = row[j]
    BY DEF IInv, TypeOK, Rows, BrowserImportPending
  <2> QED BY <1>1, <2>1 DEF IInv, TypeOK
<1>4. row' \in [Jobs -> Rows]
  BY <1>1, <1>3
<1>5. sweep' \in Sweeps /\ (sweep'.wants => sweep'.todo # <<>>)
  BY <1>1, SweepTypes
<1>6. TypeOK'
  BY <1>1, <1>2, <1>4, <1>5, ReleaseFacts DEF IInv, TypeOK, controllerVars
<1>7. RecordingIsActive'
  BY <1>1 DEF controllerVars, IInv, RecordingIsActive
<1>8. ArchivedRows'
  BY <1>1, <1>3 DEF controllerVars, IInv, ArchivedRows, Finished
<1>9. FailedJoinIsSilent'
  BY <1>1, <1>2, <1>3 DEF controllerVars, IInv, FailedJoinIsSilent
<1> QED BY <1>1, <1>6, <1>7, <1>8, <1>9, ReleaseFacts DEF IInv

LEMMA InitIInv == Init => IInv
<1> SUFFICES ASSUME Init PROVE IInv
  OBVIOUS
<1>1. TypeOK
  <2>1. row \in [Jobs -> Rows]
    BY DEF Init, AbsentRow, Rows, Stages, RemoteStages
  <2>2. sweep \in Sweeps
        /\ (sweep.wants => sweep.todo # <<>>)
    BY SweepTypes DEF Init
  <2>3. record \in [Jobs -> Records] /\ listing \in Seq(Jobs)
    <3>1. NoRecord \in Records /\ <<>> \in Seq(Jobs)
      BY DEF NoRecord, Records
    <3> QED BY <3>1 DEF Init
  <2>4. capture \in Captures /\ saveLost \subseteq Jobs \ {capture.job}
    BY NoCaptureFacts DEF Init
  <2>5. begun \in [Jobs -> Starts \cup {"none"}]
    BY DEF Init
  <2>6. op \in Ops /\ op.at = "idle" /\ op = NoOp /\ request = "none"
    BY DEF Init, NoOp, Ops
  <2> QED BY <2>1, <2>2, <2>3, <2>4, <2>5, <2>6 DEF Init, TypeOK
<1>2. RecordingIsActive
  BY CaptureAssumption DEF Init, RecordingIsActive, NoCapture, NoRecord
<1>3. ArchivedRows /\ FailedJoinIsSilent
  BY DEF Init, ArchivedRows, FailedJoinIsSilent, AbsentRow
<1>4. OpFollowsRow
  BY DEF Init, OpFollowsRow, NoOp
<1> QED BY <1>1, <1>2, <1>3, <1>4 DEF IInv

LEMMA StutterIInv == IInv /\ UNCHANGED vars => IInv'
<1> SUFFICES ASSUME IInv, UNCHANGED vars PROVE IInv'
  OBVIOUS
<1>1. UNCHANGED <<row, op, request, sweep, late, outlived, record, listing, capture,
                  saveLost, begun, controllerVars>>
  BY DEF vars, stationVars, controllerVars
<1>2. TypeOK'
  BY <1>1 DEF IInv, TypeOK
<1>3. OpFollowsRow'
  <2>1. CASE op.at = "idle"
    BY <1>1, <2>1 DEF IInv, OpFollowsRow, TypeOK, NoOp
  <2>2. CASE op.at # "idle"
    <3>1. PICK i \in Jobs : i = op.job
      BY <2>2, OpFacts
    <3> QED BY <1>1, <2>2, <3>1 DEF IInv, OpFollowsRow, Finished
  <2> QED BY <2>1, <2>2
<1> QED BY <1>1, <1>2, <1>3, RowsStandIInv

LEMMA NextIInv == IInv /\ [Next]_vars => IInv'
<1> SUFFICES ASSUME IInv, [Next]_vars PROVE IInv'
  OBVIOUS
<1>1. CASE Controller \/ Alone
  BY <1>1, AloneIInv, ServeLateIInv DEF Controller, Alone
<1>2. CASE Serve
  BY <1>2, ServeIInv
<1>3. CASE Operation
  BY <1>3, OperationIInv
<1>4. CASE Sweep
  BY <1>4, SweepIInv
<1>5. CASE \E j \in Jobs : User(j) \/ Deliver(j)
  BY <1>5, UserIInv, DeliverIInv
<1>6. CASE ConnectionLost
  BY <1>6, ConnectionLostIInv
<1>7. CASE StationRestart \/ StoreFails \/ ReconcilerDies
  BY <1>7, StationRestartIInv, StoreFailsIInv, ReconcilerDiesIInv
<1>8. CASE UNCHANGED vars
  BY <1>8, StutterIInv
<1> QED BY <1>1, <1>2, <1>3, <1>4, <1>5, <1>6, <1>7, <1>8
   DEF Next, Work, Fault, Alone
-----------------------------------------------------------------------------
(* The theorems. *)

\* The invariant holds in every state the station and the controller reach.
THEOREM Invariance == Spec => []IInv
BY InitIInv, NextIInv, PTL DEF Spec

\* The rows, the operation under the lock, the reconciler's round and the
\* controller's files keep their forms through every restart.
THEOREM TypeCorrect == Spec => []TypeOK
<1>1. IInv => TypeOK
  BY DEF IInv
<1> QED BY <1>1, Invariance, PTL

\* Only finished recordings with audio are imported, and the controller's
\* files say "recording" of the capture under way and of no other.
THEOREM CapturesStaySound == Spec => []CapturesAreSound
<1>1. IInv => CapturesAreSound
  BY DEF IInv, CapturesAreSound, ArchivedIsFinished, ArchivedRows, Finished
<1> QED BY <1>1, Invariance, PTL

\* A join reported as failed records nothing unseen, as long as no request
\* outlives its client.
THEOREM FailedJoinsAreSilent == Spec => []FailedJoinIsSilent
<1>1. IInv => FailedJoinIsSilent
  BY DEF IInv
<1> QED BY <1>1, Invariance, PTL

LEMMA RowsOnlyDelivered ==
  ASSUME IInv, Next
  PROVE  \A j \in Jobs : row[j].archived => row'[j] \in {row[j], Delivered(row[j])}
<1>1. CASE Controller \/ Alone \/ Serve \/ Sweep \/ ReconcilerDies \/ StoreFails
           \/ Started \/ Stopped \/ \E j \in Jobs : UserStop(j)
  BY <1>1 DEF Controller, Alone, Admitted, MeetingOver, CaptureExits, Watch, WatchFails,
     ServeLate, StartNotSaved, StopNotSaved, ControllerRestart, ControllerLost,
     stationVars, Serve, Sweep, SweepStatus, SweepLooks, SweepStops, ReconcilerDies,
     StoreFails, Started, Stopped, UserStop
<1>2. ASSUME NEW k \in Jobs, NEW how \in Starts, Begin(k, how)
      PROVE  \A j \in Jobs : row[j].archived => row'[j] = row[j]
  BY <1>2 DEF Begin, SetRow, IInv, TypeOK, ArchivedRows
<1>3. ASSUME op.at # "idle", NEW r, SetRow(op.job, r)
      PROVE  \A j \in Jobs : row[j].archived => row'[j] = row[j]
  BY <1>3, OpFacts DEF SetRow, IInv, TypeOK
<1>4. CASE StartRefused \/ Confirm \/ StopRefused \/ Download \/ Import \/ ConnectionLost
  <2>1. op.at # "idle"
    BY <1>4 DEF StartRefused, Confirm, StopRefused, Download, Import, ConnectionLost
  <2>2. UNCHANGED row \/ \E r : SetRow(op.job, r)
    BY <1>4 DEF StartRefused, Confirm, StopRefused, Download, Import, ConnectionLost,
       NotStarted, StopFails
  <2> QED BY <1>3, <2>1, <2>2
<1>5. CASE \E k \in Jobs : Deliver(k)
  BY <1>5 DEF Deliver, SetRow, IInv, TypeOK
<1>6. CASE StationRestart
  BY <1>6 DEF StationRestart, IInv, ArchivedRows
<1> QED
  BY <1>1, <1>2, <1>4, <1>5, <1>6 DEF Next, Work, Fault, Alone, Operation, User

\* What was handed to delivery is never taken back or imported again, by the
\* reconciler, by a user's Stop or by recover() after a restart.
THEOREM ImportsAreMadeOnce == Spec => ImportedOnce
<1>1. IInv /\ [Next]_vars
        => [\A j \in Jobs : row[j].archived => row'[j] \in {row[j], Delivered(row[j])}]_vars
  BY RowsOnlyDelivered
<1> QED BY <1>1, Invariance, PTL DEF Spec, ImportedOnce
=============================================================================
