--------------------------- MODULE MacQueueProofs ---------------------------
(***************************************************************************)
(* Theorems about MacQueue for any set of jobs and any number of clients.  *)
(***************************************************************************)
EXTENDS MacQueue, MacWorkerProofs

\* A run that has written its outcome leaves a job that is not running any
\* more, although a retry may have queued it again since.
LeftIsEnded == consumer.at = "leaving" => mac[consumer.job] # "running"

IInv == TypeOK /\ ConsumerWorks /\ LeftIsEnded

-----------------------------------------------------------------------------
\* What the consumer writes: the job it works on, and only while that one is
\* live or cancelled; no run is left behind but by the lost write.
LEMMA ConsumerWrites ==
  ASSUME IInv, NEW i \in Jobs, Consume(i) \/ ConsumerErrorLost(i)
  PROVE  /\ LeftIsEnded'
         /\ \A j \in Jobs : mac[j] \in Ended => mac'[j] = mac[j]
         /\ Consume(i) => \A j \in Jobs : Orphaned(j)' => Orphaned(j)
         /\ ConsumerErrorLost(i) => consumer.at = "erring"
<1> USE DEF IInv, TypeOK, MacTypeOK, ConsumerWorks, LeftIsEnded, Orphaned, Ended, Live,
            Update, Updated
<1>1. CASE Claim(i)
  BY <1>1, NoJobAssumption DEF Claim, ConsumerErrorLost
<1>2. CASE BeginRun(i) \/ EndRun(i) \/ RunRaises(i)
  BY <1>2, NoJobAssumption DEF BeginRun, EndRun, RunRaises, ConsumerErrorLost, Idle
<1>3. CASE NextStage(i)
  BY <1>3 DEF NextStage, ConsumerErrorLost
<1>4. CASE Publish(i) \/ FailRun(i) \/ ConsumerError(i)
  BY <1>4, NoJobAssumption DEF Publish, FailRun, ConsumerError, ConsumerErrorLost, Idle
<1>5. CASE ConsumerErrorLost(i) /\ ~Consume(i)
  BY <1>5 DEF ConsumerErrorLost, Idle
<1> QED BY <1>1, <1>2, <1>3, <1>4, <1>5 DEF Consume

\* What a client writes: the job it asks about.
LEMMA ClientWrites ==
  ASSUME IInv, NEW i \in Jobs, Client(i) \/ RetryApply(i)
  PROVE  /\ IInv'
         /\ \A j \in Jobs : mac[j] \in Ended /\ mac'[j] # mac[j] =>
                              mac[j] # "completed" /\ mac'[j] = "queued"
         /\ \A j \in Jobs : Orphaned(j)' => Orphaned(j)
<1>1. CASE RetryCheck(i) /\ UNCHANGED <<macVars, calm>>
  BY <1>1 DEF RetryCheck, macVars, IInv, TypeOK, MacTypeOK, ConsumerWorks, LeftIsEnded, Orphaned
<1>2. CASE /\ CreateJob(i) \/ CancelJob(i) \/ Update(i, "queued", {"failed", "cancelled"})
           /\ UNCHANGED <<consumer, calm>> /\ retrying' \subseteq retrying
  <2>1. /\ mac' \in [Jobs -> MacStages]
        /\ \A j \in Jobs :
             /\ mac[j] \in Live \cup {"cancelled"} => mac'[j] \in Live \cup {"cancelled"}
             /\ mac'[j] = "running" => mac[j] = "running"
             /\ mac[j] \in Ended /\ mac'[j] # mac[j] =>
                  mac[j] # "completed" /\ mac'[j] = "queued"
    BY <1>2 DEF CreateJob, CancelJob, Update, Updated, IInv, TypeOK, MacTypeOK,
       MacStages, Ended, Live
  <2> QED BY <1>2, <2>1 DEF IInv, TypeOK, MacTypeOK, ConsumerWorks, LeftIsEnded, Orphaned
<1> QED BY <1>1, <1>2 DEF Client, RetryCheck, RetryApply, CreateJob, CancelJob

LEMMA FaultWrites ==
  ASSUME IInv, Fault
  PROVE  /\ IInv'
         /\ \A j \in Jobs : mac[j] \in Ended => mac'[j] \in {mac[j], "absent"}
         /\ \A j \in Jobs : Orphaned(j)' /\ ~Orphaned(j) => consumer.at = "erring" /\ ~calm
<1>1. ASSUME NEW i \in Jobs, ConsumerErrorLost(i), UNCHANGED <<retrying, calm>>
      PROVE  IInv'
  BY <1>1, ConsumerType, ConsumerMoves, ConsumerWrites DEF IInv, TypeOK
<1>2. CASE (MacRestart \/ MacReset) /\ retrying' = {} /\ UNCHANGED calm
  <2>1. MacTypeOK' /\ ConsumerWorks'
    BY <1>2, RestartType, ConsumerMoves DEF IInv, TypeOK
  <2>2. LeftIsEnded' /\ \A j \in Jobs : ~Orphaned(j)'
    BY <1>2 DEF MacRestart, MacReset, LeftIsEnded, Orphaned, Idle
  <2>3. \A j \in Jobs : mac[j] \in Ended => mac'[j] \in {mac[j], "absent"}
    BY <1>2 DEF MacRestart, MacReset, Ended
  <2> QED BY <1>2, <2>1, <2>2, <2>3 DEF IInv, TypeOK
<1>3. CASE \E i \in Jobs : ConsumerErrorLost(i) /\ UNCHANGED <<retrying, calm>>
  BY <1>1, <1>3, ConsumerWrites DEF Fault
<1> QED BY <1>2, <1>3 DEF Fault

LEMMA InitIInv == Init => IInv
<1> SUFFICES ASSUME Init PROVE IInv
  OBVIOUS
<1>1. TypeOK
  BY NoJobAssumption DEF Init, MacInit, TypeOK, MacTypeOK, MacStages, Places, Idle
<1> QED BY <1>1 DEF Init, MacInit, IInv, ConsumerWorks, LeftIsEnded, Idle

LEMMA NextIInv == IInv /\ [Next]_queueVars => IInv'
<1> SUFFICES ASSUME IInv, [Next]_queueVars PROVE IInv'
  OBVIOUS
<1>1. ASSUME NEW i \in Jobs, Client(i) \/ RetryApply(i) PROVE IInv'
  BY <1>1, ClientWrites
<1>2. ASSUME NEW i \in Jobs, Consumer(i) PROVE IInv'
  BY <1>2, ConsumerType, ConsumerMoves, ConsumerWrites DEF Consumer, IInv, TypeOK
<1>3. CASE Fault
  BY <1>3, FaultWrites
<1>4. CASE CalmDown \/ UNCHANGED queueVars
  BY <1>4 DEF CalmDown, queueVars, macVars, IInv, TypeOK, MacTypeOK, ConsumerWorks, LeftIsEnded
<1> QED BY <1>1, <1>2, <1>3, <1>4 DEF Next

-----------------------------------------------------------------------------
(* The theorems. *)

\* In every reachable state the whole inductive invariant holds.
THEOREM Invariance == Spec => []IInv
<1>1. Init => IInv
  BY InitIInv
<1>2. IInv /\ [Next]_queueVars => IInv'
  BY NextIInv
<1> QED BY <1>1, <1>2, PTL DEF Spec

\* The job table, the consumer and the waiting retries are well formed.
THEOREM TypeCorrect == Spec => []TypeOK
<1>1. IInv => TypeOK
  BY DEF IInv
<1> QED BY <1>1, Invariance, PTL

\* However late a run writes, and whatever clients do meanwhile: an outcome
\* stands until a retry queues the job again, a completed one for good.
THEOREM OutcomesStand == Spec => OutcomeStands
<1>1. ASSUME IInv, Next, NEW j \in Jobs,
             mac[j] \in Ended, mac'[j] # mac[j], mac'[j] # "absent"
      PROVE  mac[j] # "completed" /\ mac'[j] = "queued"
  BY <1>1, ClientWrites, ConsumerWrites, FaultWrites
  DEF Next, Consumer, CalmDown, macVars
<1>2. IInv /\ [Next]_queueVars =>
        [\A j \in Jobs :
           mac[j] \in Ended /\ mac'[j] # mac[j] /\ mac'[j] # "absent"
             => mac[j] # "completed" /\ mac'[j] = "queued"]_queueVars
  BY <1>1
<1> QED BY <1>2, Invariance, PTL DEF OutcomeStands, Spec

\* Neither a crash nor a cancel or retry leaves a job running that nobody
\* works on; only the consumer's lost error write does.
THEOREM OrphansNeedALostWrite == Spec => OrphanedByLostWriteOnly
<1>1. ASSUME IInv, Next, NEW j \in Jobs, Orphaned(j)', ~Orphaned(j)
      PROVE  consumer.at = "erring" /\ ~calm
  BY <1>1, ClientWrites, ConsumerWrites, FaultWrites
  DEF Next, Consumer, CalmDown, macVars, Orphaned
<1>2. IInv /\ [Next]_queueVars =>
        [\A j \in Jobs :
           Orphaned(j)' /\ ~Orphaned(j) => consumer.at = "erring" /\ ~calm]_queueVars
  BY <1>1
<1> QED BY <1>2, Invariance, PTL DEF OrphanedByLostWriteOnly, Spec
=============================================================================
