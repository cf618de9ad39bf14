-------------------------- MODULE MacWorkerProofs --------------------------
(***************************************************************************)
(* Lemmas about the Mac worker's job table and its consumer, shared by the *)
(* proofs about the worker on its own (MacQueueProofs) and with a station  *)
(* (JobDeliveryProofs).                                                    *)
(***************************************************************************)
EXTENDS MacWorker, TLAPS

\* JobStore.update() writes a stage or leaves the one it finds.
LEMMA UpdatedType ==
  ASSUME NEW stage \in MacStages, NEW to \in MacStages, NEW allowed
  PROVE  Updated(stage, to, allowed) \in MacStages
BY DEF Updated

LEMMA UpdateType ==
  ASSUME MacTypeOK, NEW j \in Jobs, NEW to \in MacStages, NEW allowed, Update(j, to, allowed)
  PROVE  mac' \in [Jobs -> MacStages]
<1>1. Updated(mac[j], to, allowed) \in MacStages
  BY UpdatedType DEF MacTypeOK
<1> QED BY <1>1 DEF Update, MacTypeOK

\* Every step of the consumer and every handler keeps the worker's types.
LEMMA ConsumerType ==
  ASSUME MacTypeOK, NEW j \in Jobs, Consume(j) \/ ConsumerErrorLost(j) \/ HandlerStep(j)
  PROVE  MacTypeOK'
<1> USE NoJobAssumption
<1>1. CASE Claim(j)
  <2>1. mac' \in [Jobs -> MacStages]
    BY <1>1, UpdateType DEF Claim, MacStages, Live
  <2> QED BY <1>1, <2>1 DEF Claim, MacTypeOK, Places
<1>2. CASE BeginRun(j)
  BY <1>2 DEF BeginRun, MacTypeOK, Places
<1>3. CASE NextStage(j)
  <2>1. mac' \in [Jobs -> MacStages]
    BY <1>3, UpdateType DEF NextStage, MacStages, Live
  <2> QED BY <1>3, <2>1 DEF NextStage, MacTypeOK
<1>4. CASE Publish(j) \/ FailRun(j) \/ ConsumerError(j)
  <2>1. mac' \in [Jobs -> MacStages]
    BY <1>4, UpdateType DEF Publish, FailRun, ConsumerError, MacStages, Ended
  <2> QED BY <1>4, <2>1 DEF Publish, FailRun, ConsumerError, MacTypeOK, Places, Idle
<1>5. CASE EndRun(j) \/ RunRaises(j) \/ ConsumerErrorLost(j)
  BY <1>5 DEF EndRun, RunRaises, ConsumerErrorLost, MacTypeOK, Places, Idle
<1>6. CASE CreateJob(j)
  BY <1>6 DEF CreateJob, MacTypeOK, MacStages, Live
<1>7. CASE CancelJob(j) \/ RetryJob(j)
  <2>1. mac' \in [Jobs -> MacStages]
    BY <1>7, UpdateType DEF CancelJob, RetryJob, MacStages, Ended, Live
  <2> QED BY <1>7, <2>1 DEF CancelJob, RetryJob, MacTypeOK
<1> QED
  BY <1>1, <1>2, <1>3, <1>4, <1>5, <1>6, <1>7 DEF Consume, HandlerStep

LEMMA RestartType ==
  ASSUME MacTypeOK, MacRestart \/ MacReset
  PROVE  MacTypeOK'
BY NoJobAssumption DEF MacRestart, MacReset, MacTypeOK, MacStages, Ended, Live, Idle, Places

-----------------------------------------------------------------------------
\* The consumer works on a job that is live or was cancelled under its hands.
ConsumerWorks ==
  consumer.at \in {"claimed", "running", "erring"} =>
    mac[consumer.job] \in Live \cup {"cancelled"}

\* Only a request cancels a job or makes it live again: the consumer, a
\* restart and a reset do neither.
LEMMA ConsumerMoves ==
  ASSUME MacTypeOK, ConsumerWorks,
         (\E i \in Jobs : Consume(i) \/ ConsumerErrorLost(i)) \/ MacRestart \/ MacReset
  PROVE  /\ ConsumerWorks'
         /\ \A j \in Jobs : /\ mac'[j] = "cancelled" => mac[j] = "cancelled"
                            /\ mac'[j] \in Live => mac[j] \in Live
<1> USE DEF MacTypeOK, ConsumerWorks, Live
<1>1. ASSUME NEW i \in Jobs, Claim(i) \/ NextStage(i) \/ Publish(i) \/ FailRun(i)
                               \/ ConsumerError(i)
      PROVE  /\ ConsumerWorks'
             /\ \A j \in Jobs : /\ mac'[j] = "cancelled" => mac[j] = "cancelled"
                                /\ mac'[j] \in Live => mac[j] \in Live
  <2>1. CASE Claim(i)
    BY <2>1 DEF Claim, Update, Updated
  <2>2. CASE NextStage(i)
    BY <2>2 DEF NextStage, Update, Updated
  <2>3. CASE Publish(i) \/ FailRun(i) \/ ConsumerError(i)
    BY <2>3 DEF Publish, FailRun, ConsumerError, Update, Updated, Idle
  <2> QED BY <1>1, <2>1, <2>2, <2>3
<1>2. ASSUME NEW i \in Jobs, BeginRun(i) \/ EndRun(i) \/ RunRaises(i) \/ ConsumerErrorLost(i)
      PROVE  ConsumerWorks' /\ UNCHANGED mac
  BY <1>2 DEF BeginRun, EndRun, RunRaises, ConsumerErrorLost, Idle
<1>3. CASE MacRestart \/ MacReset
  BY <1>3 DEF MacRestart, MacReset, Idle
<1> QED BY <1>1, <1>2, <1>3 DEF Consume
=============================================================================
