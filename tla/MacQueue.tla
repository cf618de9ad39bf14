------------------------------ MODULE MacQueue ------------------------------
(***************************************************************************)
(* The Mac worker on its own, with any number of clients at once: the      *)
(* retry handler looks at active_job and updates the row in two steps, in  *)
(* a thread of its own, and anything may happen between the two.           *)
(* JobDelivery, where one station sends one request at a time, takes the   *)
(* handler as one step.                                                    *)
(***************************************************************************)
EXTENDS MacWorker

VARIABLES retrying,   \* retry handlers that found no active inference
          calm        \* no fault happens and no client asks any more

queueVars == <<macVars, retrying, calm>>

TypeOK ==
  /\ MacTypeOK
  /\ retrying \subseteq Jobs
  /\ calm \in BOOLEAN

Init ==
  /\ MacInit
  /\ retrying = {}
  /\ calm = FALSE

\* retry_job() up to the answer of active_job, and from there on: an update
\* that is not allowed is answered with 409 and changes nothing.
RetryCheck(j) ==
  /\ mac[j] # "absent" /\ ~ActiveJob(j) /\ j \notin retrying
  /\ retrying' = retrying \cup {j}
  /\ UNCHANGED <<macVars, calm>>

RetryApply(j) ==
  /\ j \in retrying
  /\ Update(j, "queued", {"failed", "cancelled"})
  /\ retrying' = retrying \ {j}
  /\ UNCHANGED <<consumer, calm>>

Client(j) ==
  /\ ~calm
  /\ \/ RetryCheck(j)
     \/ CreateJob(j) /\ UNCHANGED <<retrying, calm>>
     \/ CancelJob(j) /\ UNCHANGED <<retrying, calm>>

Consumer(j) == Consume(j) /\ UNCHANGED <<retrying, calm>>

\* Handlers die with the process.
Fault ==
  /\ ~calm
  /\ \/ (\E j \in Jobs : ConsumerErrorLost(j)) /\ UNCHANGED retrying
     \/ (MacRestart \/ MacReset) /\ retrying' = {}
  /\ UNCHANGED calm

CalmDown ==
  /\ ~calm
  /\ calm' = TRUE
  /\ UNCHANGED <<macVars, retrying>>

Next ==
  \/ \E j \in Jobs : Client(j) \/ RetryApply(j) \/ Consumer(j)
  \/ Fault
  \/ CalmDown

\* The consumer is a task that always runs again, whatever a run raised.
Spec == Init /\ [][Next]_queueVars
FairSpec ==
  /\ Spec
  /\ WF_queueVars(\E j \in Jobs : RetryApply(j))
  /\ WF_queueVars(\E j \in Jobs : Consumer(j) /\ consumer' # consumer)

-----------------------------------------------------------------------------
\* What a run writes late never undoes an outcome: an ended job changes only
\* when a retry queues it again, and a completed one never does.
OutcomeStands ==
  [][\A j \in Jobs :
       mac[j] \in Ended /\ mac'[j] # mac[j] /\ mac'[j] # "absent"
         => mac[j] # "completed" /\ mac'[j] = "queued"]_queueVars

\* Only a double write error of the consumer leaves a job that is called
\* running and that nobody works on; no crash, cancel or retry does.
OrphanedByLostWriteOnly ==
  [][\A j \in Jobs :
       Orphaned(j)' /\ ~Orphaned(j) => consumer.at = "erring" /\ ~calm]_queueVars

\* Once the clients and the faults are silent, the queue runs dry.
QueueDrains ==
  \A j \in Jobs : calm /\ mac[j] \in Live ~> mac[j] \in Ended \/ Orphaned(j)

\* "Cancellation lets the active inference finish, and a retry cannot race it"
\* (mac-worker/README.md): a cancelled job is never queued again
\* while its inference is still at work.
RetryWaitsForInference ==
  [][\A j \in Jobs :
       mac[j] = "cancelled" /\ mac'[j] = "queued"
         => consumer # [at |-> "running", job |-> j]]_queueVars
=============================================================================
