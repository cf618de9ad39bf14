------------------------ MODULE JobDeliveryLiveness ------------------------
(***************************************************************************)
(* What JobDelivery must do in the end.  A job can be kept from settling   *)
(* by faults that never stop, so liveness is stated for the time after the *)
(* last one.  "calm" marks that time: a fault-free round that changes      *)
(* nothing looks exactly like a lost one, so the step alone cannot tell.   *)
(***************************************************************************)
EXTENDS JobDelivery

VARIABLE calm   \* no fault happens any more

calmVars == <<vars, calm>>

CalmDown ==
  /\ ~calm
  /\ calm' = TRUE
  /\ UNCHANGED vars

CalmNext ==
  \/ Work /\ UNCHANGED calm
  \/ ~calm /\ Fault /\ UNCHANGED calm
  \/ CalmDown

CalmInit == Init /\ calm = FALSE

\* A loop that no error has ended runs again after every round, and so does
\* the consumer, whose except branch catches everything; available_at lets
\* every due row be the oldest one in turn.  A loop that is dead when the
\* faults cease picks nothing any more, whatever the fairness.  NextStage is
\* no progress of its own: the pipeline ends by Publish, FailRun or RunRaises.
CalmSpec ==
  /\ CalmInit /\ [][CalmNext]_calmVars
  /\ \A j \in Jobs : SF_calmVars(Pick(j) /\ UNCHANGED calm)
  /\ WF_calmVars(ServeWaiting /\ UNCHANGED <<station, files, loop, calm>>)
  /\ WF_calmVars(Receive /\ UNCHANGED calm)
  /\ WF_calmVars(Archive /\ UNCHANGED calm)
  /\ WF_calmVars(MacStep /\ consumer' # consumer /\ UNCHANGED calm)

-----------------------------------------------------------------------------
LoopAlive == loop.at # "dead"

\* Once faults cease, a job with work left is completed, failed or cancelled;
\* only a job the worker has orphaned is polled for ever, and nothing moves
\* when a database error has ended the loop (worker.py run has no try).
Settles ==
  \A j \in Jobs : calm /\ LoopAlive /\ Pending(j) ~> ~Pending(j) \/ Orphaned(j)

\* Once faults cease with the loop alive, a command reaches the worker or the
\* user changes it, an orphaned job's included: no 409, 404 or stale answer
\* swallows or postpones it for ever.
CommandDelivered ==
  \A j \in Jobs, g \in 0 .. MaxIntents :
    calm /\ LoopAlive /\ station[j].action # "none" /\ station[j].gen = g
      ~> station[j].action = "none" \/ station[j].gen # g
=============================================================================
