------------------------- MODULE ReviewSyncLiveness -------------------------
(***************************************************************************)
(* What ReviewSync must do in the end: every save is answered.  As in      *)
(* JobDeliveryLiveness, "calm" marks the time after the last fault; only a *)
(* request that an earlier fault took away may still be given up.          *)
(***************************************************************************)
EXTENDS ReviewSync

VARIABLE calm   \* no fault happens any more

calmVars == <<vars, calm>>

CalmDown ==
  /\ ~calm
  /\ calm' = TRUE
  /\ UNCHANGED vars

\* The worker will not answer: the request died with it.
Unanswerable ==
  /\ handler.at = "posting"
  /\ reply = NoReply
  /\ \A l \in inbox : ~l.awaited
  /\ saving # NoSaving => ~saving.letter.awaited

GiveUpDeadRequest == Unanswerable /\ GiveUp

CalmNext ==
  \/ (Work \/ GiveUpDeadRequest) /\ UNCHANGED calm
  \/ ~calm /\ Fault /\ UNCHANGED calm
  \/ CalmDown

CalmInit == Init /\ calm = FALSE

\* Both servers keep running their handlers, a broken connection is noticed,
\* and asyncio.Lock is first come first served: every save gets its turn.
CalmSpec ==
  /\ CalmInit /\ [][CalmNext]_calmVars
  /\ WF_calmVars(Worker /\ UNCHANGED calm)
  /\ WF_calmVars(Station /\ UNCHANGED calm)
  /\ WF_calmVars(GiveUpDeadRequest /\ UNCHANGED calm)
  /\ \A c \in Saves : SF_calmVars(StartReview(c) /\ UNCHANGED calm)

-----------------------------------------------------------------------------
\* Once faults cease, every save that waits gets an answer: the fetch after a
\* conflict and the archive that finds the worker moved on always end, however
\* many other saves are published in between.
SaveIsAnswered ==
  \A c \in Saves : calm /\ save[c].outcome = "waiting" ~> save[c].outcome # "waiting"
=============================================================================
