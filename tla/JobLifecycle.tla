---------------------------- MODULE JobLifecycle ----------------------------
(***************************************************************************)
(* What the station promises about a job, with no network, no worker and   *)
(* no restarts in sight: a job is recorded, pending, and then completed,   *)
(* failed or cancelled.  It is cancelled by its user alone, only its user  *)
(* makes it pending again, and a completed job is final.  One thing its    *)
(* users cannot rule out: a command of theirs that the worker serves late, *)
(* "overtaken" by newer ones, may cancel the job once more.                *)
(***************************************************************************)
EXTENDS Naturals

CONSTANT Jobs

VARIABLES status,
          intents,     \* cancels and retries of the user so far
          overtaken    \* jobs the worker has changed on an outdated command

lifeVars == <<status, intents, overtaken>>

Init ==
  /\ status = [j \in Jobs |-> "absent"]
  /\ intents = [j \in Jobs |-> 0]
  /\ overtaken = {}

Move(j, from, to) ==
  /\ status[j] = from
  /\ status' = [status EXCEPT ![j] = to]

Submit(j) == Move(j, "absent", "pending") /\ UNCHANGED <<intents, overtaken>>

Record(j) == Move(j, "absent", "recording") /\ UNCHANGED <<intents, overtaken>>

StopRecording(j) ==
  /\ Move(j, "recording", "pending") \/ Move(j, "recording", "failed")
  /\ UNCHANGED <<intents, overtaken>>

Finish(j) ==
  /\ Move(j, "pending", "completed") \/ Move(j, "pending", "failed")
  /\ UNCHANGED <<intents, overtaken>>

Cancel(j) ==
  /\ Move(j, "pending", "cancelled")
  /\ intents' = [intents EXCEPT ![j] = @ + 1]
  /\ UNCHANGED overtaken

Retry(j) ==
  /\ Move(j, "failed", "pending") \/ Move(j, "cancelled", "pending")
  /\ intents' = [intents EXCEPT ![j] = @ + 1]
  /\ UNCHANGED overtaken

\* A restart of the station fails any number of recordings at once.
Interrupt ==
  /\ \E lost \in SUBSET {j \in Jobs : status[j] = "recording"} :
       status' = [j \in Jobs |-> IF j \in lost THEN "failed" ELSE status[j]]
  /\ UNCHANGED <<intents, overtaken>>

\* A late command comes into effect, or a newer one replaces its effect.
Overtake ==
  /\ overtaken' \in SUBSET Jobs
  /\ UNCHANGED <<status, intents>>

\* The late command was a cancel, and the station learns of it.
CancelledLate(j) ==
  /\ j \in overtaken
  /\ Move(j, "pending", "cancelled")
  /\ UNCHANGED <<intents, overtaken>>

Next ==
  \/ \E j \in Jobs :
       Submit(j) \/ Record(j) \/ StopRecording(j) \/ Finish(j) \/ Cancel(j) \/ Retry(j)
       \/ CancelledLate(j)
  \/ Interrupt \/ Overtake

Spec == Init /\ [][Next]_lifeVars
=============================================================================
