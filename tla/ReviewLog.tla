------------------------------ MODULE ReviewLog ------------------------------
(***************************************************************************)
(* What reviewers of a report are promised, with one place that keeps it   *)
(* and no network in sight: a save is applied once, on top of the report   *)
(* its reviewer had seen or not at all; what the station shows is an       *)
(* earlier state of the report and never goes back; "saved" and "conflict" *)
(* are said of saves that are shown and of saves that came too late.       *)
(***************************************************************************)
EXTENDS Naturals, Sequences, SequencesExt

CONSTANT Saves

VARIABLES log,     \* the saves applied so far
          shown,   \* those in the report that reviewers see
          save     \* each save: the number of revisions its reviewer had seen,
                   \* and what the reviewer has been told

logVars == <<log, shown, save>>

Init ==
  /\ log = <<>> /\ shown = <<>>
  /\ save = [c \in Saves |-> [expected |-> 0, outcome |-> "new"]]

Told(c, before, after) ==
  /\ save[c].outcome = before
  /\ save' = [save EXCEPT ![c].outcome = after]

\* A reviewer saves changes to a report that was shown at some time.
Ask(c) ==
  /\ save[c].outcome = "new"
  /\ \E seen \in 0 .. Len(shown) :
       save' = [save EXCEPT ![c] = [expected |-> seen, outcome |-> "waiting"]]
  /\ UNCHANGED <<log, shown>>

AskAgain(c) == Told(c, "uncertain", "waiting") /\ UNCHANGED <<log, shown>>

\* Nobody has saved since the reviewer looked, and nothing was refused.
Apply(c) ==
  /\ save[c].outcome \in {"waiting", "uncertain"}
  /\ save[c].expected = Len(log)
  /\ log' = Append(log, c)
  /\ UNCHANGED <<shown, save>>

Show == IsPrefix(shown, shown') /\ IsPrefix(shown', log)

Acknowledge(c) ==
  /\ Told(c, "waiting", "acknowledged")
  /\ Show /\ c \in ToSet(shown')
  /\ UNCHANGED log

\* Something was applied since the reviewer looked, this save itself perhaps.
Refuse(c) ==
  /\ Told(c, "waiting", "conflict")
  /\ save[c].expected < Len(log)
  /\ Show
  /\ UNCHANGED log

\* Any number of reviewers lose the answer at once.
Lose ==
  /\ \E lost \in SUBSET {c \in Saves : save[c].outcome = "waiting"} :
       save' = [c \in Saves |-> IF c \in lost THEN [save[c] EXCEPT !.outcome = "uncertain"]
                                ELSE save[c]]
  /\ UNCHANGED <<log, shown>>

Next ==
  \/ \E c \in Saves : Ask(c) \/ AskAgain(c) \/ Apply(c) \/ Acknowledge(c) \/ Refuse(c)
  \/ Lose

Spec == Init /\ [][Next]_logVars
=============================================================================
