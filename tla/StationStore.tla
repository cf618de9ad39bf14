---------------------------- MODULE StationStore ----------------------------
(***************************************************************************)
(* The station's job rows (station/src/meeting_station/store.py): one      *)
(* operator per method of Store, from the row before to the row after.     *)
(* Every method runs in one SQLite transaction under Store.lock, so each   *)
(* is one step of the modules that use it.  available_at and attempts only *)
(* decide when a row is picked again; they are abstracted to "any time".   *)
(***************************************************************************)
EXTENDS Integers

\* What the Mac worker can report; "running" stands for its six stages from
\* preprocessing to exporting, which the station copies without looking.
RemoteStages == {"queued", "running", "completed", "failed", "cancelled"}
TERMINAL     == {"completed", "failed", "cancelled"}
Stages       == RemoteStages \cup {"absent", "recording", "exporting"}
Commands     == {"cancel", "retry"}

NoResult      == -1     \* the result column is NULL
AnyGeneration == -1     \* the caller passed generation=None

Rows == [stage : Stages, submitted : BOOLEAN, action : Commands \cup {"none"},
         gen : Nat, result : Nat \cup {NoResult}, archived : BOOLEAN]

AbsentRow == [stage |-> "absent", submitted |-> FALSE, action |-> "none",
              gen |-> 0, result |-> NoResult, archived |-> FALSE]

\* The generation check shared by apply_remote, defer, complete, remote_missing.
Current(r, gen) == gen \in {AnyGeneration, r.gen}

\* create(): a replayed key returns the original row and writes nothing.
CreateRow(r, recording) ==
  IF r.stage # "absent" THEN r
  ELSE [r EXCEPT !.stage = IF recording THEN "recording" ELSE "queued",
                 !.archived = ~recording]

\* work(): the rows the delivery loop may pick.
WorkDue(r) ==
  /\ r.stage # "absent"
  /\ \/ r.action # "none"
     \/ r.stage \notin TERMINAL \cup {"recording"}

\* Mutant: completion is published before the result and exports are here.
AcceptRemotePublishes(r, remote) ==
  [r EXCEPT !.submitted = TRUE,
            !.action = IF r.stage = "cancelled" /\ remote \notin TERMINAL
                       THEN "cancel" ELSE "none",
            !.stage = IF r.stage = "cancelled" THEN @ ELSE remote]

\* Mutant: the answer is copied into a cancelled row as well.
AcceptRemoteRevives(r, remote) ==
  [r EXCEPT !.submitted = TRUE, !.action = "none",
            !.stage = IF remote = "completed" THEN "exporting" ELSE remote]

\* apply_remote() for a response of the row's own generation.
AcceptRemote(r, remote) ==
  LET seen == [r EXCEPT !.submitted = TRUE] IN
  IF r.stage = "cancelled"
  THEN [seen EXCEPT !.action = IF remote \in TERMINAL THEN "none" ELSE "cancel"]
  ELSE [seen EXCEPT !.action = "none",
                    !.stage = IF remote = "completed" THEN "exporting" ELSE remote]

\* Mutant: an upload acknowledged too late does not re-arm the cancel.
AcceptStaleDropsCommand(r, remote) == [r EXCEPT !.submitted = TRUE]

\* apply_remote() for a response to an older generation: only the fact that
\* the worker has the job is kept, with the command the new intent now needs.
AcceptStale(r, remote) ==
  IF r.submitted THEN r
  ELSE [r EXCEPT !.submitted = TRUE,
                 !.action = IF r.stage = "cancelled" /\ remote \notin TERMINAL
                              THEN "cancel"
                            ELSE IF r.stage = "queued" /\ remote \in {"cancelled", "failed"}
                              THEN "retry"
                            ELSE @]

ApplyRemote(r, remote, gen) ==
  IF Current(r, gen) THEN AcceptRemote(r, remote) ELSE AcceptStale(r, remote)

Defer(r, gen, terminal) ==
  IF Current(r, gen) /\ terminal
  THEN [r EXCEPT !.stage = "failed", !.action = "none"] ELSE r

\* Mutant: the generation is not compared.
CompleteRowAnyGeneration(r, gen, revision) ==
  IF r.stage # "cancelled" /\ r.result <= revision
  THEN [r EXCEPT !.stage = "completed", !.action = "none", !.result = revision]
  ELSE r

\* complete() drops results of an older generation, of a cancelled job, and
\* of an older review than the one the row already holds.
CompleteRow(r, gen, revision) ==
  IF Current(r, gen) /\ r.stage # "cancelled" /\ r.result <= revision
  THEN [r EXCEPT !.stage = "completed", !.action = "none", !.result = revision]
  ELSE r

CanRetry(r) == r.stage \in {"failed", "cancelled"} /\ r.archived

\* Mutant: a retry leaves the pending command as it is.
RetryRowKeepsCommand(r) == [r EXCEPT !.stage = "queued", !.gen = @ + 1]

RetryRow(r) ==
  [r EXCEPT !.stage = "queued", !.gen = @ + 1,
            !.action = IF r.submitted THEN "retry" ELSE "none"]

\* Mutant: a job the worker has lost is asked for again instead of uploaded.
RemoteMissingIgnored(r, gen) == r

RemoteMissing(r, gen) ==
  IF ~Current(r, gen) THEN r
  ELSE [r EXCEPT !.submitted = FALSE, !.action = "none",
                 !.stage = IF @ = "cancelled" THEN @ ELSE "queued"]

\* cancel() answers with the row as it is when the job is already terminal
\* and refuses a job whose recording is still active.
CanCancel(r) == r.stage \notin TERMINAL \cup {"absent", "recording"}

\* Mutant: a cancellation does not start a new generation.
CancelRowSameGeneration(r) ==
  [r EXCEPT !.stage = "cancelled", !.action = IF r.submitted THEN "cancel" ELSE "none"]

CancelRow(r) ==
  [r EXCEPT !.stage = "cancelled", !.gen = @ + 1,
            !.action = IF r.submitted THEN "cancel" ELSE "none"]

\* finish_recording(): the bytes on disk decide "archived", the caller's
\* error decides the stage; the method itself has no guard on the stage.
FinishRecording(r, error, hasBytes) ==
  [r EXCEPT !.stage = IF error THEN "failed" ELSE "queued", !.archived = hasBytes]

\* browser_import_pending(): no guard on the stage either.
BrowserImportPending(r) == [r EXCEPT !.stage = "recording"]
=============================================================================
