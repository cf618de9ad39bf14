---------------------------- MODULE QuickDialog ----------------------------
(***************************************************************************)
(* Two more dialogs that add audio: the quick transcription, which submits *)
(* a file and polls its job (QuickTranscriptionDialog.tsx), and the        *)
(* download from YouTube (YouTubeDownloadDialog.tsx).  Both leave a        *)
(* request or a timer running when they are closed.                        *)
(***************************************************************************)
EXTENDS Naturals, FiniteSets

CONSTANTS Sources       \* audio files the user may choose

VARIABLES quick, tube

MaxFailures == 2        \* the code's five, in the model two
NoFile == "none"
JobStates == {"pending", "completed", "failed"}
NoQuickJob == [of |-> NoFile, status |-> "failed"]
QuickJobs == [of: Sources, status: JobStates]

\* job: the server's job with the file it was submitted for.  sending: the
\* submissions without an answer.  failures: of the polling effect under way.
\* crossed: the dialog was left while a submission had no
\* answer, or went back from a failed result: it may know an earlier job.
QuickTypeOK ==
  quick \in [open: BOOLEAN, step: {"upload", "profile", "processing", "result"},
             file: Sources \cup {NoFile}, job: QuickJobs \cup {NoQuickJob},
             sending: SUBSET Sources, failures: 0..MaxFailures, crossed: BOOLEAN]

QuickFresh ==
  [open |-> FALSE, step |-> "upload", file |-> NoFile, job |-> NoQuickJob,
   sending |-> {}, failures |-> 0, crossed |-> FALSE]

QuickInit == quick = QuickFresh

\* What the dialog shows in each step.
QuickUploadScreen == quick.open /\ quick.step = "upload"
QuickProfileScreen == quick.open /\ quick.step = "profile"
QuickFailedScreen ==
  quick.open /\ quick.step = "result" /\ quick.job.status # "completed"

QuickOpen == ~quick.open /\ quick' = [quick EXCEPT !.open = TRUE]

QuickChooseFile ==
  /\ QuickUploadScreen
  /\ \E f \in Sources : quick' = [quick EXCEPT !.file = f, !.step = "profile"]

\* handleSubmit(): the job of an earlier submission stays in the state.  (A
\* bound: the same file is not submitted while its submission is unanswered.)
QuickSubmit ==
  /\ QuickProfileScreen /\ quick.file # NoFile
  /\ quick.file \notin quick.sending
  /\ quick' = [quick EXCEPT !.step = "processing", !.failures = 0,
                            !.sending = @ \cup {quick.file}]

\* The answer to a submission, whatever the dialog shows by now.  A new job
\* id starts the polling effect anew.
QuickSubmitted(f) ==
  /\ f \in quick.sending
  /\ quick' = [quick EXCEPT !.sending = @ \ {f}, !.failures = 0,
                            !.job = [of |-> f, status |-> "pending"]]

QuickSubmitFailed(f) ==
  /\ f \in quick.sending
  /\ quick' = [quick EXCEPT !.sending = @ \ {f}, !.step = "profile"]

Polls == quick.open /\ quick.step = "processing" /\ quick.job # NoQuickJob

Failed(q) == [q EXCEPT !.job = NoQuickJob, !.step = "profile", !.failures = 0]

\* A job that ended keeps its outcome on the server until it expires.
QuickPolled(status) ==
  /\ Polls
  /\ quick.job.status = "pending" \/ status = quick.job.status
  /\ quick' = [quick EXCEPT !.failures = 0, !.job.status = status,
                            !.step = IF status = "pending" THEN @ ELSE "result"]

\* 404, 410 or an hour without result; or a poll that failed, five in a row.
QuickExpired == Polls /\ quick' = Failed(quick)

QuickPollFailed ==
  /\ Polls
  /\ quick' = IF quick.failures + 1 = MaxFailures THEN Failed(quick)
              ELSE [quick EXCEPT !.failures = @ + 1]

\* "Try Again" goes back to choosing a file with the failed job still there.
QuickTryAgain ==
  /\ QuickFailedScreen
  /\ quick' = [quick EXCEPT !.step = "upload", !.crossed = TRUE]

QuickCloseKeepsJob ==
  /\ quick.open
  /\ quick' = [quick EXCEPT !.open = FALSE, !.step = "upload", !.file = NoFile,
                            !.failures = 0, !.crossed = @ \/ quick.sending # {}]

QuickClose ==
  /\ quick.open
  /\ quick' = [quick EXCEPT !.open = FALSE, !.step = "upload", !.file = NoFile,
                            !.job = NoQuickJob, !.failures = 0,
                            !.crossed = @ \/ quick.sending # {}]

QuickNext ==
  \/ QuickChooseFile \/ QuickSubmit \/ QuickExpired
  \/ QuickPollFailed \/ QuickTryAgain \/ QuickClose
  \/ \E f \in quick.sending : QuickSubmitted(f) \/ QuickSubmitFailed(f)
  \/ \E status \in JobStates : QuickPolled(status)

\* What the result step shows is the outcome of the file that is selected,
\* and a dialog that polls still has the file to retry with, as its messages
\* promise: unless the user left a submission unanswered or retried after a
\* failed result.
QuickResultIsForFile ==
  ~quick.crossed =>
    /\ quick.step = "processing" => quick.file # NoFile
    /\ quick.step = "result" => quick.job.of = quick.file
    /\ Polls => quick.job.of = quick.file

----------------------------------------------------------------------------
\* busy: the mutation is pending; closing: timers that will close the dialog.
TubeTypeOK ==
  tube \in [open: BOOLEAN, url: {"none", "bad", "good"}, busy: BOOLEAN,
            error: BOOLEAN, success: BOOLEAN, closing: BOOLEAN]

TubeFresh ==
  [open |-> FALSE, url |-> "none", busy |-> FALSE, error |-> FALSE,
   success |-> FALSE, closing |-> FALSE]

TubeInit == tube = TubeFresh

TubeOpen == ~tube.open /\ tube' = [tube EXCEPT !.open = TRUE]

TubeForm == tube.open /\ ~tube.success /\ ~tube.busy

TubeType ==
  TubeForm /\ \E url \in {"none", "bad", "good"} : tube' = [tube EXCEPT !.url = url]

TubeSubmit ==
  /\ TubeForm /\ tube.url # "none"
  /\ tube' = IF tube.url = "good" THEN [tube EXCEPT !.busy = TRUE, !.error = FALSE]
                                  ELSE [tube EXCEPT !.error = TRUE]

TubeAnswered(ok) ==
  /\ tube.busy
  /\ tube' = [tube EXCEPT !.busy = FALSE, !.error = IF ok THEN @ ELSE TRUE,
                          !.success = @ \/ ok, !.closing = @ \/ ok]

\* Cancel is disabled while it downloads, Escape and the backdrop are not;
\* the address survives, so that it can be submitted a second time.
TubeClosed == [tube EXCEPT !.open = FALSE, !.error = FALSE, !.success = FALSE]
TubeClose == tube.open /\ tube' = TubeClosed

\* Two seconds after a success, in whatever dialog is open by then.
TubeTimer == tube.closing /\ tube' = [TubeClosed EXCEPT !.closing = FALSE]

TubeNext ==
  \/ TubeType \/ TubeSubmit \/ TubeClose \/ TubeTimer
  \/ \E ok \in BOOLEAN : TubeAnswered(ok)
=============================================================================
