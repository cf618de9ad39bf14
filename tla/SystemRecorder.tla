--------------------------- MODULE SystemRecorder ---------------------------
(***************************************************************************)
(* The dialog that records a browser tab together with the microphone      *)
(* (SystemAudioRecorder.tsx).  startRecording() awaits two permission      *)
(* prompts; whatever happens in between (closing the dialog, the browser's *)
(* own "Stop sharing") takes the attempt number away from it.  The numbers *)
(* are only compared for equality, so an attempt that is no longer current *)
(* is None here and numbers nobody holds any more are used again.          *)
(***************************************************************************)
CONSTANTS Attempts,     \* numbers of captureAttemptRef held at the same time
          None          \* no attempt, no stream, no recorder, no recording

ASSUME AttemptsAssumption == None \notin Attempts

VARIABLE sys            \* the dialog, its refs and what is in flight for it

Recordings == Attempts \cup {None}
Tracks == Attempts \X {"display", "mic"}
Prompts == [at: Attempts, step: {"display", "mic"}]

\* open..uploading: the component's state.  attempt, display, microphone and
\* recorder: its refs.  calls: invocations of startRecording() at a prompt.
\* live: media tracks nobody stopped.  stops: recorders whose onstop event is
\* still to come.  owed: recordings neither stored nor given up by the user.
\* lost: those of them a page took with it (until the dialog is used again).
SysTypeOK ==
  sys \in [open: BOOLEAN, supported: BOOLEAN, starting: BOOLEAN,
           recording: BOOLEAN, denied: BOOLEAN, uploading: BOOLEAN,
           blob: Recordings, attempt: Recordings, display: Recordings,
           microphone: Recordings, recorder: Recordings,
           calls: SUBSET Prompts, live: SUBSET Tracks,
           stops: SUBSET Attempts, owed: SUBSET Attempts, lost: SUBSET Attempts]

\* supported: what checkCompatibility() says of the browser.
SysFresh(supported) ==
  [open |-> FALSE, supported |-> supported, starting |-> FALSE,
   recording |-> FALSE, denied |-> FALSE, uploading |-> FALSE, blob |-> None,
   attempt |-> None, display |-> None, microphone |-> None, recorder |-> None,
   calls |-> {}, live |-> {}, stops |-> {}, owed |-> {}, lost |-> {}]

SysInit == \E supported \in BOOLEAN : sys = SysFresh(supported)

----------------------------------------------------------------------------
\* What the dialog shows, in the order the component decides it.
UnsupportedScreen == sys.open /\ ~sys.supported
DeniedScreen == sys.open /\ sys.supported /\ sys.denied /\ ~sys.recording
CompleteScreen ==
  sys.open /\ sys.supported /\ ~sys.denied /\ ~sys.recording /\ sys.blob # None
RecordingScreen == sys.open /\ sys.supported /\ sys.recording
ReadyScreen ==
  sys.open /\ sys.supported /\ ~sys.denied /\ ~sys.recording /\ sys.blob = None

Held(d) == {<<d.display, "display">>, <<d.microphone, "mic">>}

CleanupStreams(d) ==
  [d EXCEPT !.live = @ \ Held(d), !.display = None, !.microphone = None,
            !.recorder = None]

StopRecording(d) ==
  CleanupStreams([d EXCEPT !.attempt = None, !.starting = FALSE,
                           !.stops = @ \cup ({d.recorder} \ {None})])

\* The effect on isOpen: a recorder still in its ref is stopped with its
\* handlers detached, so that its onstop never comes.
Detached(d) == CleanupStreams([d EXCEPT !.attempt = None])
SysClosed(d) == StopRecording([Detached(d) EXCEPT !.open = FALSE])

----------------------------------------------------------------------------
SysOpen ==
  /\ ~sys.open
  /\ sys' = [sys EXCEPT !.open = TRUE, !.owed = @ \ sys.lost, !.lost = {}]

InUse == {c.at : c \in sys.calls} \cup sys.stops \cup sys.owed
           \cup {sys.blob, sys.attempt, sys.recorder}

\* startRecording() up to getDisplayMedia, from "Start" or "Try Again".  The
\* onstop of an earlier recorder, a task already queued, precedes the click.
SysStart ==
  /\ ReadyScreen \/ DeniedScreen
  /\ ~sys.starting /\ sys.recorder = None /\ sys.stops = {}
  /\ Attempts \ InUse # {}
  /\ LET at == CHOOSE a \in Attempts \ InUse : TRUE IN
       sys' = [sys EXCEPT !.attempt = at, !.starting = TRUE, !.denied = FALSE,
                          !.calls = @ \cup {[at |-> at, step |-> "display"]}]

CaptureAnswered(c) == [sys EXCEPT !.calls = @ \ {c}]
Current(c) == c.at = sys.attempt

DisplayKept(c) ==
  /\ c.step = "display"
  /\ sys' = [CaptureAnswered(c) EXCEPT
               !.display = c.at, !.live = @ \cup {<<c.at, "display">>},
               !.calls = @ \cup {[c EXCEPT !.step = "mic"]}]

\* The user shares a tab with its sound: a superseded call stops it at once.
DisplayGranted(c) ==
  /\ c.step = "display"
  /\ sys' = IF Current(c)
            THEN [CaptureAnswered(c) EXCEPT
                    !.display = c.at, !.live = @ \cup {<<c.at, "display">>},
                    !.calls = @ \cup {[c EXCEPT !.step = "mic"]}]
            ELSE CaptureAnswered(c)

\* Without sound, refused, or failed: only a refusal shows the denied screen.
DisplayUnusable(c, refused) ==
  /\ c.step = "display"
  /\ sys' = IF Current(c)
            THEN [CleanupStreams(CaptureAnswered(c)) EXCEPT
                    !.denied = refused, !.starting = FALSE]
            ELSE CaptureAnswered(c)

\* The microphone is granted or refused; the capture runs without it.
MicAnswered(c, granted) ==
  /\ c.step = "mic"
  /\ sys' = IF Current(c)
            THEN [CaptureAnswered(c) EXCEPT
                    !.microphone = IF granted THEN c.at ELSE @,
                    !.live = IF granted THEN @ \cup {<<c.at, "mic">>} ELSE @,
                    !.recorder = c.at, !.recording = TRUE, !.blob = None,
                    !.starting = FALSE, !.owed = @ \cup {c.at}]
            ELSE CaptureAnswered(c)

\* Mixing the streams or starting the MediaRecorder throws.
RecorderFails(c) ==
  /\ c.step = "mic"
  /\ sys' = IF Current(c)
            THEN [CleanupStreams(CaptureAnswered(c)) EXCEPT !.starting = FALSE]
            ELSE CaptureAnswered(c)

SysStop == RecordingScreen /\ sys' = StopRecording(sys)

\* "Stop sharing" in the browser's bar ends the display track.
StopSharing ==
  /\ sys.display # None
  /\ sys' = StopRecording([sys EXCEPT !.live = @ \ {<<sys.display, "display">>}])

\* recorder.onstop turns the chunks into the blob.
RecorderStopped(a) ==
  /\ a \in sys.stops
  /\ sys' = [sys EXCEPT !.stops = @ \ {a}, !.blob = a, !.recording = FALSE]

SysUpload ==
  /\ CompleteScreen /\ ~sys.uploading
  /\ sys' = [sys EXCEPT !.uploading = TRUE]

UploadFailureForgets(ok) ==
  /\ sys.uploading
  /\ sys' = SysClosed([sys EXCEPT !.uploading = FALSE, !.blob = None,
                               !.owed = IF ok THEN @ \ {sys.blob} ELSE @])

\* onRecordingComplete() resolved or rejected.
SysUploadAnswered(ok) ==
  /\ sys.uploading
  /\ sys' = IF ok THEN SysClosed([sys EXCEPT !.uploading = FALSE, !.blob = None,
                                          !.owed = @ \ {sys.blob}])
                  ELSE [sys EXCEPT !.uploading = FALSE]

\* handleClose(): with something recorded it asks first, and this is the
\* answer "discard".
SysClose ==
  /\ sys.open /\ sys.supported /\ ~sys.uploading
  /\ sys' = SysClosed(StopRecording(
              [sys EXCEPT !.recorder = None, !.blob = None, !.recording = FALSE,
                          !.denied = FALSE, !.owed = {}]))

SysCloseUnsupported == UnsupportedScreen /\ sys' = SysClosed(sys)

\* The page with the dialog is left, whatever it records or shows: the cleanup
\* detaches and stops, nobody is asked, and what is in flight finds a component
\* that is gone.
SysUnmounted ==
  [Detached(sys) EXCEPT !.open = FALSE, !.starting = FALSE, !.recording = FALSE,
                        !.denied = FALSE, !.uploading = FALSE, !.blob = None,
                        !.stops = {}, !.lost = sys.owed]

SysNext ==
  \/ SysStart \/ SysStop \/ StopSharing
  \/ SysClose \/ SysCloseUnsupported
  \/ \E c \in sys.calls : DisplayGranted(c) \/ RecorderFails(c)
  \/ \E c \in sys.calls, yes \in BOOLEAN :
       DisplayUnusable(c, yes) \/ MicAnswered(c, yes)
  \/ \E a \in sys.stops : RecorderStopped(a)

----------------------------------------------------------------------------
\* Audio that was recorded stays in the recorder, in its onstop event or in
\* the dialog until it is stored or the user agreed to discard it; only a page
\* that is left takes it along.
SysRecordingKept ==
  \A a \in sys.owed \ sys.lost :
    a = sys.recorder \/ a \in sys.stops \/ a = sys.blob

\* Every live track is in a ref that the next cleanup stops, and none is left
\* once the dialog is closed: no capture goes on that the user cannot see.
SysTracksReleased ==
  /\ sys.live \subseteq Held(sys)
  /\ ~sys.open => sys.live = {}
=============================================================================
