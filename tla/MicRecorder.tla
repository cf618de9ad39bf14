---------------------------- MODULE MicRecorder ----------------------------
(***************************************************************************)
(* The microphone dialog (AudioRecorder.tsx).  Its RecordPlugin is created *)
(* a moment after the dialog opens and destroyed when it closes, but the   *)
(* component keeps the reference: until the next one is ready, Start       *)
(* reaches the plugin of an earlier opening.  "new" is the plugin of this  *)
(* opening, "old" one that was destroyed, "late" one that the init() of an *)
(* earlier opening made after its dialog was closed and nobody destroys.   *)
(***************************************************************************)
VARIABLE mic

Plugins == {"old", "new", "late"}
NoPlugin == "none"

\* init: that of this opening, first a timer.  late: one of an earlier opening
\* still waits (two are one).  record: the component's plugin.  starts:
\* startRecording() calls waiting for the microphone.  active: plugins that
\* capture.  ended: plugins whose record-end event is to come.  owed: whose
\* audio is neither stored nor given up by the user.  lost: those a page took
\* with it (until the dialog is used again).  astray: a capture is out of the
\* component's hands: a destroyed plugin was made to capture, by a start before
\* that of this opening was ready; a start waited while the dialog closed; or
\* two plugins waited at once.  What becomes of those is up to the library.
MicTypeOK ==
  mic \in [open: BOOLEAN, init: {"no", "timer", "asking"}, late: BOOLEAN,
           record: Plugins \cup {NoPlugin},
           recording: BOOLEAN, paused: BOOLEAN, uploading: BOOLEAN,
           discard: BOOLEAN, blob: Plugins \cup {NoPlugin},
           starts: SUBSET Plugins, active: SUBSET Plugins,
           ended: SUBSET Plugins, owed: SUBSET Plugins, lost: SUBSET Plugins,
           astray: BOOLEAN]

MicFresh ==
  [open |-> FALSE, init |-> "no", late |-> FALSE, record |-> NoPlugin,
   recording |-> FALSE, paused |-> FALSE, uploading |-> FALSE,
   discard |-> FALSE, blob |-> NoPlugin, starts |-> {}, active |-> {},
   ended |-> {}, owed |-> {}, lost |-> {}, astray |-> FALSE]

MicInit == mic = MicFresh

----------------------------------------------------------------------------
OffersStart ==
  mic.open /\ ~mic.recording /\ mic.blob = NoPlugin /\ mic.record # NoPlugin
OffersStop == mic.open /\ mic.recording /\ mic.record # NoPlugin
OffersUpload == mic.open /\ mic.blob # NoPlugin /\ ~mic.uploading

AgedOne(plugin) == IF plugin = "new" THEN "old" ELSE plugin
Aged(plugins) == {AgedOne(p) : p \in plugins}

\* Closing clears the timer of init(), or leaves an init() that already asks
\* for the microphone to go on; it destroys the plugin of this opening, which
\* ends its capture.  Calls that wait for the microphone go on as well.
MicClosed(d) ==
  [d EXCEPT !.open = FALSE, !.init = "no", !.late = @ \/ d.init = "asking",
            !.record = AgedOne(@), !.starts = Aged(@),
            !.active = @ \ {"new"}, !.ended = Aged(@),
            !.astray = @ \/ d.starts # {}]

MicOpen ==
  /\ ~mic.open
  /\ mic' = [mic EXCEPT !.open = TRUE, !.init = "timer",
                        !.owed = @ \ mic.lost, !.lost = {}]

\* 100 ms later init() asks for the permission.
MicAsks == mic.init = "timer" /\ mic' = [mic EXCEPT !.init = "asking"]

\* With the permission the plugin is there; a refusal leaves the reference as
\* it was.  A record-end event already queued comes before.
MicPrepared(ok) ==
  /\ mic.init = "asking" /\ mic.ended = {}
  /\ mic' = [mic EXCEPT !.init = "no", !.record = IF ok THEN "new" ELSE @]

\* The init() of an opening that was closed meanwhile: the container it finds
\* is that of the next opening or of a dialog that fades out; without one it
\* gives up, as after a refusal.  (A bound: the plugin it makes is not used
\* together with an earlier such plugin.)
MicPreparedLate(ok) ==
  /\ mic.late /\ mic.ended = {}
  /\ ok => "late" \notin mic.starts \cup mic.active \cup mic.owed
  /\ mic' = [mic EXCEPT !.late = FALSE, !.record = IF ok THEN "late" ELSE @]

MicStart ==
  /\ OffersStart
  /\ mic' = [mic EXCEPT !.discard = FALSE, !.starts = @ \cup {mic.record},
                        !.astray = @ \/ mic.starts \ {mic.record} # {}]

\* The browser answers requests for one microphone in their order, and after
\* the event of a recorder that was already stopped.
MicStarted(p, ok) ==
  /\ p \in mic.starts /\ (p = "new" => "old" \notin mic.starts)
  /\ mic.ended = {}
  /\ mic' = IF ok THEN [mic EXCEPT !.starts = @ \ {p}, !.active = @ \cup {p},
                                   !.recording = TRUE, !.paused = FALSE,
                                   !.blob = NoPlugin,
                                   !.owed = @ \cup {p},
                                   !.astray = @ \/ p = "old"]
                  ELSE [mic EXCEPT !.starts = @ \ {p}]

\* Stopping a plugin that does not record does nothing.
Stopping(d) ==
  IF d.record \in d.active
  THEN [d EXCEPT !.active = @ \ {d.record}, !.ended = @ \cup {d.record}]
  ELSE d

MicStop == OffersStop /\ mic' = Stopping(mic)

MicPause ==
  /\ OffersStop
  /\ mic' = [mic EXCEPT !.paused = ~@]

\* The plugin's record-end event.
RecordEnd(p) ==
  /\ p \in mic.ended
  /\ mic' = [mic EXCEPT !.ended = @ \ {p}, !.recording = FALSE, !.paused = FALSE,
                        !.blob = IF mic.discard THEN @ ELSE p]

MicUpload == OffersUpload /\ mic' = [mic EXCEPT !.uploading = TRUE]

MicUploadAnswered(ok) ==
  /\ mic.uploading
  /\ mic' = IF ok THEN MicClosed([mic EXCEPT !.uploading = FALSE,
                                             !.blob = NoPlugin,
                                             !.owed = @ \ {mic.blob}])
                  ELSE [mic EXCEPT !.uploading = FALSE]

\* handleClose() once the user agreed to discard what there is.
MicClose ==
  /\ mic.open /\ ~mic.uploading
  /\ LET asked == mic.recording \/ mic.blob # NoPlugin
         d == IF mic.recording THEN Stopping(mic) ELSE mic
     IN  mic' = MicClosed([d EXCEPT !.discard = TRUE, !.blob = NoPlugin,
                                    !.recording = FALSE, !.paused = FALSE,
                                    !.owed = IF asked THEN {} ELSE @])

\* The page is left, whatever it records or shows: a start that waits for the
\* microphone is astray, the rest finds neither component nor container.
MicUnmounted ==
  [MicFresh EXCEPT !.owed = mic.owed, !.lost = mic.owed,
                   !.astray = mic.astray \/ mic.starts # {}]

MicNext ==
  \/ MicAsks \/ MicStart \/ MicStop \/ MicPause \/ MicClose
  \/ \E ok \in BOOLEAN :
       \/ MicPrepared(ok) \/ MicPreparedLate(ok)
       \/ \E p \in mic.starts : MicStarted(p, ok)
  \/ \E p \in mic.ended : RecordEnd(p)

----------------------------------------------------------------------------
\* Audio from the microphone stays in its plugin, in the event that ends it
\* or in the dialog until it is stored or the user agreed to discard it, as
\* long as no capture is astray; only a page that is left takes it along.
MicRecordingKept ==
  ~mic.astray =>
    \A p \in mic.owed \ mic.lost :
      p \in mic.active \/ p \in mic.ended \/ p = mic.blob
=============================================================================
