----------------------------- MODULE AddAudio ------------------------------
(***************************************************************************)
(* The "Add audio" menu of the header (Header.tsx): its dialogs are modal, *)
(* one at a time, and share the upload provider.  A recorder's upload is a *)
(* batch of that provider whose end resolves or rejects the recorder's     *)
(* await.  The header belongs to a page: leaving the page unmounts it with *)
(* its dialogs, open or not, while requests under way go on.               *)
(***************************************************************************)
EXTENDS SystemRecorder, MicRecorder, Uploads, QuickDialog

addVars == <<sys, mic, up, quick, tube>>

Modal == sys.open \/ mic.open \/ quick.open \/ tube.open \/ up.tracksOpen

AddInit == SysInit /\ MicInit /\ UpInit /\ QuickInit /\ TubeInit

\* A bound: a dialog is opened when those of the other kinds are as the page
\* brought them.  The recorders meet in the uploads, which go on; the other
\* two have no part in those and are used while nothing is uploaded, as is the
\* microphone's when it has been used before.
Apart == quick = QuickFresh /\ tube = TubeFresh
NoUploads == up = [UpFresh EXCEPT !.dashboard = up.dashboard]
Unused(kind) ==
  /\ kind = "sys" \/ sys = SysFresh(sys.supported)
  /\ kind = "mic" \/ mic = MicFresh
  /\ kind = "quick" \/ quick = QuickFresh
  /\ kind = "tube" \/ tube = TubeFresh

OpenDialog ==
  /\ ~Modal
  /\ \/ Unused("sys") /\ SysOpen /\ UNCHANGED <<mic, up, quick, tube>>
     \/ /\ Unused("mic") /\ (mic = MicFresh \/ NoUploads)
        /\ MicOpen /\ UNCHANGED <<sys, up, quick, tube>>
     \/ Unused("quick") /\ NoUploads /\ QuickOpen /\ UNCHANGED <<sys, mic, up, tube>>
     \/ Unused("tube") /\ NoUploads /\ TubeOpen /\ UNCHANGED <<sys, mic, up, quick>>
     \/ Apart /\ ClickMultiTrack /\ UNCHANGED <<sys, mic, quick, tube>>

AddFiles ==
  /\ ~Modal /\ Apart
  /\ \E files \in Selections : PickAudio(files) \/ PickVideo(files) \/ Drop(files)
  /\ UNCHANGED <<sys, mic, quick, tube>>

TracksDialog ==
  (EditTracks \/ UploadTracks \/ CloseTracks) /\ UNCHANGED <<sys, mic, quick, tube>>

SystemDialog == SysNext /\ UNCHANGED <<mic, up, quick, tube>>
MicDialog == MicNext /\ UNCHANGED <<sys, up, quick, tube>>
QuickStep == QuickNext /\ UNCHANGED <<sys, mic, up, tube>>
TubeStep == TubeNext /\ UNCHANGED <<sys, mic, up, quick>>

\* handleUpload() of a recorder hands the blob to handleFileSelect().
UploadRecording ==
  /\ \/ SysUpload /\ Send("sys", 1) /\ UNCHANGED mic
     \/ MicUpload /\ Send("mic", 1) /\ UNCHANGED sys
  /\ UNCHANGED <<quick, tube>>

\* An answer of the server; the last of a recording settles the recorder.
AnswerUpload ==
  \E b \in up.batches, ok \in BOOLEAN :
    /\ FileAnswered(b, ok)
    /\ IF b.from = "sys" /\ sys.uploading THEN SysUploadAnswered(ok) ELSE UNCHANGED sys
    /\ IF b.from = "mic" /\ mic.uploading THEN MicUploadAnswered(ok) ELSE UNCHANGED mic
    /\ UNCHANGED <<quick, tube>>

ProgressTimer == HideProgress /\ UNCHANGED <<sys, mic, quick, tube>>

\* Another page, by a link or by the browser's Back, which no dialog holds up.
\* Nobody waits any longer for the uploads of this page's recorders.
Unheard(b) == [b EXCEPT !.from = IF @ \in {"sys", "mic"} THEN "user" ELSE @]

HeaderUnmounts ==
  /\ sys' = SysUnmounted /\ mic' = MicUnmounted
  /\ quick' = QuickFresh /\ tube' = TubeFresh

Navigate ==
  /\ HeaderUnmounts
  /\ \E dashboard \in BOOLEAN :
       /\ up.dashboard => ~dashboard
       /\ up' = [up EXCEPT !.dashboard = dashboard,
                            !.batches = {Unheard(b) : b \in @}]

\* The session expires or is ended: the provider is unmounted with the page,
\* and the next login mounts both again, at "/".
SessionEnds == HeaderUnmounts /\ up' = UpFresh

AddNext ==
  \/ OpenDialog \/ AddFiles \/ TracksDialog \/ SystemDialog \/ MicDialog
  \/ QuickStep \/ TubeStep \/ UploadRecording \/ AnswerUpload
  \/ ProgressTimer \/ Navigate \/ SessionEnds

AddSpec == AddInit /\ [][AddNext]_addVars

----------------------------------------------------------------------------
AddType == SysTypeOK /\ MicTypeOK /\ UpTypeOK /\ QuickTypeOK /\ TubeTypeOK

\* "Recorder blobs remain available for retry/download; discarding active
\* audio requires confirmation" (R006), for both recorders, except that a page
\* which is left takes its audio with it, unasked.
RecordingKept == SysRecordingKept /\ MicRecordingKept
=============================================================================
