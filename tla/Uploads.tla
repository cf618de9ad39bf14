------------------------------ MODULE Uploads ------------------------------
(***************************************************************************)
(* The upload provider of the web client (GlobalUploadContext.tsx): it     *)
(* outlives the pages, sends the files of a batch one after the other and  *)
(* shows their progress on the dashboard or in toasts elsewhere.  Nothing  *)
(* keeps two batches apart: they share isUploading and the progress list.  *)
(* With it the ways to add files: the pickers of the header, dropping them *)
(* on the dashboard, and the dialog for multi-track projects.              *)
(***************************************************************************)
EXTENDS Naturals, Sequences, FiniteSets

CONSTANT Batches        \* calls of handleFileSelect under way at one time

ASSUME UploadsAssumption == IsFiniteSet(Batches)

VARIABLE up

\* A file is known by what isAudioFile, isVideoFile and isAupFile say of it;
\* "webm" is one that counts as audio by its type and as video by its name.
Kinds == {"audio", "video", "webm", "aup", "other"}
IsAudioFile(f) == f \in {"audio", "webm"}
IsVideoFile(f) == f \in {"video", "webm"}
IsAupFile(f) == f = "aup"
AudioOf(files) == {f \in files : IsAudioFile(f)}
VideoOf(files) == {f \in files : IsVideoFile(f)}

ValidMultiTrack(files) ==
  AudioOf(files) # {} /\ \E f \in files : IsAupFile(f)

\* groupFiles() then hasValidFiles(): what a dropped selection is taken for.
Grouped(files) ==
  IF \E f \in files : IsAupFile(f) THEN [type |-> "multitrack", files |-> AudioOf(files)]
  ELSE IF VideoOf(files) # {} THEN [type |-> "video", files |-> VideoOf(files)]
  ELSE [type |-> "single", files |-> AudioOf(files)]

ValidGroup(files) ==
  IF Grouped(files).type = "multitrack" THEN ValidMultiTrack(files)
  ELSE Grouped(files).files # {}

MaxFiles == 2
Selections == {files \in SUBSET Kinds : Cardinality(files) <= MaxFiles}
Senders == {"user", "sys", "mic", "multitrack"}
Statuses == {"uploading", "success", "error"}

\* batches: running calls, each with the number of files sent (at), stored
\* (ok) and in all (n), and the isOnDashboard it was called with.  hides:
\* timers that will clear the progress.  tracksOpen, filled: the multi-track
\* dialog, and that it has a title, its audio files and its project file.
UpTypeOK ==
  /\ up \in [dashboard: BOOLEAN, uploading: BOOLEAN, progress: Seq(Statuses),
             hides: 0..Cardinality(Batches), tracksOpen: BOOLEAN,
             filled: BOOLEAN,
             batches: SUBSET [id: Batches, from: Senders, n: 1..MaxFiles,
                              at: 0..MaxFiles, ok: 0..MaxFiles, dash: BOOLEAN]]

UpFresh ==
  [dashboard |-> TRUE, uploading |-> FALSE, progress |-> <<>>, hides |-> 0,
   tracksOpen |-> FALSE, filled |-> FALSE, batches |-> {}]

UpInit == up = UpFresh

FreeIds == Batches \ {b.id : b \in up.batches}

\* handleFileSelect() and handleMultiTrackUpload() up to their first request.
Started(u, from, n) ==
  LET id == CHOOSE i \in FreeIds : TRUE
      batch == [id |-> id, from |-> from, n |-> n, at |-> 0, ok |-> 0,
                dash |-> u.dashboard]
  IN  [u EXCEPT !.batches = @ \cup {batch}, !.uploading = TRUE,
                !.progress = IF u.dashboard THEN [i \in 1..n |-> "uploading"] ELSE @]

CanSend == FreeIds # {} /\ up.hides + Cardinality(up.batches) < Cardinality(Batches)

Send(from, n) == CanSend /\ up' = Started(up, from, n)

\* The header's "Upload Files" and "Upload Videos".
PickAudio(files) ==
  /\ VideoOf(files) = {} /\ AudioOf(files) # {}
  /\ Send("user", Cardinality(AudioOf(files)))

PickVideo(files) ==
  LET videos == {f \in files : f = "video"}
  IN  videos # {} /\ Send("user", Cardinality(videos))

OpenTracks(u) == [u EXCEPT !.tracksOpen = TRUE]

\* Dropping files on the dashboard: a project only opens the empty dialog.
Drop(files) ==
  /\ up.dashboard /\ ValidGroup(files)
  /\ IF Grouped(files).type = "multitrack"
     THEN up' = OpenTracks(up)
     ELSE Send("user", Cardinality(Grouped(files).files))

ClickMultiTrack == up' = OpenTracks(up)

\* What the provider shows besides the page: the multi-track form, and on the
\* dashboard the progress list.
TracksForm == up.tracksOpen
ShownProgress == IF up.dashboard THEN up.progress ELSE <<>>

\* The multi-track dialog: choosing and removing files, giving a title.
EditTracks ==
  /\ TracksForm
  /\ \E filled \in BOOLEAN : up' = [up EXCEPT !.filled = filled]

CanUploadTracks == up.filled

UploadTracks ==
  /\ TracksForm /\ CanUploadTracks
  /\ Send("multitrack", 1)

TracksClosed(u) == [u EXCEPT !.tracksOpen = FALSE, !.filled = FALSE]
CloseTracks == TracksForm /\ up' = TracksClosed(up)

\* One request was answered: the list may be that of another batch by now.
Shown(b, ok) ==
  IF b.from = "multitrack" THEN <<IF ok THEN "success" ELSE "error">>
  ELSE [i \in DOMAIN up.progress |->
          IF i = b.at + 1 THEN (IF ok THEN "success" ELSE "error") ELSE up.progress[i]]

\* The end of a batch; for a multi-track upload the dialog is closed with it,
\* stored or not.
Ended(u, b) ==
  LET v == [u EXCEPT !.uploading = FALSE, !.batches = @ \ {b},
                     !.hides = IF b.dash /\ b.ok = b.n THEN @ + 1 ELSE @]
  IN  IF b.from = "multitrack" THEN TracksClosed(v) ELSE v

FileAnswered(b, ok) ==
  LET after == [b EXCEPT !.at = @ + 1, !.ok = IF ok THEN @ + 1 ELSE @]
      shown == [up EXCEPT !.progress = IF b.dash THEN Shown(b, ok) ELSE @,
                          !.batches = (@ \ {b}) \cup {after}]
  IN  up' = IF after.at = b.n THEN Ended(shown, after) ELSE shown

HideProgressTwice == up' = [up EXCEPT !.hides = @ - 1, !.progress = <<>>]

\* The three seconds after a batch that was stored in full.
HideProgress ==
  /\ up.hides > 0
  /\ up' = [up EXCEPT !.hides = @ - 1, !.progress = <<>>]

=============================================================================
