----------------------------- MODULE ReviewSync -----------------------------
(***************************************************************************)
(* Human review of one completed report.  The worker owns the revisions    *)
(* (mac-worker review.py save_review, main.py review/get_result/get_export)*)
(* and the station caches one of them with its files (station main.py      *)
(* review, worker.py archive_result, store.py complete).  The exchange     *)
(* between them may be lost or overtaken and both may restart; a reviewer  *)
(* whose answer is uncertain saves again under the same request ID.        *)
(*                                                                         *)
(* A revision is identified by the sequence of requests that made it, its  *)
(* review_history; its number is the length of that sequence.              *)
(***************************************************************************)
EXTENDS Naturals, Sequences, FiniteSets, SequencesExt

CONSTANTS Saves,      \* review request IDs, each one set of changes
          Formats     \* documents rendered for every revision

ASSUME SavesAssumption == IsFiniteSet(Saves)

VARIABLES
  published,   \* worker: the revision its result pointer names
  bundles,     \* worker: revisions whose result and documents are whole on disk
  saving,      \* worker: save_review() under review_lock
  inbox,       \* review requests on their way to the worker or waiting there
  reply,       \* the worker's answer to the station's current request
  handler,     \* station: review() under its review_lock
  cache,       \* station: the revision in the result column of the row
  shelf,       \* station: which revision each archived document belongs to
  save         \* each reviewer's save: its expected_revision and its outcome

workerVars  == <<published, bundles, saving>>
stationVars == <<handler, cache, shelf>>
vars == <<workerVars, inbox, reply, stationVars, save>>

Revision(history) == Len(history)
Reviews(history)  == ToSet(history)

\* Revisions that can exist: no request is applied twice (see OnTopOfSeen).
Histories == UNION {[1 .. n -> Saves] : n \in 0 .. Cardinality(Saves)}
Numbers   == 0 .. Cardinality(Saves)

NoSaving  == [at |-> "none"]
NoReply   == [kind |-> "none"]
NoHandler == [at |-> "idle"]

\* "posting"   : the review is at the worker
\* "fetching"  : the worker said 409, its current result is being fetched
\* "archiving" : the documents of a result are being downloaded
Handlers ==
  {NoHandler}
    \cup [at : {"posting", "fetching"}, request : Saves]
    \cup [at : {"archiving"}, request : Saves, result : Histories,
          done : SUBSET Formats, conflict : BOOLEAN]

\* A request knows whether the station still waits for its answer.
Letters == [request : Saves, awaited : BOOLEAN]
Savings == {NoSaving}
             \cup [at : {"writing", "written"}, letter : Letters, base : Histories]
Replies == {NoReply} \cup [kind : {"ok"}, result : Histories] \cup [kind : {"409", "503"}]

Outcomes == {"new", "waiting", "acknowledged", "conflict", "uncertain"}

TypeOK ==
  /\ published \in Histories
  /\ bundles \subseteq Histories
  /\ saving \in Savings
  /\ inbox \subseteq Letters
  /\ reply \in Replies
  /\ handler \in Handlers
  /\ cache \in Histories
  /\ shelf \in [Numbers \X Formats -> SUBSET Histories]
  /\ save \in [Saves -> [expected : Numbers, outcome : Outcomes]]

\* The first report is published, delivered and archived (module JobDelivery).
Init ==
  /\ published = <<>>
  /\ bundles = {<<>>}
  /\ saving = NoSaving
  /\ inbox = {}
  /\ reply = NoReply
  /\ handler = NoHandler
  /\ cache = <<>>
  /\ shelf = [s \in Numbers \X Formats |-> IF s[1] = 0 THEN {<<>>} ELSE {}]
  /\ save = [c \in Saves |-> [expected |-> 0, outcome |-> "new"]]

-----------------------------------------------------------------------------
(* The reviewers' page. *)

\* A reviewer saves changes to a revision loaded at some earlier time.
Save(c) ==
  /\ save[c].outcome = "new"
  /\ \E seen \in 0 .. Revision(cache) :
       save' = [save EXCEPT ![c] = [expected |-> seen, outcome |-> "waiting"]]
  /\ UNCHANGED <<workerVars, inbox, reply, stationVars>>

\* An uncertain save is sent again unchanged, with the same request ID.
SaveAgain(c) ==
  /\ save[c].outcome = "uncertain"
  /\ save' = [save EXCEPT ![c].outcome = "waiting"]
  /\ UNCHANGED <<workerVars, inbox, reply, stationVars>>

-----------------------------------------------------------------------------
(* The worker. *)

Answer(letter, answer) == reply' = IF letter.awaited THEN answer ELSE reply

\* Mutant: every request starts a new revision, known or stale.
BeginReviewUnchecked(letter) ==
  /\ saving = NoSaving
  /\ letter \in inbox
  /\ inbox' = inbox \ {letter}
  /\ saving' = [at |-> "writing", letter |-> letter, base |-> published]
  /\ UNCHANGED <<published, bundles, reply, stationVars, save>>

\* save_review() up to apply_review(): a known request gets the current
\* report, a stale one a conflict, and the others start a new revision.
BeginReview(letter) ==
  /\ saving = NoSaving
  /\ letter \in inbox
  /\ inbox' = inbox \ {letter}
  /\ IF letter.request \in Reviews(published)
     THEN Answer(letter, [kind |-> "ok", result |-> published]) /\ UNCHANGED saving
     ELSE IF save[letter.request].expected # Revision(published)
     THEN Answer(letter, [kind |-> "409"]) /\ UNCHANGED saving
     ELSE /\ saving' = [at |-> "writing", letter |-> letter, base |-> published]
          /\ UNCHANGED reply
  /\ UNCHANGED <<published, bundles, stationVars, save>>

NewRevision == Append(saving.base, saving.letter.request)

\* Mutant: the pointer may move before anything is written.
WriteBundleSkipped ==
  /\ saving.at = "writing"
  /\ saving' = [saving EXCEPT !.at = "written"]
  /\ UNCHANGED <<published, bundles, inbox, reply, stationVars, save>>

\* Mutant: the reviewer is answered before the database update.
WriteBundleAnswers ==
  /\ saving.at = "writing"
  /\ bundles' = bundles \cup {NewRevision}
  /\ saving' = [saving EXCEPT !.at = "written", !.letter.awaited = FALSE]
  /\ Answer(saving.letter, [kind |-> "ok", result |-> NewRevision])
  /\ UNCHANGED <<published, inbox, stationVars, save>>

\* Documents and result are written, synced and renamed into place.
WriteBundle ==
  /\ saving.at = "writing"
  /\ bundles' = bundles \cup {NewRevision}
  /\ saving' = [saving EXCEPT !.at = "written"]
  /\ UNCHANGED <<published, inbox, reply, stationVars, save>>

\* The result pointer moves with one database update.
Publish ==
  /\ saving.at = "written"
  /\ published' = NewRevision
  /\ Answer(saving.letter, [kind |-> "ok", result |-> NewRevision])
  /\ saving' = NoSaving
  /\ UNCHANGED <<bundles, inbox, stationVars, save>>

\* Any failure before the update removes the unpublished files.
FailReview ==
  /\ saving.at \in {"writing", "written"}
  /\ bundles' = bundles \ {NewRevision}
  /\ Answer(saving.letter, [kind |-> "503"])
  /\ saving' = NoSaving
  /\ UNCHANGED <<published, inbox, stationVars, save>>

-----------------------------------------------------------------------------
(* The station's review handler. *)

Outcome(c, outcome) == save' = [save EXCEPT ![c].outcome = outcome]

StartReview(c) ==
  /\ handler = NoHandler
  /\ save[c].outcome = "waiting"
  /\ handler' = [at |-> "posting", request |-> c]
  /\ inbox' = inbox \cup {[request |-> c, awaited |-> TRUE]}
  /\ UNCHANGED <<workerVars, reply, cache, shelf, save>>

Archiving(c, result, conflict) ==
  [at |-> "archiving", request |-> c, result |-> result, done |-> {}, conflict |-> conflict]

ReceiveReview ==
  /\ reply.kind = "ok"
  /\ handler' = Archiving(handler.request, reply.result, FALSE)
  /\ reply' = NoReply
  /\ UNCHANGED <<workerVars, inbox, cache, shelf, save>>

ReceiveConflict ==
  /\ reply.kind = "409"
  /\ handler' = [at |-> "fetching", request |-> handler.request]
  /\ reply' = NoReply
  /\ UNCHANGED <<workerVars, inbox, cache, shelf, save>>

\* The reviewer gets 503 and keeps the request ID.
ReceiveFailure ==
  /\ reply.kind = "503"
  /\ Outcome(handler.request, "uncertain")
  /\ handler' = NoHandler
  /\ reply' = NoReply
  /\ UNCHANGED <<workerVars, inbox, cache, shelf>>

\* After a conflict: the current result, so that a reload shows it.
FetchCurrent ==
  /\ handler.at = "fetching"
  /\ handler' = Archiving(handler.request, published, TRUE)
  /\ UNCHANGED <<workerVars, inbox, reply, cache, shelf, save>>

\* Mutant: exports are downloaded without naming their revision.
DownloadExportAnyRevision(f) ==
  /\ handler.at = "archiving"
  /\ f \in Formats \ handler.done
  /\ shelf' = [shelf EXCEPT ![<<Revision(handler.result), f>>] = {published}]
  /\ handler' = [handler EXCEPT !.done = @ \cup {f}]
  /\ UNCHANGED <<workerVars, inbox, reply, cache, save>>

\* get_export() serves the current revision, and only under its own number.
DownloadExport(f) ==
  /\ handler.at = "archiving"
  /\ f \in Formats \ handler.done
  /\ Revision(published) = Revision(handler.result)
  /\ shelf' = [shelf EXCEPT ![<<Revision(handler.result), f>>] = {published}]
  /\ handler' = [handler EXCEPT !.done = @ \cup {f}]
  /\ UNCHANGED <<workerVars, inbox, reply, cache, save>>

\* Mutant: a second 409, while the report is refreshed, is not handled.
ExportMovedOnce ==
  /\ handler.at = "archiving"
  /\ handler.done # Formats /\ ~handler.conflict
  /\ Revision(published) # Revision(handler.result)
  /\ handler' = [at |-> "fetching", request |-> handler.request]
  /\ UNCHANGED <<workerVars, inbox, reply, cache, shelf, save>>

\* The worker moved on meanwhile: 409 from get_export().  The first time the
\* handler takes it for a conflict of the save, the second time it is ignored.
ExportMoved ==
  /\ handler.at = "archiving"
  /\ handler.done # Formats
  /\ Revision(published) # Revision(handler.result)
  /\ IF handler.conflict
     THEN handler' = NoHandler /\ Outcome(handler.request, "conflict")
     ELSE /\ handler' = [at |-> "fetching", request |-> handler.request]
          /\ UNCHANGED save
  /\ UNCHANGED <<workerVars, inbox, reply, cache, shelf>>

\* Mutant: a refreshed conflict is reported as a saved review.
CacheResultAcknowledges ==
  /\ handler.at = "archiving"
  /\ handler.done = Formats
  /\ cache' = handler.result
  /\ Outcome(handler.request, "acknowledged")
  /\ handler' = NoHandler
  /\ UNCHANGED <<workerVars, inbox, reply, shelf>>

\* complete(): an older revision never replaces a newer one in the row.
CacheResult ==
  /\ handler.at = "archiving"
  /\ handler.done = Formats
  /\ cache' = IF Revision(cache) > Revision(handler.result) THEN cache ELSE handler.result
  /\ Outcome(handler.request, IF handler.conflict THEN "conflict" ELSE "acknowledged")
  /\ handler' = NoHandler
  /\ UNCHANGED <<workerVars, inbox, reply, shelf>>

-----------------------------------------------------------------------------
(* Faults. *)

\* The station stops waiting: the request is lost, or answered to nobody.
Disown ==
  /\ inbox' \in {{l \in inbox : ~l.awaited},
                 {[l EXCEPT !.awaited = FALSE] : l \in inbox}}
  /\ saving' = IF saving = NoSaving THEN saving
               ELSE [saving EXCEPT !.letter.awaited = FALSE]
  /\ reply' = NoReply
  /\ UNCHANGED <<published, bundles>>

\* Mutant: whatever goes wrong is reported as a conflict.
GiveUpConflict ==
  /\ handler # NoHandler
  /\ Outcome(handler.request, "conflict")
  /\ handler' = NoHandler
  /\ Disown
  /\ UNCHANGED <<cache, shelf>>

\* Timeout or lost connection.  Once a conflict is known, a failing refresh
\* is suppressed and the reviewer is still told about the conflict.
GiveUp ==
  /\ handler # NoHandler
  /\ Outcome(handler.request,
             IF handler.at = "fetching" \/ (handler.at = "archiving" /\ handler.conflict)
             THEN "conflict" ELSE "uncertain")
  /\ handler' = NoHandler
  /\ Disown
  /\ UNCHANGED <<cache, shelf>>

\* Every reviewer who waits loses the connection.
StationRestart ==
  /\ save' = [c \in Saves |-> IF save[c].outcome = "waiting"
                              THEN [save[c] EXCEPT !.outcome = "uncertain"] ELSE save[c]]
  /\ handler' = NoHandler
  /\ Disown
  /\ UNCHANGED <<cache, shelf>>

\* Requests in the worker are gone; files of an unfinished review stay.
WorkerRestart ==
  /\ saving' = NoSaving
  /\ inbox' = {}
  /\ UNCHANGED <<published, bundles, reply, stationVars, save>>

Fault == FailReview \/ GiveUp \/ StationRestart \/ WorkerRestart

-----------------------------------------------------------------------------
Reviewer == \E c \in Saves : Save(c) \/ SaveAgain(c)

Worker == (\E letter \in inbox : BeginReview(letter)) \/ WriteBundle \/ Publish

Station ==
  \/ \E c \in Saves : StartReview(c)
  \/ ReceiveReview \/ ReceiveConflict \/ ReceiveFailure \/ FetchCurrent
  \/ (\E f \in Formats : DownloadExport(f)) \/ ExportMoved \/ CacheResult

\* Everything but the faults.
Work == Reviewer \/ Worker \/ Station

Next == Work \/ Fault

Spec == Init /\ [][Next]_vars

-----------------------------------------------------------------------------
(* Properties. *)

\* Every published revision was made on top of the one its reviewer had
\* loaded; in particular no save is applied twice, retried or not.
OnTopOfSeen ==
  \A i \in 1 .. Revision(published) : save[published[i]].expected = i - 1

\* "Readers see a complete previous or next revision" (docs/ARCHITECTURE.md):
\* what the result pointer names is whole on disk, at every crash point.
PointerIsWhole == published \in bundles

\* A reviewer told "saved" finds the save in the station's own report.
AcknowledgedIsCached ==
  \A c \in Saves : save[c].outcome = "acknowledged" => c \in Reviews(cache)

\* The cached report is a revision the worker published, never a mixture or
\* one that failed to be published.
CacheIsPublished == IsPrefix(cache, published)

\* The report is whole where it is published, cached and acknowledged.
ReportsAreWhole == PointerIsWhole /\ CacheIsPublished /\ AcknowledgedIsCached

\* "No partially downloaded revision becomes the visible report": every
\* document offered with the cached report belongs to that very revision.
DocumentsMatchReport == \A f \in Formats : shelf[<<Revision(cache), f>>] = {cache}

\* A save is refused as a conflict only when it is not in the report.
ConflictIsReal ==
  \A c \in Saves : save[c].outcome = "conflict" => c \notin Reviews(published)

\* Whatever is lost, repeated or overtaken, and whoever restarts, reviewers see
\* the report of ReviewLog: every save applied once on top of what its reviewer
\* had seen, and refused only when it came too late (save_review(), review()).
Log == INSTANCE ReviewLog WITH log <- published, shown <- cache

ImplementsReviewLog == Log!Spec
=============================================================================
