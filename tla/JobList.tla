------------------------------- MODULE JobList -------------------------------
(***************************************************************************)
(* The list of recordings of the retained service (AudioFilesTable.tsx):   *)
(* what it shows of the jobs, the events that keep it up to date, the      *)
(* selection and the dialogs that start, stop and delete jobs one at a     *)
(* time or all selected ones in sequence.  The service itself is `server'. *)
(***************************************************************************)
EXTENDS ConfigDialog, ProfileChoice, FiniteSets

CONSTANTS Jobs, MultiJobs, NoJob,
          Filters,        \* what the searches of the runs match: sets of jobs
          MaxBusy         \* bound: starts, deletions and kills under way at one time

ASSUME JobsAssumption ==
  /\ MultiJobs \subseteq Jobs /\ NoJob \notin Jobs
  /\ Jobs \in Filters /\ Filters \subseteq SUBSET Jobs /\ MaxBusy \in Nat

VARIABLES
  server,     \* external: the state of each job
  listed,     \* the rows and their state, [job |-> state]
  list,       \* the list request: asked, what it read, or none
  search,     \* the search that is applied
  sel,        \* rowSelection
  picked,     \* selectedJobId and selectedFile
  dialog,     \* the one dialog that is open
  start,      \* the start of one job under way
  bulk,       \* the bulk operation under way: shown, the rows of the click;
              \* done, what the service accepted
  asked       \* deletions and kills under way

listVars == <<server, listed, list, search, sel, picked, dialog, start,
          bulk, asked, config, choice>>
pageVars == <<search, sel, picked, dialog, start, bulk, asked>>

States == {"idle", "active", "gone"}
Rows(jobs) == [jobs -> {"idle", "active"}]
NoList == [at |-> "none", rows |-> <<>>]
NothingPicked == [job |-> NoJob, file |-> NoJob]
NoStart == [job |-> NoJob, multi |-> FALSE, with |-> "none"]
NoBulk == [kind |-> "none", all |-> {}, left |-> {}, failed |-> {},
           multi |-> FALSE, shown |-> {}, done |-> {}]
Dialogs == {"none", "config", "profile", "bulkDelete", "stop", "delete"}

ListType ==
  /\ server \in [Jobs -> States]
  /\ listed \in UNION {Rows(jobs) : jobs \in SUBSET Jobs}
  /\ list.at \in {"none", "asked", "read"} /\ DOMAIN list.rows \subseteq Jobs
  /\ search \in Filters /\ sel \subseteq Jobs
  /\ picked \in [job: Jobs \cup {NoJob}, file: Jobs \cup {NoJob}]
  /\ dialog \in Dialogs
  /\ start \in [job: Jobs \cup {NoJob}, multi: BOOLEAN, with: {"none", "config", "profile"}]
  /\ bulk \in [kind: {"none", "transcribe", "delete"}, all: SUBSET Jobs,
               left: SUBSET Jobs, failed: SUBSET Jobs, multi: BOOLEAN,
               shown: SUBSET Jobs, done: SUBSET Jobs]
  /\ bulk.failed \subseteq bulk.all \ bulk.left
  /\ asked \in [delete: SUBSET Jobs, kill: SUBSET Jobs]
  /\ config \in ConfigType /\ choice \in ChoiceType

ListInit ==
  /\ server = [j \in Jobs |-> "idle"]
  /\ listed = <<>> /\ list = [NoList EXCEPT !.at = "asked"]
  /\ search = Jobs
  /\ sel = {} /\ picked = NothingPicked
  /\ dialog = "none"
  /\ start = NoStart /\ bulk = NoBulk
  /\ asked = [delete |-> {}, kill |-> {}]
  /\ ConfigInit /\ ChoiceInit

----------------------------------------------------------------------------
\* The jobs the parameter form is for, and the tracks it is opened with.
ActiveJobs == {j \in DOMAIN listed : listed[j] = "active"}
ConfiguredJobs ==
  IF sel = {} THEN {picked.job} \cap DOMAIN listed ELSE sel \cap DOMAIN listed
MixedTrackSelection ==
  ConfiguredJobs \cap MultiJobs # {} /\ ~(ConfiguredJobs \subseteq MultiJobs)
ConfigureMulti ==
  ConfiguredJobs # {} /\ (CHOOSE j \in ConfiguredJobs : TRUE) \in MultiJobs

ResetsOnOpenOnly ==
  /\ config' =
       IF dialog' # "config" THEN ConfigClosed(config)
       ELSE IF dialog # "config"
       THEN ConfigReset(config, DefaultParams, ConfigureMulti') ELSE config
  /\ choice' =
       IF dialog' = "profile" /\ dialog # "profile" THEN ChoiceOpened(choice) ELSE choice

\* The effects of the two dialogs after whatever the step changed.  What was
\* typed in a form that is closed is forgotten at its next opening.
DialogEffects ==
  /\ config' =
       IF dialog' # "config" THEN ConfigClosed(config)
       ELSE IF dialog # "config" \/ ConfigureMulti' # ConfigureMulti
       THEN ConfigReset(config, DefaultParams, ConfigureMulti') ELSE config
  /\ choice' =
       IF dialog' = "profile" /\ dialog # "profile" THEN ChoiceOpened(choice) ELSE choice

\* The bound on what is under way.
Busy ==
  Cardinality(asked.delete) + Cardinality(asked.kill)
    + (IF start = NoStart THEN 0 ELSE 1) + (IF bulk = NoBulk THEN 0 ELSE 1)

----------------------------------------------------------------------------
\* The service: jobs end, and accept or refuse what is asked of them.
Serves(j, from, to) ==
  server' = IF server[j] = from THEN [server EXCEPT ![j] = to] ELSE server

\* useTranscriptionEvents(): every active row has a stream; it is heard only
\* if it is connected at that moment.
JobEnds(j, heard) ==
  /\ server[j] = "active"
  /\ Serves(j, "active", "idle")
  /\ heard => j \in ActiveJobs
  /\ listed' = IF heard THEN [listed EXCEPT ![j] = "idle"] ELSE listed
  /\ UNCHANGED <<list, pageVars>>

\* The list is read at the service and arrives some time later.
ListRead ==
  /\ list.at = "asked"
  /\ list' = [at |-> "read",
              rows |-> [j \in {k \in search : server[k] # "gone"} |-> server[j]]]
  /\ UNCHANGED <<server, listed, pageVars>>

ListArrives ==
  /\ list.at = "read"
  /\ listed' = list.rows /\ list' = NoList
  /\ UNCHANGED <<server, pageVars>>

Refetch == list' = [NoList EXCEPT !.at = "asked"]

\* DebouncedSearchInput: what is typed counts after a pause, whatever has
\* been opened in it.  Another term may match the same jobs.
ApplySearch ==
  /\ search' \in Filters
  /\ listed' = <<>> /\ Refetch
  /\ UNCHANGED <<server, sel, picked, dialog, start, bulk, asked>>

----------------------------------------------------------------------------
\* A long press or shift-click on a row, and every click once rows are
\* selected, toggles it.
ToggleSelection(j) ==
  /\ dialog = "none" /\ j \in DOMAIN listed
  /\ sel' = (sel \ {j}) \cup ({j} \ sel)
  /\ UNCHANGED <<server, listed, list, search, picked, dialog, start, bulk, asked>>

ClearSelection ==
  /\ dialog = "none" /\ sel # {}
  /\ sel' = {}
  /\ UNCHANGED <<server, listed, list, search, picked, dialog, start, bulk, asked>>

\* The buttons of a row: advanced transcription, with a profile, stop, delete.
RowButtons(j) ==
  {"config"} \cup (IF CanLoad THEN {"profile"} ELSE {})
    \cup IF listed[j] = "active" THEN {"stop"} ELSE {"delete"}

OpenForRow(j) ==
  /\ dialog = "none" /\ j \in DOMAIN listed
  /\ dialog' \in RowButtons(j)
  /\ picked' = IF dialog' \in {"stop", "delete"} THEN [picked EXCEPT !.file = j]
               ELSE [picked EXCEPT !.job = j]
  /\ UNCHANGED <<server, listed, list, search, sel, start, bulk, asked>>

\* The pill with the actions on the selection.
OpenForSelection ==
  /\ dialog = "none" /\ sel # {} /\ bulk = NoBulk
  /\ dialog' \in {"bulkDelete"} \cup (IF CanLoad THEN {"profile"} ELSE {})
                   \cup IF MixedTrackSelection THEN {} ELSE {"config"}
  /\ UNCHANGED <<server, listed, list, search, sel, picked, start, bulk, asked>>

\* What was picked stays in the code until something else is: nothing reads
\* it before.
CloseDialog ==
  /\ dialog # "none" /\ dialog' = "none" /\ picked' = NothingPicked
  /\ UNCHANGED <<server, listed, list, search, sel, start, bulk, asked>>

DialogClosed(which) == IF dialog = which THEN "none" ELSE dialog

----------------------------------------------------------------------------
\* Starting: the selection, when there is one, comes before the row.
Loading == start # NoStart \/ bulk # NoBulk
ParamsMulti == IF dialog = "profile" THEN ProfileMulti ELSE config.params.multi
CanStart == dialog = "config" \/ (dialog = "profile" /\ CanStartProfile)

\* handleStartTranscription() and ...WithProfile(): a row that is not shown
\* any more counts as single-track.
StartOne ==
  /\ CanStart /\ ~Loading /\ Busy < MaxBusy /\ sel = {} /\ picked.job # NoJob
  /\ (picked.job \in DOMAIN listed /\ picked.job \in MultiJobs) = ParamsMulti
  /\ start' = [job |-> picked.job, multi |-> ParamsMulti, with |-> dialog]
  /\ UNCHANGED <<server, listed, list, search, sel, picked, dialog, bulk, asked>>

\* The service takes a start of an idle job whose tracks fit, or refuses it.
JobAccepts(j, multi) == server[j] = "idle" /\ (j \in MultiJobs) = multi

StartAnswered(ok) ==
  /\ start # NoStart /\ start' = NoStart
  /\ ok => JobAccepts(start.job, start.multi)
  /\ IF ok
     THEN /\ Serves(start.job, "idle", "active") /\ Refetch
          /\ dialog' = DialogClosed(start.with)
          /\ picked' = [picked EXCEPT !.job = NoJob]
     ELSE UNCHANGED <<server, list, dialog, picked>>
  /\ UNCHANGED <<listed, search, sel, bulk, asked>>

StartBulk ==
  /\ CanStart /\ ~Loading /\ Busy < MaxBusy /\ sel # {}
  /\ bulk' = [kind |-> "transcribe", all |-> sel, left |-> sel, failed |-> {},
              multi |-> ParamsMulti, shown |-> sel \cap DOMAIN listed, done |-> {}]
  /\ UNCHANGED <<server, listed, list, search, sel, picked, dialog, start, asked>>

\* Pressing Delete closes its dialog.
DeleteBulk ==
  /\ dialog = "bulkDelete" /\ sel # {} /\ dialog' = "none" /\ Busy < MaxBusy
  /\ bulk' = [NoBulk EXCEPT !.kind = "delete", !.all = sel, !.left = sel]
  /\ UNCHANGED <<server, listed, list, search, sel, picked, start, asked>>

\* A failing item ends the loop: what is left is forgotten.
BulkItemAborts(j, ok) ==
  /\ j \in bulk.left
  /\ bulk' = [bulk EXCEPT !.left = IF ok THEN @ \ {j} ELSE {},
                          !.failed = IF ok THEN @ ELSE @ \cup {j},
                          !.done = IF ok THEN @ \cup {j} ELSE @]
  /\ server' = IF ok THEN [server EXCEPT ![j] =
                 IF bulk.kind = "delete" THEN "gone" ELSE "active"] ELSE server
  /\ UNCHANGED <<listed, list, search, sel, picked, dialog, start, asked>>

\* One item after the other; one that is refused is remembered.  A start is
\* not even sent for a job that was not shown at the click or has other tracks.
BulkItem(j, ok) ==
  /\ j \in bulk.left
  /\ ok => IF bulk.kind = "delete" THEN server[j] = "idle"
           ELSE j \in bulk.shown /\ JobAccepts(j, bulk.multi)
  /\ bulk' = [bulk EXCEPT !.left = @ \ {j},
                          !.failed = IF ok THEN @ ELSE @ \cup {j},
                          !.done = IF ok THEN @ \cup {j} ELSE @]
  /\ server' = IF ok THEN [server EXCEPT ![j] =
                 IF bulk.kind = "delete" THEN "gone" ELSE "active"] ELSE server
  /\ UNCHANGED <<listed, list, search, sel, picked, dialog, start, asked>>

BulkEnds ==
  /\ bulk # NoBulk /\ bulk.left = {} /\ bulk' = NoBulk
  /\ sel' = bulk.failed
  /\ dialog' = IF bulk.kind = "delete" THEN DialogClosed("bulkDelete")
               ELSE IF bulk.failed = {} /\ dialog \in {"config", "profile"} THEN "none"
               ELSE dialog
  /\ Refetch
  /\ UNCHANGED <<server, listed, search, picked, start, asked>>

----------------------------------------------------------------------------
\* One job is deleted or killed; its answer closes the dialog of that kind.
Confirm(op) ==
  /\ dialog = (IF op = "delete" THEN "delete" ELSE "stop")
  /\ dialog' = "none"
  /\ picked.file # NoJob
  /\ Busy < MaxBusy
  /\ asked' = [asked EXCEPT ![op] = @ \cup {picked.file}]
  /\ picked' = NothingPicked
  /\ UNCHANGED <<server, listed, list, search, sel, start, bulk>>

AskAnswered(op, j, ok) ==
  /\ j \in asked[op] /\ asked' = [asked EXCEPT ![op] = @ \ {j}]
  /\ ok => server[j] = IF op = "delete" THEN "idle" ELSE "active"
  /\ IF ok
     THEN /\ server' = [server EXCEPT ![j] = IF op = "delete" THEN "gone" ELSE "idle"]
          /\ dialog' = DialogClosed(IF op = "delete" THEN "delete" ELSE "stop")
          /\ picked' = [picked EXCEPT !.file = NoJob] /\ Refetch
     ELSE UNCHANGED <<server, dialog, picked, list>>
  /\ UNCHANGED <<listed, search, sel, start, bulk>>

----------------------------------------------------------------------------
ListStep ==
  \/ ListRead \/ ListArrives \/ ApplySearch
  \/ ClearSelection \/ OpenForSelection \/ CloseDialog
  \/ StartOne \/ StartBulk \/ DeleteBulk \/ BulkEnds
  \/ \E j \in Jobs :
       \/ ToggleSelection(j) \/ OpenForRow(j)
       \/ \E ok \in BOOLEAN :
            \/ JobEnds(j, ok) \/ BulkItem(j, ok)
            \/ \E op \in {"delete", "kill"} : AskAnswered(op, j, ok)
  \/ \E ok \in BOOLEAN : StartAnswered(ok)
  \/ \E op \in {"delete", "kill"} : Confirm(op)

Rest == <<server, listed, list, pageVars>>
FormStep ==
  \/ /\ \/ dialog = "config" /\ (EditConfig(ConfigureMulti) \/ ValidateKey)
        \/ KeyAnswered
     /\ UNCHANGED <<choice, Rest>>
  \/ /\ (dialog = "profile" /\ ChooseProfile) \/ ProfilesLoaded
     /\ UNCHANGED <<config, Rest>>

ListNext == (ListStep /\ DialogEffects) \/ FormStep
ListSpec == ListInit /\ [][ListNext]_listVars

----------------------------------------------------------------------------
\* "Bulk operations track per-item success; failed items remain selected"
\* (R041): when a bulk operation has ended, an item of it is selected unless
\* the service did for it what was asked.
BulkAccounted == bulk # NoBulk /\ bulk' = NoBulk => bulk.all \ sel' \subseteq bulk.done

\* "Each audio track will be transcribed separately. Speaker diarization is
\* disabled.": whatever becomes of the selection and the list under the open
\* form, its parameters are for the tracks it shows and never ask for both.
ParamsMatchTracks ==
  dialog = "config" =>
    /\ config.params.multi = ConfigureMulti
    /\ config.params.multi => ~config.params.diarize
=============================================================================
