---------------------------- MODULE ProfileEditor ----------------------------
(***************************************************************************)
(* The transcription profiles of the settings (ProfileSettings): the       *)
(* user's default profile, the switch for transcription on upload, the     *)
(* table and the form of the parameters in its profile mode.  The form is  *)
(* not locked while a profile is being saved.                              *)
(***************************************************************************)
EXTENDS ConfigDialog, SettingsTable

CONSTANTS ProfileIds, NewProfile

ASSUME ProfilesAssumption == NewProfile \notin ProfileIds

VARIABLES
  profiles,   \* external: the parameters stored, [profile |-> params]
  user,       \* external: the user's default profile and auto transcription
  page,       \* the page, with its own list of the profiles
  psaves      \* changes under way; here: the page is still there

StoredProfiles == UNION {[ps -> Params] : ps \in SUBSET ProfileIds}
Default == ProfileIds \cup {NewProfile}

\* A profile made elsewhere may ask for both.
Foreign == [DefaultParams EXCEPT !.multi = TRUE, !.diarize = TRUE]

\* known and default: the page's own list, asked for beside the table's.
PageFresh == [open |-> FALSE, of |-> NewProfile, named |-> FALSE,
              known |-> {}, default |-> NewProfile, loading |-> TRUE,
              asked |-> 1, auto |-> FALSE, settings |-> FALSE]

ProfileType ==
  /\ profiles \in StoredProfiles
  /\ user \in [default: Default, auto: BOOLEAN]
  /\ page.of \in Default /\ page.known \subseteq ProfileIds /\ page.default \in Default
  /\ \A s \in psaves : s.kind \in {"profile", "default", "auto"} /\ s.of \in Default
  /\ config \in ConfigType

ProfileInit ==
  /\ profiles \in {<<>>} \cup UNION {[{p} -> {DefaultParams, Foreign}] : p \in ProfileIds}
  /\ user = [default |-> NewProfile, auto |-> FALSE]
  /\ page = PageFresh /\ psaves = {}
  /\ ConfigInit

\* GetUserDefaultProfile(): the user's choice while it exists, or another.
UserDefault ==
  IF user.default \in DOMAIN profiles THEN {user.default}
  ELSE IF DOMAIN profiles = {} THEN {NewProfile} ELSE DOMAIN profiles

----------------------------------------------------------------------------
PageAsked(p) == [p EXCEPT !.asked = @ + 1, !.loading = TRUE]
PageCanAsk == page.asked < MaxReads /\ CanAsk(table)

\* loadProfiles(): the list, then the default; an error leaves what was there.
LoadPage ==
  /\ page.asked > 0
  /\ \/ page' = [page EXCEPT !.asked = @ - 1, !.loading = FALSE]
     \/ \E d \in UserDefault :
          page' = [page EXCEPT !.asked = @ - 1, !.loading = FALSE,
                               !.known = DOMAIN profiles, !.default = d]
  /\ UNCHANGED <<profiles, user, psaves, config, table, deletions>>

\* loadUserSettings(), which the renewal of the token repeats.
LoadSettings ==
  /\ page.settings => page.auto # user.auto
  /\ \E auto \in {user.auto, page.auto} :
       page' = [page EXCEPT !.settings = TRUE, !.auto = auto]
  /\ UNCHANGED <<profiles, user, psaves, config, table, deletions>>

ProfileTokenRenewed(p) == PageAsked(p)

SendProfile(kind, of, params, auto) ==
  /\ Cardinality(psaves) + Cardinality(deletions) < MaxChanges
  /\ psaves' = psaves \cup
       {[kind |-> kind, of |-> of, params |-> params, auto |-> auto, here |-> TRUE]}

ToggleAuto ==
  /\ page.settings /\ ~page.open
  /\ SendProfile("auto", NewProfile, DefaultParams, ~page.auto)
  /\ UNCHANGED <<profiles, user, page, config, table, deletions>>

ChooseDefault(p) ==
  /\ ~page.loading /\ p \in page.known /\ ~page.open
  /\ SendProfile("default", p, DefaultParams, FALSE)
  /\ UNCHANGED <<profiles, user, page, config, table, deletions>>

\* handleCreateProfile(), handleEditProfile() and the form's effect.
OpenForm(of, params, named) ==
  /\ ~page.open
  /\ page' = [page EXCEPT !.open = TRUE, !.of = of, !.named = named]
  /\ config' = ConfigReset(config, params, params.multi)
  /\ UNCHANGED <<profiles, user, psaves, table, deletions>>

CreateProfile == OpenForm(NewProfile, DefaultParams, FALSE)
EditProfile(p) ==
  /\ ~table.loading /\ p \in DOMAIN table.rows
  /\ OpenForm(p, table.rows[p], TRUE)

FormClosed ==
  /\ page' = [page EXCEPT !.open = FALSE, !.of = NewProfile, !.named = FALSE]
  /\ config' = ConfigClosed(config)

CloseForm ==
  /\ page.open /\ FormClosed
  /\ UNCHANGED <<profiles, user, psaves, table, deletions>>

EditForm ==
  /\ page.open
  /\ \/ EditConfig(config.params.multi) /\ UNCHANGED page
     \/ page' = [page EXCEPT !.named = ~@] /\ UNCHANGED config
  /\ UNCHANGED <<profiles, user, psaves, table, deletions>>

SubmitProfile ==
  /\ page.open /\ page.named
  /\ SendProfile("profile", page.of, config.params, FALSE)
  /\ UNCHANGED <<profiles, user, page, config, table, deletions>>

----------------------------------------------------------------------------
\* What the service makes of a change, if it takes it.
SavedProfiles(s) ==
  LET ids == IF s.of # NewProfile THEN {s.of} \cap DOMAIN profiles
             ELSE ProfileIds \ DOMAIN profiles
  IN  {[p \in DOMAIN profiles \cup {id} |->
          IF p = id THEN s.params ELSE profiles[p]] : id \in ids}

Outcomes(s) ==
  CASE s.kind = "profile" -> {<<ps, user>> : ps \in SavedProfiles(s)}
    [] s.kind = "default" ->
         {<<profiles, [user EXCEPT !.default = s.of]>> : i \in {s.of} \cap DOMAIN profiles}
    [] OTHER -> {<<profiles, [user EXCEPT !.auto = s.auto]>>}

\* handleProfileSaved() closes whatever form is open by then.
ProfileAnswered(s, ok) ==
  /\ s \in psaves /\ psaves' = psaves \ {s}
  /\ s.kind = "profile" /\ s.here /\ ok => PageCanAsk
  /\ \E o \in Outcomes(s) \cup (IF ok THEN {} ELSE {<<profiles, user>>}) :
       profiles' = o[1] /\ user' = o[2]
  /\ IF ~ok \/ ~s.here THEN UNCHANGED <<page, config, table>>
     ELSE CASE s.kind = "profile" ->
                 /\ page' = [PageAsked(page) EXCEPT !.open = FALSE,
                               !.of = NewProfile, !.named = FALSE]
                 /\ config' = ConfigClosed(config)
                 /\ table' = Asked(table, TRUE)
            [] s.kind = "default" ->
                 page' = [page EXCEPT !.default = s.of] /\ UNCHANGED <<config, table>>
            [] OTHER ->
                 page' = [page EXCEPT !.auto = s.auto] /\ UNCHANGED <<config, table>>
  /\ UNCHANGED deletions

ProfileRows ==
  /\ table' \in Read(table, profiles) \cup Arrived(table, table.rows)
  /\ UNCHANGED <<profiles, user, page, psaves, config, deletions>>

DeleteProfile(p) ==
  /\ ~page.open /\ CanDelete(p)
  /\ Cardinality(psaves) + Cardinality(deletions) < MaxChanges
  /\ Delete(p)
  /\ UNCHANGED <<profiles, user, page, psaves, config, table>>

ProfileDeleted(d, ok) ==
  /\ d \in deletions /\ d.id \in ProfileIds /\ deletions' = deletions \ {d}
  /\ ok /\ d.here => PageCanAsk
  /\ profiles' = IF ok THEN [p \in DOMAIN profiles \ {d.id} |-> profiles[p]] ELSE profiles
  /\ IF ok /\ d.here THEN page' = PageAsked(page) /\ table' = Asked(table, TRUE)
     ELSE UNCHANGED <<page, table>>
  /\ UNCHANGED <<user, psaves, config>>

ProfileStep ==
  \/ LoadPage \/ LoadSettings \/ ToggleAuto \/ CreateProfile \/ CloseForm
  \/ EditForm \/ SubmitProfile \/ ProfileRows
  \/ \E p \in ProfileIds : ChooseDefault(p) \/ EditProfile(p) \/ DeleteProfile(p)

----------------------------------------------------------------------------
\* "Speaker diarization is disabled" for multi-track recordings: no profile
\* is sent that asks for both, whatever the stored one it began from asks.
ProfilesMatchTracks ==
  \A s \in psaves : s.params.multi => ~s.params.diarize
=============================================================================
