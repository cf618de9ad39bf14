--------------------------- MODULE ProfileChoice ---------------------------
(***************************************************************************)
(* The dialog that starts a transcription with a saved profile             *)
(* (TranscribeDDialog).  Every opening asks for the profiles and then for  *)
(* the default one; the answers of an earlier opening are not told apart.  *)
(***************************************************************************)
EXTENDS Naturals

CONSTANTS Profiles,       \* saved profiles
          MultiProfiles,  \* those with multi-track transcription enabled
          NoProfile,
          MaxLoads        \* bound: loads under way at one time

ASSUME ProfileAssumption ==
  MultiProfiles \subseteq Profiles /\ NoProfile \notin Profiles /\ MaxLoads \in Nat

VARIABLE choice

ChoiceType == [known: BOOLEAN, selected: Profiles \cup {NoProfile},
               loading: BOOLEAN, loads: 0..MaxLoads]
ChoiceFresh == [known |-> FALSE, selected |-> NoProfile, loading |-> FALSE, loads |-> 0]
ChoiceInit == choice = ChoiceFresh

\* fetchProfiles() when the dialog opens.
ChoiceOpened(c) == [c EXCEPT !.loading = TRUE, !.loads = @ + 1]
CanLoad == choice.loads < MaxLoads

\* One load ends: with the list and the default profile (or the first one),
\* with the list alone, or with nothing.
ProfilesLoaded ==
  /\ choice.loads > 0
  /\ \E known \in BOOLEAN, selected \in Profiles \cup {choice.selected} :
       /\ ~known => selected = choice.selected
       /\ choice' = [known |-> known \/ choice.known, selected |-> selected,
                     loading |-> FALSE, loads |-> choice.loads - 1]

ProfileForm == choice.known /\ ~choice.loading

ChooseProfile ==
  /\ ProfileForm
  /\ \E p \in Profiles : choice' = [choice EXCEPT !.selected = p]

\* handleStartTranscription(): the parameters of the selected profile.
CanStartProfile == ProfileForm /\ choice.selected # NoProfile
ProfileMulti == choice.selected \in MultiProfiles
=============================================================================
