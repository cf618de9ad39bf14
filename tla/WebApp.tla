------------------------------- MODULE WebApp -------------------------------
(***************************************************************************)
(* The frontend's parts: the session of the browser, the dialogs that add  *)
(* audio, the job list, the settings and the chat of a transcript.  They   *)
(* share the service and nothing else, so each behaviour is one part's,    *)
(* from its mounting; the others stay in one of their initial states.      *)
(***************************************************************************)
EXTENDS AddAudio, Session, JobList, Settings, Chat

VARIABLE view       \* the part the behaviour is about

\* The list and the settings mount the same form of parameters, config.
listOnly == <<server, listed, list, pageVars, choice>>
settingsOnly == <<templateVars, configured, keyVars, llmVars, profiles, user, page,
                  psaves, accountVars, tableVars, tabVars, work>>
webVars == <<addVars, sessionVars, listVars, settingsVars, chatVars, view>>

\* A part that is not the one under view has no state.
Off(v) == v = <<>>
AddOff == Off(sys) /\ Off(mic) /\ Off(up) /\ Off(quick) /\ Off(tube)
ListOff ==
  /\ Off(server) /\ Off(listed) /\ Off(list) /\ Off(search) /\ Off(sel) /\ Off(picked)
  /\ Off(dialog) /\ Off(start) /\ Off(bulk) /\ Off(asked) /\ Off(choice)
SettingsOff ==
  /\ Off(templates) /\ Off(editor) /\ Off(save) /\ Off(configured)
  /\ Off(keys) /\ Off(keyform) /\ Off(creating) /\ Off(createdKey) /\ Off(issued)
  /\ Off(llm) /\ Off(llmform) /\ Off(llmsaves)
  /\ Off(profiles) /\ Off(user) /\ Off(page) /\ Off(psaves)
  /\ Off(account) /\ Off(changes) /\ Off(signed) /\ Off(signout)
  /\ Off(table) /\ Off(deletions) /\ Off(tab) /\ Off(visits) /\ Off(gate) /\ Off(work)
ChatOff ==
  /\ Off(chats) /\ Off(made) /\ Off(thread) /\ Off(questions) /\ Off(titles) /\ Off(sent)
  /\ Off(side) /\ Off(edits) /\ Off(edited) /\ Off(opened) /\ Off(chosen)

\* The session is small and there in every view.
WebInit ==
  /\ SessionInit
  /\ \/ view = "session" /\ AddOff /\ ListOff /\ SettingsOff /\ ChatOff /\ Off(config)
     \/ view = "add" /\ AddInit /\ ListOff /\ SettingsOff /\ ChatOff /\ Off(config)
     \/ view = "list" /\ AddOff /\ ListInit /\ SettingsOff /\ ChatOff
     \/ view = "settings" /\ AddOff /\ ListOff /\ SettingsInit /\ ChatOff
     \/ view = "chat" /\ AddOff /\ ListOff /\ SettingsOff /\ ChatInit /\ Off(config)
  /\ view # "session" => auth.storage

AddView ==
  /\ view = "add" /\ AddNext
  /\ UNCHANGED <<sessionVars, listVars, settingsOnly, chatVars, view>>
SessionView ==
  /\ view = "session" /\ SessionNext
  /\ UNCHANGED <<addVars, listVars, settingsOnly, chatVars, view>>
ListView ==
  /\ view = "list" /\ ListNext
  /\ UNCHANGED <<addVars, sessionVars, settingsOnly, chatVars, view>>
SettingsView ==
  /\ view = "settings" /\ SettingsNext
  /\ UNCHANGED <<addVars, sessionVars, listOnly, chatVars, view>>
ChatView ==
  /\ view = "chat" /\ ChatNext
  /\ UNCHANGED <<addVars, sessionVars, listVars, settingsOnly, view>>

WebNext == AddView \/ SessionView \/ ListView \/ SettingsView \/ ChatView
WebSpec == WebInit /\ [][WebNext]_webVars

-----------------------------------------------------------------------------
\* The state of every part has the shape its components give it.
WebType ==
  CASE view = "add"      -> AddType
    [] view = "session"  -> SessionType
    [] view = "list"     -> ListType
    [] view = "settings" -> SettingsType
    [] view = "chat"     -> ChatType

\* "Recorder blobs remain available for retry/download; discarding active
\* audio requires confirmation" (R006), unless the page is left under the
\* recorder; no track of the screen or the
\* microphone stays captured by a recorder that shows none; and a quick
\* transcription shows the result of the file it was given, whatever was closed
\* and answered in between (SystemAudioRecorder, QuickTranscriptionDialog.tsx).
AudioIsSafe == view = "add" => RecordingKept /\ SysTracksReleased /\ QuickResultIsForFile

\* A session that ended stays ended and a late answer of an earlier session does
\* not end a newer one, but for the requests of a page that still holds an
\* earlier token; and one version of the store begins one refresh
\* (authInterceptor.ts).
SessionsStayApart ==
  []LogoutLasts /\ EndedForGood /\ NewerLoginSurvives /\ RotatesOnce

\* "Each audio track will be transcribed separately. Speaker diarization is
\* disabled.": neither the form over the list nor a profile that is stored by
\* the settings asks for both.  What the user has typed into a summary template
\* is what its open editor holds, whatever is renewed or answered, and a new
\* API key is on the screen until it is dismissed, as nobody can see it again
\* (TranscriptionConfigDialog, SummaryTemplateDialog, APIKeySettings.tsx).
FormsAreTrue ==
  /\ view = "list" => ParamsMatchTracks
  /\ view = "settings" => ProfilesMatchTracks /\ DraftKept /\ IssuedKeyShown

\* "Bulk operations track per-item success; failed items remain selected"
\* (R041); "save completion belongs to its original editor" (R040).
OperationsAreAccounted ==
  [][/\ view = "list" => BulkAccounted
     /\ view = "settings" => ClosesWhenSaved]_webVars

\* The conversation follows the session that is chosen, and a row says that
\* its title is generated only while it is (ChatInterface.tsx:225, :410).
ChatIsItsOwn == view = "chat" => ChatShowsItsOwn
=============================================================================
