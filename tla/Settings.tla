------------------------------ MODULE Settings ------------------------------
(***************************************************************************)
(* The settings page: its tabs, of which one is on the screen, what is     *)
(* left of the others when they are closed, and the session they all need. *)
(***************************************************************************)
EXTENDS TemplateEditor, ApiKeys, LlmForm, ProfileEditor, AccountForm

CONSTANTS MaxVisits,  \* bounds: times another tab is opened,
          MaxWork     \* and changes sent to the service

Tabs == {"transcription", "account", "apikeys", "llms", "summary"}
ASSUME SettingsAssumption == MaxVisits \in Nat /\ MaxWork \in Nat

VARIABLES tab, visits, work,
          gate        \* llmConfigured is being asked for

templateVars == <<templates, editor, save>>
keyVars == <<keys, keyform, creating, createdKey, issued>>
llmVars == <<llm, llmform, llmsaves>>
profileVars == <<profiles, user, page, psaves, config>>
accountVars == <<account, changes, signed, signout>>
tableVars == <<table, deletions>>
tabVars == <<tab, visits, gate>>  \* work is counted by every step
settingsVars == <<templateVars, configured, keyVars, llmVars, profileVars, accountVars,
          tableVars, tabVars, work>>

SettingsType ==
  /\ TemplateType /\ KeyType /\ LlmType /\ ProfileType /\ AccountType
  /\ tab \in Tabs /\ visits \in 0..MaxVisits /\ work \in 0..MaxWork
  /\ gate \in BOOLEAN
  /\ Loads(table) <= MaxReads

SettingsInit ==
  /\ TemplateInit /\ KeyInit /\ LlmInit /\ ProfileInit /\ AccountInit /\ TableInit
  /\ tab = "transcription" /\ visits = 0 /\ work = 0 /\ gate = TRUE

----------------------------------------------------------------------------
\* Every dialog is modal: the tabs cannot be reached behind it.
NoDialog == ~editor.open /\ NoKeyDialog /\ ~page.open

\* The content of the tab that is left is unmounted, the other one begins
\* afresh; the requests under way only reach the service.
TabOpened ==
  /\ deletions' = Unmounted /\ table' = TableFresh
  /\ keyform' = KeyFormFresh /\ createdKey' = NotShown
  /\ creating' = {[c EXCEPT !.here = FALSE] : c \in creating}
  /\ llmform' = LlmFormFresh
  /\ llmsaves' = {[s EXCEPT !.here = FALSE] : s \in llmsaves}
  /\ page' = PageFresh /\ config' = ConfigFresh
  /\ psaves' = {[s EXCEPT !.here = FALSE] : s \in psaves}
  /\ account' = AccountFresh
  /\ changes' = {[c EXCEPT !.here = FALSE] : c \in changes}
  /\ gate' = TRUE
  /\ UNCHANGED <<templates, keys, llm, profiles, user>>

SelectTab ==
  /\ signed /\ NoDialog /\ visits < MaxVisits
  /\ tab' \in Tabs \ {tab} /\ visits' = visits + 1
  /\ TabOpened
  /\ UNCHANGED <<configured, editor, save, signed, signout, issued>>

\* fetchLLM() of the page: nothing that can be read means not configured.
GateStep ==
  /\ gate /\ gate' = FALSE
  /\ configured' \in {FALSE, llm # NoConfig}
  /\ UNCHANGED <<templateVars, keyVars, llmVars, profileVars, accountVars,
                 tableVars, tab, visits>>

\* The token is renewed: what depends on it is asked for again.
TokenRenewed ==
  /\ signed /\ ~gate /\ CanAsk(table)
  /\ tab = "transcription" => PageCanAsk
  /\ gate' = TRUE
  /\ editor' = IF tab = "summary" THEN EditorTokenRenewed(editor) ELSE editor
  /\ table' = IF tab \in {"account", "llms"} THEN table ELSE Asked(table, tab # "apikeys")
  /\ llmform' = IF tab = "llms" THEN LlmTokenRenewed(llmform) ELSE llmform
  /\ page' = IF tab = "transcription" THEN ProfileTokenRenewed(page) ELSE page
  /\ UNCHANGED <<templates, save, configured, keyVars, llm, llmsaves, profiles, user,
                 psaves, config, accountVars, deletions, tab, visits>>

\* Two seconds after the password was changed: logout(), whoever is signed
\* in by then.  Signing in again opens the page anew.
AutoLogout ==
  /\ signout /\ signout' = FALSE /\ signed' = FALSE
  /\ TabOpened
  /\ EditorClosed /\ configured' = FALSE
  /\ issued' = [issued EXCEPT !.ended = TRUE]
  /\ UNCHANGED <<tab, visits>>

SignIn ==
  /\ ~signed /\ signed' = TRUE
  /\ UNCHANGED <<templateVars, configured, keyVars, llmVars, profileVars, account,
                 changes, signout, tableVars, tabVars>>

----------------------------------------------------------------------------
SummaryTab ==
  /\ \/ signed /\ tab = "summary" /\ TemplateStep
     \/ \E d \in deletions, ok \in BOOLEAN : TemplateDeleted(d, ok)
  /\ UNCHANGED <<keyVars, llmVars, profileVars, accountVars, tabVars>>
KeysTab ==
  /\ \/ signed /\ tab = "apikeys" /\ KeyStep
     \/ \E c \in creating : KeyFailed(c) \/ \E k \in Keys : KeyCreated(c, k)
     \/ \E d \in deletions, ok \in BOOLEAN : KeyDeleted(d, ok)
  /\ UNCHANGED <<templateVars, configured, llmVars, profileVars, accountVars, tabVars>>
LlmTab ==
  /\ \/ signed /\ tab = "llms" /\ LlmStep
     \/ \E s \in llmsaves, ok \in BOOLEAN : LlmSaved(s, ok)
  /\ UNCHANGED <<templateVars, configured, keyVars, profileVars, accountVars, tableVars, tabVars>>
ProfilesTab ==
  /\ \/ signed /\ tab = "transcription" /\ ProfileStep
     \/ \E s \in psaves, ok \in BOOLEAN : ProfileAnswered(s, ok)
     \/ \E d \in deletions, ok \in BOOLEAN : ProfileDeleted(d, ok)
  /\ UNCHANGED <<templateVars, configured, keyVars, llmVars, accountVars, tabVars>>
AccountTab ==
  /\ \/ signed /\ tab = "account" /\ AccountStep
     \/ \E c \in changes, ok \in BOOLEAN : AccountAnswered(c, ok)
  /\ UNCHANGED <<templateVars, configured, keyVars, llmVars, profileVars, tableVars, tabVars>>

\* Changes under way; sending one is counted.
Sent ==
  Cardinality(deletions) + Cardinality(creating) + Cardinality(llmsaves)
    + Cardinality(psaves) + Cardinality(changes) + (IF save = NoSave THEN 0 ELSE 1)
Counted ==
  /\ work' = IF Sent' > Sent THEN work + 1 ELSE work
  /\ work' <= MaxWork

SettingsStep ==
  \/ SelectTab \/ GateStep \/ TokenRenewed \/ AutoLogout \/ SignIn
  \/ SummaryTab \/ KeysTab \/ LlmTab \/ ProfilesTab \/ AccountTab
SettingsNext == SettingsStep /\ Counted
SettingsSpec == SettingsInit /\ [][SettingsNext]_settingsVars

----------------------------------------------------------------------------
\* "save completion belongs to its original editor" (R040): an editor that
\* closes under a save has what it shows stored, unless the session ends.
ClosesWhenSaved ==
  editor.saving /\ ~editor'.open /\ signed' =>
    \E t \in DOMAIN templates' : templates'[t] = editor.draft
=============================================================================
