---------------------------- MODULE TemplateEditor ----------------------------
(***************************************************************************)
(* The summary templates of the settings: the table, the editor that adds  *)
(* and changes them (SummaryTemplateDialog) and what SettingsPage does to  *)
(* save one.  The form's version tells the editor a save belongs to.       *)
(***************************************************************************)
EXTENDS SettingsTable

CONSTANTS Templates, New, Texts, NoText, Models, NoModel

ASSUME TemplateAssumption ==
  New \notin Templates /\ NoText \notin Texts /\ NoModel \notin Models

VARIABLES
  templates,  \* external: what is stored, [template |-> content]
  editor,     \* the form; typed: the draft as the user left it
  save,       \* the save under way; own: the form's version is still its own
  configured  \* llmConfigured: whether templates can be edited

Content == [text: Texts \cup {NoText}, model: Models \cup {NoModel}]
Empty == [text |-> NoText, model |-> NoModel]
Valid(draft) == draft.text # NoText /\ draft.model # NoModel
Stores == UNION {[ts -> Content] : ts \in SUBSET Templates}

EditorFresh == [open |-> FALSE, of |-> New, draft |-> Empty, typed |-> Empty,
                saving |-> FALSE, error |-> FALSE, models |-> FALSE]
NoSave == [of |-> New, content |-> Empty, own |-> FALSE]

TemplateType ==
  /\ templates \in Stores
  /\ editor \in [open: BOOLEAN, of: Templates \cup {New}, draft: Content, typed: Content,
                 saving: BOOLEAN, error: BOOLEAN, models: BOOLEAN]
  /\ save \in [of: Templates \cup {New}, content: Content, own: BOOLEAN]
  /\ configured \in BOOLEAN
  /\ editor.saving => editor.open /\ save.own /\ save.of = editor.of

TemplateInit ==
  /\ templates = <<>> /\ editor = EditorFresh /\ save = NoSave
  /\ configured = FALSE

----------------------------------------------------------------------------
\* The effect that runs when the editor opens, closes or gets another
\* template: a new version of the form, and its fields.
Opened(of, content) ==
  /\ editor' = [EditorFresh EXCEPT !.open = TRUE, !.of = of, !.draft = content,
                                   !.typed = content, !.models = TRUE]
  /\ save' = [save EXCEPT !.own = FALSE]
EditorClosed == editor' = EditorFresh /\ save' = [save EXCEPT !.own = FALSE]

NewTemplate ==
  /\ configured /\ ~editor.open /\ Opened(New, Empty)
  /\ UNCHANGED <<templates, configured, table, deletions>>

EditTemplate(t) ==
  /\ configured /\ ~editor.open /\ ~table.loading /\ t \in DOMAIN table.rows
  /\ Opened(t, table.rows[t])
  /\ UNCHANGED <<templates, configured, table, deletions>>

TypeDraft ==
  /\ editor.open /\ ~editor.saving
  /\ \E text \in Texts \cup {NoText}, model \in Models \cup {editor.draft.model} :
       LET draft == [text |-> text, model |-> model]
       IN  editor' = [editor EXCEPT !.draft = draft, !.typed = draft]
  /\ UNCHANGED <<templates, save, configured, table, deletions>>

\* The models to choose from: asked when the editor opens and again when the
\* token is renewed; the first one fills an empty choice.
ModelsArrive ==
  /\ editor.open /\ editor.models
  /\ \E model \in Models \cup {NoModel} :
       editor' = [editor EXCEPT !.models = FALSE,
                    !.draft.model = IF @ = NoModel THEN model ELSE @]
  /\ UNCHANGED <<templates, save, configured, table, deletions>>

RotationResets(e) ==
  [e EXCEPT !.models = @ \/ e.open,
            !.draft = IF e.of \in DOMAIN table.rows THEN table.rows[e.of] ELSE Empty]
EditorTokenRenewed(e) == [e EXCEPT !.models = @ \/ e.open]

\* handleOpenChange(): Cancel, Escape and a click outside.
CancelEditor ==
  /\ editor.open /\ ~editor.saving
  /\ EditorClosed
  /\ UNCHANGED <<templates, configured, table, deletions>>

SaveTemplate ==
  /\ editor.open /\ ~editor.saving /\ Valid(editor.draft) /\ save = NoSave
  /\ editor' = [editor EXCEPT !.saving = TRUE, !.error = FALSE]
  /\ save' = [of |-> editor.of, content |-> editor.draft, own |-> TRUE]
  /\ UNCHANGED <<templates, configured, table, deletions>>

\* What the service makes of a save, if it takes it.
Stored(s) ==
  LET ids == IF s.of # New THEN {s.of} \cap DOMAIN templates
             ELSE Templates \ DOMAIN templates
  IN  {[t \in DOMAIN templates \cup {id} |->
          IF t = id THEN s.content ELSE templates[t]] : id \in ids}

SaveAnsweredClosing(ok) ==
  /\ save # NoSave
  /\ templates' \in Stored(save) \cup (IF ok THEN {} ELSE {templates})
  /\ save' = NoSave
  /\ editor' = IF save.own THEN EditorFresh ELSE editor
  /\ table' = IF ok THEN Asked(table, TRUE) ELSE table
  /\ UNCHANGED <<configured, deletions>>

\* The answer of the save.  An answer may be lost after the service has
\* stored the template.
SaveAnswered(ok) ==
  /\ save # NoSave /\ (ok => CanAsk(table))
  /\ templates' \in Stored(save) \cup (IF ok THEN {} ELSE {templates})
  /\ save' = NoSave
  /\ editor' = IF ~save.own THEN editor
               ELSE IF ok THEN EditorFresh
               ELSE [editor EXCEPT !.saving = FALSE, !.error = TRUE]
  /\ table' = IF ok THEN Asked(table, TRUE) ELSE table
  /\ UNCHANGED <<configured, deletions>>

TemplateRows ==
  /\ table' \in Read(table, templates) \cup Arrived(table, table.rows)
  /\ UNCHANGED <<templates, editor, save, configured, deletions>>

DeleteTemplate(t) ==
  /\ configured /\ ~editor.open /\ CanDelete(t) /\ Cardinality(deletions) < MaxChanges
  /\ Delete(t)
  /\ UNCHANGED <<templates, editor, save, configured, table>>

\* A deletion is answered; the table drops the row without asking again.
TemplateDeleted(d, ok) ==
  /\ d \in deletions /\ d.id \in Templates
  /\ deletions' = deletions \ {d}
  /\ LET without(rows) == [t \in DOMAIN rows \ {d.id} |-> rows[t]]
     IN  /\ templates' = IF ok THEN without(templates) ELSE templates
         /\ table' = IF ok /\ d.here THEN [table EXCEPT !.rows = without(@)] ELSE table
  /\ UNCHANGED <<editor, save, configured>>

TemplateStep ==
  \/ NewTemplate \/ TypeDraft \/ ModelsArrive \/ CancelEditor \/ SaveTemplate
  \/ TemplateRows
  \/ \E t \in Templates : EditTemplate(t) \/ DeleteTemplate(t)
  \/ \E ok \in BOOLEAN : SaveAnswered(ok)

----------------------------------------------------------------------------
\* "Template failures preserve drafts; token rotation cannot reset fields"
\* (R040): an open editor shows what the user last left in it; only an
\* empty choice of the model is filled.
DraftKept ==
  editor.open =>
    /\ editor.draft.text = editor.typed.text
    /\ editor.typed.model # NoModel => editor.draft.model = editor.typed.model
=============================================================================
