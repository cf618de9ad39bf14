------------------------------- MODULE ApiKeys -------------------------------
(***************************************************************************)
(* The API keys of the settings: the dialog that creates one, the dialog   *)
(* that shows it the only time it can be seen, and the table.  The service *)
(* keeps a key's hash, so a key nobody has seen is lost.                   *)
(***************************************************************************)
EXTENDS SettingsTable

CONSTANTS Keys, NoKey

ASSUME KeyAssumption == NoKey \notin Keys

VARIABLES
  keys,       \* external: the keys in force, and all ever created
  keyform,    \* the creation dialog
  creating,   \* creations under way; here: the tab is still the one it began in
  createdKey,      \* createdKey and whether it has just been copied
  issued      \* history: keys the page was told of, those dismissed, and
              \* whether the session has ended under the page

KeyFormFresh == [open |-> FALSE, named |-> FALSE, busy |-> FALSE]
NotShown == [key |-> NoKey, copied |-> FALSE]

KeyType ==
  /\ keys \in [live: SUBSET Keys, created: SUBSET Keys]
  /\ keyform \in [open: BOOLEAN, named: BOOLEAN, busy: BOOLEAN]
  /\ creating \subseteq [here: BOOLEAN]
  /\ createdKey \in [key: Keys \cup {NoKey}, copied: BOOLEAN]
  /\ issued \in [told: SUBSET Keys, dismissed: SUBSET Keys, ended: BOOLEAN]

KeyInit ==
  /\ keys = [live |-> {}, created |-> {}]
  /\ keyform = KeyFormFresh /\ creating = {} /\ createdKey = NotShown
  /\ issued = [told |-> {}, dismissed |-> {}, ended |-> FALSE]

NoKeyDialog == ~keyform.open /\ createdKey.key = NoKey

OpenKeyForm ==
  /\ NoKeyDialog
  /\ keyform' = [keyform EXCEPT !.open = TRUE]
  /\ UNCHANGED <<keys, creating, createdKey, issued, table, deletions>>

NameKey ==
  /\ keyform.open /\ ~keyform.busy
  /\ \E named \in BOOLEAN : keyform' = [keyform EXCEPT !.named = named]
  /\ UNCHANGED <<keys, creating, createdKey, issued, table, deletions>>

CancelAnyTime ==
  /\ keyform.open
  /\ keyform' = KeyFormFresh
  /\ UNCHANGED <<keys, creating, createdKey, issued, table, deletions>>

\* handleOpenChange(): not while the key is being created.
CancelKey ==
  /\ keyform.open /\ ~keyform.busy
  /\ keyform' = KeyFormFresh
  /\ UNCHANGED <<keys, creating, createdKey, issued, table, deletions>>

\* The three ways to submit the form: "Create API Key", Enter, and the second
\* button labelled "Cancel", which is of type submit and creates the key too.
SubmitKey ==
  /\ keyform.open /\ keyform.named /\ ~keyform.busy /\ creating = {}
  /\ keyform' = [keyform EXCEPT !.busy = TRUE]
  /\ creating' = {[here |-> TRUE]}
  /\ UNCHANGED <<keys, createdKey, issued, table, deletions>>

\* The key as it is created at the service, which tells it in its answer and
\* never again.  Lost: the page is not told, or there is no key.
KeyCreated(c, k) ==
  /\ c \in creating /\ k \in Keys \ keys.created /\ (c.here => CanAsk(table))
  /\ creating' = creating \ {c}
  /\ keys' = [live |-> keys.live \cup {k}, created |-> keys.created \cup {k}]
  /\ issued' = [issued EXCEPT !.told = @ \cup {k}]
  /\ IF c.here
     THEN /\ keyform' = KeyFormFresh
          /\ createdKey' = [NotShown EXCEPT !.key = k]
          /\ table' = Asked(table, FALSE)
     ELSE UNCHANGED <<keyform, createdKey, table>>
  /\ UNCHANGED deletions

KeyFailed(c) ==
  /\ c \in creating /\ creating' = creating \ {c}
  /\ \/ UNCHANGED keys
     \/ \E k \in Keys \ keys.created :
          keys' = [live |-> keys.live \cup {k}, created |-> keys.created \cup {k}]
  /\ keyform' = IF c.here THEN [keyform EXCEPT !.busy = FALSE] ELSE keyform
  /\ UNCHANGED <<createdKey, issued, table, deletions>>

\* The mark of a copied key fades after two seconds.
CopyKey ==
  /\ createdKey.key # NoKey
  /\ createdKey' = [createdKey EXCEPT !.copied = ~@]
  /\ UNCHANGED <<keys, keyform, creating, issued, table, deletions>>

DismissKey ==
  /\ createdKey.key # NoKey /\ createdKey' = NotShown
  /\ issued' = [issued EXCEPT !.dismissed = @ \cup {createdKey.key}]
  /\ UNCHANGED <<keys, keyform, creating, table, deletions>>

KeyRows ==
  /\ table' \in Read(table, [k \in keys.live |-> TRUE]) \cup Arrived(table, NoRows)
  /\ UNCHANGED <<keys, keyform, creating, createdKey, issued, deletions>>

DeleteKey(k) ==
  /\ NoKeyDialog /\ CanDelete(k) /\ Cardinality(deletions) < MaxChanges
  /\ Delete(k)
  /\ UNCHANGED <<keys, keyform, creating, createdKey, issued, table>>

KeyDeleted(d, ok) ==
  /\ d \in deletions /\ d.id \in Keys /\ deletions' = deletions \ {d}
  /\ ok /\ d.here => CanAsk(table)
  /\ keys' = IF ok THEN [keys EXCEPT !.live = @ \ {d.id}] ELSE keys
  /\ table' = IF ok /\ d.here THEN Asked(table, FALSE) ELSE table
  /\ UNCHANGED <<keyform, creating, createdKey, issued>>

KeyStep ==
  \/ OpenKeyForm \/ NameKey \/ CancelKey \/ SubmitKey \/ CopyKey \/ DismissKey \/ KeyRows
  \/ \E k \in Keys : DeleteKey(k)

----------------------------------------------------------------------------
\* "This is the only time you'll see the full API key": a key the page has
\* been told stays on the screen until the user dismisses it or is signed out.
IssuedKeyShown ==
  ~issued.ended => issued.told \ issued.dismissed \subseteq {createdKey.key}
=============================================================================
