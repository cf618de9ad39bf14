---------------------------- MODULE SettingsTable ----------------------------
(***************************************************************************)
(* The table of the settings tab that is open (SummaryTemplatesTable,      *)
(* APIKeyTable, ProfilesTable): its rows, the requests for them and the    *)
(* deletions under way.  Requests may overlap and their answers overtake   *)
(* each other; every one replaces the rows.                                *)
(***************************************************************************)
EXTENDS Naturals, FiniteSets

CONSTANTS MaxReads,       \* bound: requests for the rows under way
          MaxChanges         \* bound: changes under way in all tabs

ASSUME TableAssumption == MaxReads \in Nat \ {0} /\ MaxChanges \in Nat

VARIABLES
  table,      \* rows, whether they are hidden, requests asked and read
  deletions   \* what is being deleted, and whether its table is still there

NoRows == <<>>
TableFresh == [rows |-> NoRows, loading |-> TRUE, asked |-> 1, read |-> {}]
TableInit == table = TableFresh /\ deletions = {}

Loads(t) == t.asked + Cardinality(t.read)
CanAsk(t) == Loads(t) < MaxReads

\* fetchItems() and its like, when the tab opens or something has changed.
Asked(t, hide) == [t EXCEPT !.asked = @ + 1, !.loading = @ \/ hide]

\* The service reads its store ...
Read(t, store) ==
  {[t EXCEPT !.asked = @ - 1, !.read = @ \cup {store}] : i \in 1..t.asked}

\* ... and the answer arrives, or an error does.
Arrived(t, failedRows) ==
  {[t EXCEPT !.rows = rows, !.read = @ \ {rows}, !.loading = FALSE] : rows \in t.read}
  \cup {[t EXCEPT !.rows = failedRows, !.asked = @ - 1, !.loading = FALSE] :
          i \in 1..t.asked}

\* handleDelete(): the row's button is locked while its deletion is under way.
Deleting(id) == \E d \in deletions : d.id = id /\ d.here
CanDelete(id) ==
  /\ ~table.loading /\ id \in DOMAIN table.rows /\ ~Deleting(id)
Delete(id) == deletions' = deletions \cup {[id |-> id, here |-> TRUE]}

\* What is left when the tab is closed: the service still answers.
Unmounted == {[d EXCEPT !.here = FALSE] : d \in deletions}
=============================================================================
