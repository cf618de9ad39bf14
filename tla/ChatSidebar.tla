---------------------------- MODULE ChatSidebar ----------------------------
(***************************************************************************)
(* The list of a transcript's chat sessions (ChatSessionsSidebar): it is   *)
(* loaded once and then kept up by hand from the answers to its own        *)
(* requests and from the events about titles that the conversation emits   *)
(* (ChatEventsContext).                                                    *)
(***************************************************************************)
EXTENDS ChatServer

CONSTANT MaxEdits       \* bound: creations, renames and deletions

ASSUME EditsAssumption == MaxEdits \in Nat

VARIABLES
  side,   \* rows and titles, dialogs, and the rows whose title is generated
  edits,  \* what is under way; rows: the list it was begun with
  edited  \* how many so far

NoSide ==
  [mounted |-> FALSE, asked |-> FALSE, rows |-> <<>>, adding |-> FALSE,
   editing |-> NoChat, deleting |-> NoChat, generating |-> {}]

SideMounted == [NoSide EXCEPT !.mounted = TRUE, !.asked = TRUE]

SideType ==
  /\ DOMAIN side.rows \subseteq ChatIds
  /\ \A c \in DOMAIN side.rows : side.rows[c] \in Titles
  /\ [side EXCEPT !.rows = <<>>] \in
       [mounted: BOOLEAN, asked: BOOLEAN, rows: {<<>>}, adding: BOOLEAN,
        editing: ChatIds \cup {NoChat}, deleting: ChatIds \cup {NoChat},
        generating: SUBSET ChatIds]
  /\ \A e \in edits : /\ e.no \in 1..MaxEdits /\ e.here \in BOOLEAN
                      /\ e.kind \in {"create", "rename", "delete"}
                      /\ e.id \in ChatIds \cup {NoChat}
  /\ edited \in 0..MaxEdits

TitlesOf(cs) == [c \in cs |-> chats[c].title]
Left(edit) == {[e EXCEPT !.here = FALSE] : e \in edit}

RowsArrive ==
  /\ side.asked
  /\ \E rows \in {side.rows, TitlesOf(DOMAIN chats)} :
       side' = [side EXCEPT !.asked = FALSE, !.rows = rows]
  /\ UNCHANGED <<chats, made, edits, edited>>

NothingOpen == ~side.adding /\ side.deleting = NoChat

\* The dialogs and the field of the row being renamed.
SideOpens ==
  /\ side.mounted /\ NothingOpen
  /\ \/ side' = [side EXCEPT !.adding = TRUE]
     \/ \E c \in DOMAIN side.rows :
          \/ side' = [side EXCEPT !.editing = c]
          \/ side' = [side EXCEPT !.deleting = c]
  /\ UNCHANGED <<chats, made, edits, edited>>

SideCancels ==
  /\ \/ side.adding /\ side' = [side EXCEPT !.adding = FALSE]
     \/ side.editing # NoChat /\ side' = [side EXCEPT !.editing = NoChat]
     \/ side.deleting # NoChat /\ side' = [side EXCEPT !.deleting = NoChat]
  /\ UNCHANGED <<chats, made, edits, edited>>

Begin(kind, c) ==
  /\ edited < MaxEdits /\ edited' = edited + 1
  /\ edits' = edits \cup
       {[no |-> edited', kind |-> kind, id |-> c, rows |-> side.rows, here |-> TRUE]}
  /\ UNCHANGED <<chats, made>>

\* createSession() with a model to choose, updateTitle(), confirmDelete(): none
\* locks anything.  The alert closes at the click that confirms it.
CreateClick == side.adding /\ Begin("create", NoChat) /\ UNCHANGED side

RenameClick == side.editing # NoChat /\ Begin("rename", side.editing) /\ UNCHANGED side

DeleteClick ==
  /\ side.deleting # NoChat /\ Begin("delete", side.deleting)
  /\ side' = [side EXCEPT !.deleting = NoChat]

\* The new session goes to the top, and becomes the one that is shown.
Created(e, c) ==
  /\ e.kind = "create" /\ c \in ChatIds \ made /\ edits' = edits \ {e}
  /\ \E title \in {"plain", "own"} :
       /\ made' = made \cup {c}
       /\ chats' = [x \in DOMAIN chats \cup {c} |->
                      IF x = c THEN [title |-> title, log |-> <<>>] ELSE chats[x]]
       /\ side' = IF e.here
                  THEN [side EXCEPT !.adding = FALSE,
                          !.rows = [x \in DOMAIN @ \cup {c} |-> IF x = c THEN title ELSE @[x]]]
                  ELSE side
  /\ UNCHANGED edited

Retitled(rows, c, title) == [x \in DOMAIN rows |-> IF x = c THEN title ELSE rows[x]]

\* The answer closes the field of whatever row is being renamed by then.
Renamed(e) ==
  /\ e.kind = "rename" /\ e.id \in DOMAIN chats /\ edits' = edits \ {e}
  /\ chats' = [chats EXCEPT ![e.id].title = "own"]
  /\ side' = IF e.here
             THEN [side EXCEPT !.editing = NoChat, !.rows = Retitled(@, e.id, "own")]
             ELSE side
  /\ UNCHANGED <<made, edited>>

\* The list becomes the one the deletion was begun with, less the row.
Deleted(e) ==
  /\ e.kind = "delete" /\ edits' = edits \ {e}
  /\ chats' = [x \in DOMAIN chats \ {e.id} |-> chats[x]]
  /\ side' = IF e.here
             THEN [side EXCEPT !.deleting = NoChat,
                               !.rows = [x \in DOMAIN e.rows \ {e.id} |-> e.rows[x]]]
             ELSE side
  /\ UNCHANGED <<made, edited>>

EditFails(e) ==
  /\ edits' = edits \ {e}
  /\ side' = IF e.here /\ e.kind = "delete" THEN [side EXCEPT !.deleting = NoChat] ELSE side
  /\ UNCHANGED <<chats, made, edited>>

\* What the listeners do with the events; nobody listens while it is closed.
HearsGenerating(c, on) ==
  side' = IF side.mounted
          THEN [side EXCEPT !.generating = IF on THEN @ \cup {c} ELSE @ \ {c}]
          ELSE side

HearsTitle(c) ==
  side' = IF side.mounted
          THEN [side EXCEPT !.generating = @ \ {c},
                            !.rows = IF c \in DOMAIN chats
                                     THEN Retitled(@, c, chats[c].title) ELSE @]
          ELSE side
=============================================================================
