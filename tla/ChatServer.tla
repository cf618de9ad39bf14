----------------------------- MODULE ChatServer -----------------------------
(***************************************************************************)
(* The chat sessions of one transcript as the service keeps them: a title  *)
(* and the roles of the messages in order.  The handlers read a session,   *)
(* talk to the language model, and save the whole session they had read.   *)
(***************************************************************************)
EXTENDS Naturals, Sequences, FiniteSets

CONSTANTS ChatIds, NoChat

ASSUME ChatAssumption == ChatIds # {}

VARIABLES chats,  \* the sessions, [id |-> [title, log]]
          made    \* ids ever given: an id is never given again

ChatRoles == {"user", "assistant"}

\* plain: the session's first title, or the start of its first question, which
\* is what isDefaultTitle() accepts; own: given by the user; auto: generated.
Titles == {"plain", "own", "auto"}

CountOf(log, role) == Cardinality({i \in DOMAIN log : log[i] = role})

ServerType ==
  /\ made \subseteq ChatIds /\ DOMAIN chats \subseteq made
  /\ \A c \in DOMAIN chats :
       chats[c].title \in Titles /\ chats[c].log \in Seq(ChatRoles)

\* SendChatMessage() up to its answer: the first question becomes the title.
QuestionKept(c) ==
  LET log == Append(chats[c].log, "user") IN
  chats' = [chats EXCEPT ![c] =
    [title |-> IF CountOf(log, "user") = 1 THEN "plain" ELSE @.title,
     log |-> log]]

\* persistResponse(): the session is saved as it was read when the question
\* came, so a title given since then is lost.
AnswerKept(c, read) ==
  chats' = [chats EXCEPT ![c] = [title |-> read, log |-> Append(@.log, "assistant")]]

\* AutoGenerateChatTitle() after the model's answer: Save() of a session that
\* has been deleted in the meantime stores it again.
TitleKept(c) ==
  chats' = [x \in DOMAIN chats \cup {c} |->
              IF x # c THEN chats[x]
              ELSE [title |-> "auto", log |-> IF c \in DOMAIN chats THEN chats[c].log ELSE <<>>]]
=============================================================================
