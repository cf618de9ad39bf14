----------------------------- MODULE ChatThread -----------------------------
(***************************************************************************)
(* The conversation on the screen (ChatInterface): the session it follows, *)
(* the messages shown, the loads that fill them, one question at a time,   *)
(* and the title it asks for after the second answer.  A question outlives *)
(* the component that sent it: its answer then changes nothing on the      *)
(* screen, but a title is asked for all the same.                          *)
(***************************************************************************)
EXTENDS ChatServer

CONSTANTS MaxAsked,     \* bounds: loads of one kind under way,
          MaxQuestions  \* and questions sent

ASSUME ThreadAssumption == MaxAsked \in Nat /\ MaxQuestions \in Nat

VARIABLES
  thread,     \* the component's state and its loads
  questions,  \* sendMessage() under way; here: its component is still mounted
  titles,     \* requests for a title
  sent        \* questions so far

\* No component.  list: the ids of its sessions; following: activeSession.
NoThread ==
  [mounted |-> FALSE, list |-> {}, following |-> NoChat, log |-> <<>>,
   busy |-> FALSE, models |-> NoChat,
   lists |-> [c \in ChatIds |-> 0], histories |-> [c \in ChatIds |-> 0]]

ThreadType ==
  /\ thread \in [mounted: BOOLEAN, list: SUBSET ChatIds,
                 following: ChatIds \cup {NoChat}, log: Seq(ChatRoles),
                 busy: BOOLEAN, models: ChatIds \cup {NoChat},
                 lists: [ChatIds -> 0..MaxAsked], histories: [ChatIds -> 0..MaxAsked]]
  /\ \A q \in questions : q \in
       [no: 1..MaxQuestions, to: ChatIds, second: BOOLEAN, here: BOOLEAN, read: Titles,
        step: {"asked", "stored", "streaming", "kept"}]
  /\ \A t \in titles : t \in
       [no: 1..MaxQuestions, to: ChatIds, plain: BOOLEAN,
        step: {"timer", "asked", "writing", "written", "failed"}]
  /\ sent \in 0..MaxQuestions
  /\ thread.busy => \E q \in questions : q.here

More(asked, n) == IF asked + n > MaxAsked THEN MaxAsked ELSE asked + n

\* loadChatSession(): the messages go before they are asked for.
Reloading(t, c) == [t EXCEPT !.log = <<>>, !.histories[c] = More(@, 1)]

FollowsFirst(t, chosen) ==
  IF t.following # NoChat THEN t ELSE Reloading([t EXCEPT !.following = chosen], chosen)

\* The effect on activeSessionId, once the component is rendered.  A session
\* that is not in the list is loaded by itself, with the list, and forgotten;
\* forgetting another one runs the effect once more.
Following(t, chosen) ==
  IF t.following = chosen THEN t
  ELSE IF chosen \in t.list
  THEN Reloading([t EXCEPT !.following = chosen], chosen)
  ELSE LET times == IF t.following = NoChat THEN 1 ELSE 2 IN
       [t EXCEPT !.following = NoChat, !.log = <<>>,
                 !.histories[chosen] = More(@, times), !.lists[chosen] = More(@, times)]

Mounted(chosen) == Following([NoThread EXCEPT !.mounted = TRUE, !.models = chosen], chosen)

Away(qs) == {[q EXCEPT !.here = FALSE] : q \in qs}

\* loadChatModels() of the first render, and the list it goes on to ask for.
ModelsAnswered(chosen) ==
  /\ thread.models # NoChat
  /\ thread' = [thread EXCEPT !.models = NoChat, !.lists[thread.models] = More(@, 1)]
  /\ UNCHANGED <<chats, made, questions, titles, sent>>

\* The models, or a list, could not be had: the sessions are emptied.
ModelsRefused(chosen) ==
  /\ thread.models # NoChat
  /\ thread' = Following([thread EXCEPT !.models = NoChat, !.list = {}], chosen)
  /\ UNCHANGED <<chats, made, questions, titles, sent>>

ListRefused(p, chosen) ==
  /\ thread.lists[p] > 0
  /\ thread' = Following([thread EXCEPT !.lists[p] = @ - 1, !.list = {}], chosen)
  /\ UNCHANGED <<chats, made, questions, titles, sent>>

\* loadChatSessions() asked for while p was the session chosen.
ListAnswered(p, chosen) ==
  /\ thread.lists[p] > 0
  /\ LET t == [thread EXCEPT !.lists[p] = @ - 1, !.list = DOMAIN chats]
         picked == IF p \in DOMAIN chats
                   THEN Reloading([t EXCEPT !.following = p], p) ELSE t
     IN thread' = Following(picked, chosen)
  /\ UNCHANGED <<chats, made, questions, titles, sent>>

HistoryAnswered(c) ==
  /\ thread.histories[c] > 0
  /\ \E log \in {<<>>} \cup {chats[x].log : x \in DOMAIN chats \cap {c}} :
       thread' = [thread EXCEPT !.histories[c] = @ - 1, !.log = log]
  /\ UNCHANGED <<chats, made, questions, titles, sent>>

\* sendMessage(): second is counted over the messages shown at this moment.
Ask ==
  /\ thread.following # NoChat /\ ~thread.busy /\ sent < MaxQuestions
  /\ sent' = sent + 1
  /\ questions' = questions \cup
       {[no |-> sent', to |-> thread.following, here |-> TRUE, read |-> "plain", step |-> "asked",
         second |-> \A role \in ChatRoles : CountOf(thread.log, role) = 1]}
  /\ thread' = [thread EXCEPT !.log = Append(@, "user"), !.busy = TRUE]
  /\ UNCHANGED <<chats, made, titles>>

QuestionGoes(q, step) == questions' = (questions \ {q}) \cup {[q EXCEPT !.step = step]}

QuestionStored(q) ==
  /\ q.step = "asked" /\ q.to \in DOMAIN chats
  /\ QuestionKept(q.to)
  /\ questions' = (questions \ {q}) \cup
       {[q EXCEPT !.step = "stored", !.read = chats'[q.to].title]}
  /\ UNCHANGED <<made, thread, titles, sent>>

AnswerBegins(q) ==
  /\ q.step = "stored"
  /\ QuestionGoes(q, "streaming")
  /\ thread' = IF q.here THEN [thread EXCEPT !.log = Append(@, "assistant")] ELSE thread
  /\ UNCHANGED <<chats, made, titles, sent>>

AnswerStored(q) ==
  /\ q.step = "streaming" /\ q.to \in DOMAIN chats
  /\ AnswerKept(q.to, q.read) /\ QuestionGoes(q, "kept")
  /\ UNCHANGED <<made, thread, titles, sent>>

\* The model failed or the session is gone: what was said so far is not kept,
\* and the answer ends like any other.
AnswerUnstored(q) ==
  /\ q.step = "streaming" /\ QuestionGoes(q, "kept")
  /\ UNCHANGED <<chats, made, thread, titles, sent>>

\* The stream is done; the title is asked for half a second later.
AnswerEnds(q) ==
  /\ q.step = "kept"
  /\ questions' = questions \ {q}
  /\ thread' = IF q.here THEN [thread EXCEPT !.busy = FALSE] ELSE thread
  /\ titles' = IF q.second
               THEN titles \cup {[no |-> q.no, to |-> q.to, plain |-> FALSE, step |-> "timer"]}
               ELSE titles
  /\ UNCHANGED <<chats, made, sent>>

\* Refused, or the connection is lost: the last message shown is taken away.
AskFails(q) ==
  /\ questions' = questions \ {q}
  /\ thread' = IF q.here
               THEN [thread EXCEPT !.busy = FALSE,
                                   !.log = IF @ = <<>> THEN @ ELSE SubSeq(@, 1, Len(@) - 1)]
               ELSE thread
  /\ UNCHANGED <<chats, made, titles, sent>>

TitleGoes(t, step) == titles' = (titles \ {t}) \cup {[t EXCEPT !.step = step]}

\* AutoGenerateChatTitle(): a title of the user's is answered as it is.
TitleRead(t) ==
  /\ t.step = "asked" /\ t.to \in DOMAIN chats
  /\ LET plain == chats[t.to].title = "plain" IN
     titles' = (titles \ {t}) \cup
       {[t EXCEPT !.plain = plain, !.step = IF plain THEN "writing" ELSE "written"]}
  /\ UNCHANGED <<chats, made, thread, questions, sent>>

TitleWritten(t) ==
  /\ t.step = "writing"
  /\ TitleKept(t.to) /\ TitleGoes(t, "written")
  /\ UNCHANGED <<made, thread, questions, sent>>

TitleRefused(t) ==
  /\ t.step \in {"asked", "writing"} /\ TitleGoes(t, "failed")
  /\ UNCHANGED <<chats, made, thread, questions, sent>>
=============================================================================
