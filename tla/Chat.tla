-------------------------------- MODULE Chat --------------------------------
(***************************************************************************)
(* The chat panel beside a transcript (ChatSidePanel): the list of         *)
(* sessions, always there while the panel is open, and the conversation    *)
(* that is mounted while a session is chosen.  Which session is chosen     *)
(* survives the closing of the panel.                                      *)
(***************************************************************************)
EXTENDS ChatThread, ChatSidebar

VARIABLES opened,   \* the panel is open
          chosen    \* activeSessionId

serverVars == <<chats, made>>
threadVars == <<thread, questions, titles, sent>>
sideVars == <<side, edits, edited>>
panelVars == <<opened, chosen>>
chatVars == <<serverVars, threadVars, sideVars, panelVars>>

ChatType ==
  /\ ServerType /\ ThreadType /\ SideType
  /\ opened \in BOOLEAN /\ chosen \in ChatIds \cup {NoChat}
  /\ side.mounted = opened
  /\ thread.mounted = (opened /\ chosen # NoChat)

\* One session is there, new or with one exchange.
ChatInit ==
  /\ made = {CHOOSE c \in ChatIds : TRUE}
  /\ \E log \in {<<>>, <<"user", "assistant">>}, title \in {"plain", "own"} :
       chats = [c \in made |-> [title |-> title, log |-> log]]
  /\ thread = NoThread /\ questions = {} /\ titles = {} /\ sent = 0
  /\ side = NoSide /\ edits = {} /\ edited = 0
  /\ opened = FALSE /\ chosen = NoChat

ThreadFor(c) ==
  IF c = NoChat THEN NoThread
  ELSE IF thread.mounted THEN Following(thread, c) ELSE Mounted(c)

OpenPanel ==
  /\ ~opened /\ opened' = TRUE
  /\ side' = SideMounted /\ thread' = ThreadFor(chosen)
  /\ UNCHANGED <<serverVars, questions, titles, sent, edits, edited, chosen>>

ClosePanel ==
  /\ opened /\ opened' = FALSE
  /\ side' = NoSide /\ thread' = NoThread
  /\ questions' = Away(questions) /\ edits' = Left(edits)
  /\ UNCHANGED <<serverVars, titles, sent, edited, chosen>>

\* A row is clicked; the list is out of sight while a session is chosen.
SelectSession ==
  /\ opened /\ chosen = NoChat /\ NothingOpen
  /\ \E c \in DOMAIN side.rows : chosen' = c /\ thread' = ThreadFor(c)
  /\ UNCHANGED <<serverVars, questions, titles, sent, sideVars, opened>>

BackToList ==
  /\ opened /\ chosen # NoChat /\ chosen' = NoChat
  /\ thread' = NoThread /\ questions' = Away(questions)
  /\ UNCHANGED <<serverVars, titles, sent, sideVars, opened>>

ThreadStep ==
  /\ thread.mounted
  /\ \/ ModelsAnswered(chosen)
     \/ ModelsRefused(chosen)
     \/ \E c \in ChatIds : \/ ListAnswered(c, chosen)
                           \/ ListRefused(c, chosen)
                           \/ HistoryAnswered(c)
     \/ Ask
  /\ UNCHANGED <<sideVars, panelVars>>

QuestionStep ==
  /\ \E q \in questions : \/ QuestionStored(q) \/ AnswerBegins(q) \/ AnswerStored(q)
                          \/ AnswerUnstored(q) \/ AnswerEnds(q) \/ AskFails(q)
  /\ UNCHANGED <<sideVars, panelVars>>

TitleServed ==
  /\ \E t \in titles : TitleRead(t) \/ TitleWritten(t) \/ TitleRefused(t)
  /\ UNCHANGED <<sideVars, panelVars>>

TitleBegins(t) ==
  /\ t.step = "timer" /\ TitleGoes(t, "asked") /\ HearsGenerating(t.to, TRUE)
  /\ UNCHANGED <<serverVars, thread, questions, sent, edits, edited, panelVars>>

TitleArrives(t) ==
  /\ t.step = "written" /\ titles' = titles \ {t} /\ HearsTitle(t.to)
  /\ UNCHANGED <<serverVars, thread, questions, sent, edits, edited, panelVars>>

\* The finally of the request.
TitleFailed(t) ==
  /\ t.step = "failed" /\ titles' = titles \ {t} /\ HearsGenerating(t.to, FALSE)
  /\ UNCHANGED <<serverVars, thread, questions, sent, edits, edited, panelVars>>

TitleStep == \E t \in titles : TitleBegins(t) \/ TitleArrives(t) \/ TitleFailed(t)

\* What the user does in the list, and what it loads.
SideStep ==
  /\ \/ RowsArrive
     \/ chosen = NoChat /\ (SideOpens \/ SideCancels \/ CreateClick \/ RenameClick \/ DeleteClick)
  /\ UNCHANGED <<threadVars, panelVars>>

EditStep ==
  /\ \E e \in edits : Renamed(e) \/ Deleted(e) \/ EditFails(e)
  /\ UNCHANGED <<threadVars, panelVars>>

\* handleSessionSelect() of a creation, whenever it is answered.
CreateStep ==
  /\ \E e \in edits, c \in ChatIds :
       /\ Created(e, c) /\ chosen' = c
       /\ thread' = IF opened THEN ThreadFor(c) ELSE NoThread
  /\ UNCHANGED <<questions, titles, sent, opened>>

ChatNext ==
  \/ OpenPanel \/ ClosePanel \/ SelectSession \/ BackToList
  \/ ThreadStep \/ QuestionStep \/ TitleServed \/ TitleStep
  \/ SideStep \/ EditStep \/ CreateStep

ChatSpec == ChatInit /\ [][ChatNext]_chatVars

-----------------------------------------------------------------------------
\* A question goes to the session the panel shows: after a creation answered
\* late and lists asked for under another session, the conversation follows
\* the session that is chosen or none (ChatInterface.tsx:225).
PostedWhereTyped == thread.following \in {chosen, NoChat}

\* A row shows that its title is being generated only while it is: the mark
\* goes when the request ends, well or not (ChatInterface.tsx:410).
SpinnerIsOurs == side.generating \subseteq {t.to : t \in {u \in titles : u.step # "timer"}}

\* What the chat shows is about the session and the requests it is for.
ChatShowsItsOwn == PostedWhereTyped /\ SpinnerIsOurs
=============================================================================
