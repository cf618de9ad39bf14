-------------------------- MODULE ReviewSyncProofs --------------------------
(***************************************************************************)
(* Theorems about ReviewSync for any finite set of saves and any formats.  *)
(***************************************************************************)
EXTENDS ReviewSync, FiniteSetTheorems, SequenceTheorems, TLAPS

(* Histories: sequences in which every save occurs at most once. *)

LEMMA HistoryType ==
  ASSUME NEW h \in Histories
  PROVE  /\ h \in Seq(Saves) /\ h \in [1 .. Len(h) -> Saves]
         /\ Revision(h) = Len(h) /\ Len(h) \in Numbers /\ Len(h) \in Nat
         /\ Reviews(h) = {h[i] : i \in 1 .. Len(h)} /\ Reviews(h) \subseteq Saves
         /\ \A i \in 1 .. Len(h) : h[i] \in Saves /\ h[i] \in Reviews(h)
<1>0. Cardinality(Saves) \in Nat
  BY SavesAssumption, FS_CardinalityType
<1>1. PICK n \in 0 .. Cardinality(Saves) : h \in [1 .. n -> Saves]
  BY DEF Histories
<1>2. h \in Seq(Saves)
  BY <1>0, <1>1, SeqDef
<1>3. Len(h) = n /\ DOMAIN h = 1 .. Len(h) /\ h \in [1 .. Len(h) -> Saves]
  BY <1>0, <1>1, <1>2, LenProperties
<1>4. Reviews(h) = {h[i] : i \in 1 .. Len(h)}
  BY <1>3 DEF Reviews, ToSet
<1> QED BY <1>0, <1>2, <1>3, <1>4 DEF Revision, Numbers

LEMMA EmptyHistory == <<>> \in Histories /\ Len(<<>>) = 0 /\ Reviews(<<>>) = {}
<1>0. Cardinality(Saves) \in Nat
  BY SavesAssumption, FS_CardinalityType
<1>1. <<>> \in [1 .. 0 -> Saves]
  OBVIOUS
<1>2. <<>> \in Histories
  BY <1>0, <1>1 DEF Histories
<1>3. Len(<<>>) = 0
  BY EmptySeq
<1> QED BY <1>2, <1>3, HistoryType

\* A save is appended once: the history stays within its bound.
LEMMA AppendHistory ==
  ASSUME NEW h \in Histories, NEW c \in Saves, c \notin Reviews(h),
         \A i, k \in 1 .. Len(h) : h[i] = h[k] => i = k
  PROVE  /\ Append(h, c) \in Histories
         /\ Len(Append(h, c)) = Len(h) + 1
         /\ \A i \in 1 .. Len(h) : Append(h, c)[i] = h[i]
         /\ Append(h, c)[Len(h) + 1] = c
         /\ Reviews(Append(h, c)) = Reviews(h) \cup {c}
<1> DEFINE n == Len(h)
           t == Append(h, c)
<1>0. Cardinality(Saves) \in Nat /\ h \in Seq(Saves) /\ n \in Nat
  BY SavesAssumption, FS_CardinalityType, HistoryType
<1>1. /\ t \in Seq(Saves) /\ Len(t) = n + 1 /\ t[n + 1] = c
      /\ \A i \in 1 .. n : t[i] = h[i]
  BY <1>0, AppendProperties
<1>2. n + 1 <= Cardinality(Saves)
  <2>1. h \in Injection(1 .. n, Saves \ {c})
    BY HistoryType DEF Injection, IsInjective
  <2>2. IsFiniteSet(Saves \ {c}) /\ Cardinality(Saves \ {c}) = Cardinality(Saves) - 1
    BY SavesAssumption, FS_RemoveElement
  <2>3. Cardinality(1 .. n) <= Cardinality(Saves \ {c})
    BY <2>1, <2>2, FS_Injection
  <2>4. Cardinality(1 .. n) = n
    <3>1. Cardinality(1 .. n) = IF 1 > n THEN 0 ELSE n - 1 + 1
      <4>1. 1 \in Int /\ n \in Int
        BY <1>0
      <4> QED BY <4>1, FS_Interval
    <3> QED BY <1>0, <3>1
  <2> QED BY <1>0, <2>2, <2>3, <2>4
<1>3. t \in Histories
  <2>1. t \in [1 .. n + 1 -> Saves]
    BY <1>0, <1>1, LenProperties
  <2> QED BY <1>0, <1>2, <2>1 DEF Histories
<1>4. Reviews(t) = Reviews(h) \cup {c}
  <2>1. /\ Reviews(t) = {t[i] : i \in 1 .. n + 1}
        /\ Reviews(h) = {h[i] : i \in 1 .. n}
    BY <1>1, <1>3, HistoryType
  <2>2. ASSUME NEW x PROVE x \in Reviews(t) <=> x \in Reviews(h) \/ x = c
    BY <1>0, <1>1, <2>1
  <2> QED BY <2>2
<1> QED BY <1>1, <1>3, <1>4

LEMMA PrefixPointwise ==
  ASSUME NEW g \in Histories, NEW h \in Histories
  PROVE  IsPrefix(g, h) <=>
           Len(g) <= Len(h) /\ \A i \in 1 .. Len(g) : g[i] = h[i]
<1>0. g \in Seq(Saves) /\ h \in Seq(Saves) /\ Len(g) \in Nat /\ Len(h) \in Nat
  BY HistoryType
<1>1. SubSeq(g, 1, Len(g)) = g
  BY <1>0, SubSeqFull
<1>2. ASSUME Len(g) <= Len(h)
      PROVE  g = SubSeq(h, 1, Len(g)) <=> \A i \in 1 .. Len(g) : g[i] = h[i]
  <2>1. /\ SubSeq(h, 1, Len(g)) \in Seq(Saves)
        /\ Len(SubSeq(h, 1, Len(g))) = Len(g)
        /\ \A i \in 1 .. Len(g) : SubSeq(h, 1, Len(g))[i] = h[i]
    BY <1>0, <1>2, SubSeqProperties
  <2> QED BY <1>0, <2>1, SeqEqual
<1> QED BY <1>1, <1>2 DEF IsPrefix

\* Reports of which the worker published both are ordered by their numbers.
LEMMA PrefixFacts ==
  ASSUME NEW g \in Histories, NEW h \in Histories, NEW p \in Histories,
         IsPrefix(g, p), IsPrefix(h, p)
  PROVE  /\ Len(g) <= Len(p) /\ Reviews(g) \subseteq Reviews(p)
         /\ IsPrefix(p, p)
         /\ Len(g) <= Len(h) => IsPrefix(g, h)
         /\ Len(g) <= Len(h) => Reviews(g) \subseteq Reviews(h)
         /\ Len(g) = Len(h) => g = h
<1>0. \A x \in {g, h, p} : /\ x \in Seq(Saves) /\ Len(x) \in Nat
                           /\ Reviews(x) = {x[i] : i \in 1 .. Len(x)}
  BY HistoryType
<1>1. Len(g) <= Len(p) /\ IsPrefix(p, p) /\ (Len(g) <= Len(h) => IsPrefix(g, h))
  BY <1>0, PrefixPointwise
<1>2. \A x, y \in {g, h, p} : IsPrefix(x, y) => Reviews(x) \subseteq Reviews(y)
  BY <1>0, PrefixPointwise
<1>3. Len(g) = Len(h) => g = h
  BY <1>0, <1>1, PrefixPointwise, SeqEqual
<1> QED BY <1>1, <1>2, <1>3

LEMMA PrefixAppend ==
  ASSUME NEW g \in Histories, NEW h \in Histories, NEW c \in Saves,
         Append(h, c) \in Histories, IsPrefix(g, h)
  PROVE  IsPrefix(g, Append(h, c))
<1>1. h \in Seq(Saves) /\ Len(g) \in Nat /\ Len(h) \in Nat
  BY HistoryType
<1>2. /\ Len(Append(h, c)) = Len(h) + 1
      /\ \A i \in 1 .. Len(h) : Append(h, c)[i] = h[i]
  BY <1>1, AppendProperties
<1>3. Len(g) <= Len(h) /\ \A i \in 1 .. Len(g) : g[i] = h[i]
  BY PrefixPointwise
<1>4. Len(g) <= Len(Append(h, c)) /\ \A i \in 1 .. Len(g) : g[i] = Append(h, c)[i]
  BY <1>1, <1>2, <1>3
<1> QED BY <1>4, PrefixPointwise
-----------------------------------------------------------------------------
(***************************************************************************)
(* The inductive invariant.  What a reviewer and a reader see is right     *)
(* only because of where every request, answer and download stands:        *)
(* review_lock on the worker keeps the pointer still under a save, and the *)
(* station's keeps one answer awaited at a time.                           *)
(***************************************************************************)
\* A request anywhere on its way was sent by a reviewer who saved, so what it
\* expects is settled.
RequestsAreSaves ==
  \A c \in Saves :
    \/ c \in Reviews(published)
    \/ \E l \in inbox : l.request = c
    \/ saving # NoSaving /\ saving.letter.request = c
    \/ handler # NoHandler /\ handler.request = c
    => save[c].outcome # "new"

\* review_lock: the revision in the making stays the next one.
SavingFollowsPointer ==
  saving # NoSaving =>
    /\ saving.base = published
    /\ saving.letter.request \notin Reviews(published)
    /\ save[saving.letter.request].expected = Revision(published)
    /\ saving.at = "written" => NewRevision \in bundles

\* The station waits for one answer: its letter is in the inbox, or being
\* worked on, or answered.
OneAwaited ==
  /\ \A l \in inbox : l.awaited =>
       /\ handler = [at |-> "posting", request |-> l.request]
       /\ reply = NoReply
       /\ saving # NoSaving => ~saving.letter.awaited
  /\ saving # NoSaving /\ saving.letter.awaited =>
       /\ handler = [at |-> "posting", request |-> saving.letter.request]
       /\ reply = NoReply
  /\ reply # NoReply => handler.at = "posting"

\* A report on its way to the station is a published one, and contains the
\* save it acknowledges; its documents on the shelf are its own.
ReportsFollowPointer ==
  /\ reply.kind = "ok" =>
       IsPrefix(reply.result, published) /\ handler.request \in Reviews(reply.result)
  /\ handler.at = "archiving" =>
       /\ IsPrefix(handler.result, published)
       /\ ~handler.conflict => handler.request \in Reviews(handler.result)
       /\ \A f \in handler.done : shelf[<<Revision(handler.result), f>>] = {handler.result}

IInv ==
  /\ TypeOK
  /\ OnTopOfSeen
  /\ PointerIsWhole /\ AcknowledgedIsCached /\ CacheIsPublished
  /\ DocumentsMatchReport
  /\ RequestsAreSaves
  /\ SavingFollowsPointer
  /\ OneAwaited
  /\ ReportsFollowPointer

-----------------------------------------------------------------------------
(* What the types say about the variants of a record. *)

LEMMA Variants ==
  ASSUME TypeOK
  PROVE  /\ handler.at = "idle" <=> handler = NoHandler
         /\ handler.at \in {"idle", "posting", "fetching", "archiving"}
         /\ handler # NoHandler => handler.request \in Saves
         /\ handler.at = "posting" =>
              handler = [at |-> "posting", request |-> handler.request]
         /\ handler.at = "archiving" =>
              handler \in [at : {"archiving"}, request : Saves, result : Histories,
                           done : SUBSET Formats, conflict : BOOLEAN]
         /\ saving.at = "none" <=> saving = NoSaving
         /\ saving.at \in {"none", "writing", "written"}
         /\ saving # NoSaving =>
              saving \in [at : {"writing", "written"}, letter : Letters, base : Histories]
         /\ reply.kind = "none" <=> reply = NoReply
         /\ reply.kind \in {"none", "ok", "409", "503"}
         /\ reply.kind = "ok" => reply.result \in Histories
BY DEF TypeOK, Handlers, Savings, Replies, NoHandler, NoSaving, NoReply

\* No save is published twice.
LEMMA PublishedOnce ==
  ASSUME TypeOK, OnTopOfSeen
  PROVE  \A i, k \in 1 .. Len(published) : published[i] = published[k] => i = k
<1>1. published \in Histories /\ Revision(published) = Len(published)
      /\ Len(published) \in Nat
  BY HistoryType DEF TypeOK
<1>2. ASSUME NEW i \in 1 .. Len(published), NEW k \in 1 .. Len(published),
             published[i] = published[k]
      PROVE  i = k
  <2>1. i - 1 = k - 1
    BY <1>1, <1>2 DEF OnTopOfSeen
  <2> QED BY <1>1, <2>1
<1> QED BY <1>2

LEMMA InitIInv == Init => IInv
<1> SUFFICES ASSUME Init PROVE IInv
  OBVIOUS
<1>0. Cardinality(Saves) \in Nat /\ 0 \in Numbers
  BY SavesAssumption, FS_CardinalityType DEF Numbers
<1>1. TypeOK
  BY <1>0, EmptyHistory DEF Init, TypeOK, Savings, Replies, Handlers, Outcomes
<1>2. IsPrefix(<<>>, <<>>)
  BY EmptyHistory, PrefixPointwise
<1>3. OnTopOfSeen
  BY EmptyHistory DEF Init, OnTopOfSeen, Revision
<1>4. DocumentsMatchReport
  <2>1. \A f \in Formats : shelf[<<0, f>>] = {<<>>}
    BY <1>0 DEF Init
  <2> QED BY <2>1, EmptyHistory DEF Init, DocumentsMatchReport, Revision
<1> QED
  BY <1>1, <1>2, <1>3, <1>4, EmptyHistory
  DEF Init, IInv, PointerIsWhole, AcknowledgedIsCached, CacheIsPublished, RequestsAreSaves,
      SavingFollowsPointer, OneAwaited, ReportsFollowPointer, NoReply, NoHandler, NoSaving

\* A reviewer's page changes what it expects only before its first request.
LEMMA ReviewerIInv ==
  ASSUME IInv, NEW c \in Saves, Save(c) \/ SaveAgain(c)
  PROVE  IInv'
<1>1. /\ save' \in [Saves -> [expected : Numbers, outcome : Outcomes]]
      /\ \A d \in Saves \ {c} : save'[d] = save[d]
      /\ save'[c].outcome = "waiting"
      /\ save[c].outcome = "new" \/ save'[c].expected = save[c].expected
  <2>0. save \in [Saves -> [expected : Numbers, outcome : Outcomes]]
    BY DEF IInv, TypeOK
  <2>1. CASE Save(c)
    <3>1. PICK seen \in 0 .. Revision(cache) :
            save' = [save EXCEPT ![c] = [expected |-> seen, outcome |-> "waiting"]]
      BY <2>1 DEF Save
    <3>2. seen \in Numbers
      <4>1. Revision(cache) \in Numbers /\ Cardinality(Saves) \in Nat
        BY HistoryType, SavesAssumption, FS_CardinalityType DEF IInv, TypeOK
      <4> QED BY <4>1 DEF Numbers
    <3> QED BY <2>0, <2>1, <3>1, <3>2 DEF Save, Outcomes
  <2>2. CASE SaveAgain(c)
    BY <2>0, <2>2 DEF SaveAgain, Outcomes
  <2> QED BY <2>1, <2>2
<1>2. UNCHANGED <<published, bundles, saving, inbox, reply, handler, cache, shelf>>
  BY DEF Save, SaveAgain, workerVars, stationVars
<1>3. TypeOK'
  BY <1>1, <1>2 DEF IInv, TypeOK
<1>4. \A d \in Reviews(published) : save'[d].expected = save[d].expected
  <2>1. Reviews(published) \subseteq Saves
    BY HistoryType DEF IInv, TypeOK
  <2> QED BY <1>1, <2>1 DEF IInv, RequestsAreSaves
<1>5. OnTopOfSeen'
  BY <1>2, <1>4, HistoryType DEF IInv, TypeOK, OnTopOfSeen, Revision
<1>6. RequestsAreSaves'
  BY <1>1, <1>2 DEF IInv, RequestsAreSaves
<1>7. SavingFollowsPointer'
  <2>1. saving # NoSaving => saving.letter.request \in Saves
    BY Variants DEF IInv, Letters
  <2> QED BY <1>1, <1>2, <2>1 DEF IInv, RequestsAreSaves, SavingFollowsPointer, NewRevision
<1>8. AcknowledgedIsCached'
  BY <1>1, <1>2 DEF IInv, AcknowledgedIsCached
<1>9. (PointerIsWhole /\ CacheIsPublished /\ DocumentsMatchReport /\ OneAwaited
        /\ ReportsFollowPointer)'
  BY <1>2 DEF IInv, PointerIsWhole, CacheIsPublished, DocumentsMatchReport, OneAwaited,
     ReportsFollowPointer
<1> QED BY <1>3, <1>5, <1>6, <1>7, <1>8, <1>9 DEF IInv

\* The worker takes a letter out of its inbox, or loses them all.
LEMMA BeginReviewIInv ==
  ASSUME IInv, NEW letter \in inbox, BeginReview(letter)
  PROVE  IInv'
<1>0. /\ letter \in Letters /\ letter.request \in Saves /\ letter.awaited \in BOOLEAN
      /\ saving = NoSaving /\ inbox' = inbox \ {letter}
      /\ UNCHANGED <<published, bundles, handler, cache, shelf, save>>
      /\ published \in Histories
      /\ letter.awaited => /\ handler = [at |-> "posting", request |-> letter.request]
                           /\ reply = NoReply
  BY DEF BeginReview, IInv, TypeOK, Letters, stationVars, OneAwaited
<1>1. \A l \in inbox : l.awaited /\ letter.awaited => l = letter
  <2>1. inbox \subseteq Letters
    BY DEF IInv, TypeOK
  <2> QED BY <1>0, <2>1 DEF IInv, OneAwaited, Letters
<1>2. IsPrefix(published, published)
  BY <1>0, PrefixFacts DEF IInv, CacheIsPublished, TypeOK
<1>3. CASE /\ UNCHANGED saving
           /\ \/ reply' = reply
              \/ letter.awaited /\ reply' = [kind |-> "409"]
              \/ /\ letter.awaited /\ reply' = [kind |-> "ok", result |-> published]
                 /\ letter.request \in Reviews(published)
  <2>1. TypeOK'
    BY <1>0, <1>3 DEF IInv, TypeOK, Replies
  <2>2. RequestsAreSaves' /\ SavingFollowsPointer'
    BY <1>0, <1>3 DEF IInv, RequestsAreSaves, SavingFollowsPointer
  <2>3. OneAwaited'
    BY <1>0, <1>1, <1>3 DEF IInv, OneAwaited, NoReply
  <2>4. ReportsFollowPointer'
    BY <1>0, <1>2, <1>3 DEF IInv, ReportsFollowPointer
  <2> QED
    BY <1>0, <2>1, <2>2, <2>3, <2>4
    DEF IInv, OnTopOfSeen, PointerIsWhole, AcknowledgedIsCached, CacheIsPublished,
        DocumentsMatchReport
<1>4. CASE /\ letter.request \notin Reviews(published)
           /\ save[letter.request].expected = Revision(published)
           /\ saving' = [at |-> "writing", letter |-> letter, base |-> published]
           /\ UNCHANGED reply
  <2>1. TypeOK'
    BY <1>0, <1>4 DEF IInv, TypeOK, Savings
  <2>2. RequestsAreSaves' /\ SavingFollowsPointer'
    BY <1>0, <1>4 DEF IInv, RequestsAreSaves, SavingFollowsPointer, NoSaving
  <2>3. OneAwaited'
    BY <1>0, <1>1, <1>4 DEF IInv, OneAwaited
  <2>4. ReportsFollowPointer'
    BY <1>0, <1>4 DEF IInv, ReportsFollowPointer
  <2> QED
    BY <1>0, <2>1, <2>2, <2>3, <2>4
    DEF IInv, OnTopOfSeen, PointerIsWhole, AcknowledgedIsCached, CacheIsPublished,
        DocumentsMatchReport
<1> QED BY <1>0, <1>3, <1>4 DEF BeginReview, Answer

\* Facts about a save in the making that every step of save_review() needs.
LEMMA SavingFacts ==
  ASSUME IInv, saving.at \in {"writing", "written"}
  PROVE  /\ saving # NoSaving
         /\ saving \in [at : {"writing", "written"}, letter : Letters, base : Histories]
         /\ saving.letter.request \in Saves /\ saving.letter.awaited \in BOOLEAN
         /\ saving.base = published /\ published \in Histories
         /\ NewRevision = Append(published, saving.letter.request)
         /\ NewRevision \in Histories /\ NewRevision # published
         /\ Len(NewRevision) = Len(published) + 1 /\ Len(published) \in Nat
         /\ \A i \in 1 .. Len(published) : NewRevision[i] = published[i]
         /\ NewRevision[Len(published) + 1] = saving.letter.request
         /\ Reviews(NewRevision) = Reviews(published) \cup {saving.letter.request}
<1>1. saving # NoSaving
  BY DEF NoSaving
<1>2. /\ saving \in [at : {"writing", "written"}, letter : Letters, base : Histories]
      /\ saving.base = published /\ saving.letter.request \notin Reviews(published)
      /\ published \in Histories
      /\ \A i, k \in 1 .. Len(published) : published[i] = published[k] => i = k
  BY <1>1, Variants, PublishedOnce DEF IInv, SavingFollowsPointer, TypeOK
<1>3. saving.letter.request \in Saves /\ saving.letter.awaited \in BOOLEAN
  BY <1>2 DEF Letters
<1>4. NewRevision = Append(published, saving.letter.request)
  BY <1>2 DEF NewRevision
<1>5. Len(published) \in Nat
  BY <1>2, HistoryType
<1>6. /\ NewRevision \in Histories
      /\ Len(NewRevision) = Len(published) + 1
      /\ \A i \in 1 .. Len(published) : NewRevision[i] = published[i]
      /\ NewRevision[Len(published) + 1] = saving.letter.request
      /\ Reviews(NewRevision) = Reviews(published) \cup {saving.letter.request}
  BY <1>2, <1>3, <1>4, AppendHistory
<1>7. NewRevision # published
  BY <1>5, <1>6
<1> QED BY <1>1, <1>2, <1>3, <1>4, <1>5, <1>6, <1>7

LEMMA WriteBundleIInv ==
  ASSUME IInv, WriteBundle
  PROVE  IInv'
<1>1. /\ saving' \in [at : {"writing", "written"}, letter : Letters, base : Histories]
      /\ saving'.letter = saving.letter /\ saving'.base = saving.base
      /\ saving # NoSaving /\ saving' # NoSaving
      /\ bundles' = bundles \cup {NewRevision} /\ NewRevision \in Histories
      /\ UNCHANGED <<published, inbox, reply, handler, cache, shelf, save>>
  BY SavingFacts DEF WriteBundle, stationVars, NoSaving
<1>2. TypeOK'
  BY <1>1 DEF IInv, TypeOK, Savings
<1>3. RequestsAreSaves' /\ OneAwaited' /\ ReportsFollowPointer'
  BY <1>1 DEF IInv, RequestsAreSaves, OneAwaited, ReportsFollowPointer
<1>4. SavingFollowsPointer'
  BY <1>1 DEF IInv, SavingFollowsPointer, NewRevision
<1> QED
  BY <1>1, <1>2, <1>3, <1>4
  DEF IInv, OnTopOfSeen, PointerIsWhole, AcknowledgedIsCached, CacheIsPublished,
      DocumentsMatchReport

LEMMA PublishIInv ==
  ASSUME IInv, Publish
  PROVE  IInv'
<1> DEFINE c == saving.letter.request
<1>0. /\ saving.at = "written" /\ published' = NewRevision /\ saving' = NoSaving
      /\ UNCHANGED <<bundles, inbox, handler, cache, shelf, save>>
      /\ reply' = IF saving.letter.awaited
                  THEN [kind |-> "ok", result |-> NewRevision] ELSE reply
  BY DEF Publish, Answer, stationVars
<1>1. /\ saving # NoSaving /\ c \in Saves /\ NewRevision \in Histories
      /\ published \in Histories /\ Len(published) \in Nat
      /\ Len(NewRevision) = Len(published) + 1
      /\ \A i \in 1 .. Len(published) : NewRevision[i] = published[i]
      /\ NewRevision[Len(published) + 1] = c
      /\ Reviews(NewRevision) = Reviews(published) \cup {c}
      /\ save[c].expected = Len(published) /\ NewRevision \in bundles
  BY <1>0, SavingFacts DEF IInv, SavingFollowsPointer, Revision
<1>2. TypeOK'
  BY <1>0, <1>1 DEF IInv, TypeOK, Savings, Replies
<1>3. OnTopOfSeen'
  BY <1>0, <1>1 DEF IInv, OnTopOfSeen, Revision
<1>4. RequestsAreSaves' /\ SavingFollowsPointer'
  BY <1>0, <1>1 DEF IInv, RequestsAreSaves, SavingFollowsPointer
<1>5. OneAwaited'
  BY <1>0, <1>1 DEF IInv, OneAwaited, NoReply
<1>6. \A g \in Histories : IsPrefix(g, published) => IsPrefix(g, NewRevision)
  <2>1. NewRevision = Append(published, c)
    BY <1>0, SavingFacts
  <2> QED BY <1>1, <2>1, PrefixAppend
<1>7. CacheIsPublished'
  BY <1>0, <1>6 DEF IInv, TypeOK, CacheIsPublished
<1>8. ReportsFollowPointer'
  <2>1. IsPrefix(NewRevision, NewRevision)
    BY <1>1, <1>6, PrefixFacts DEF IInv, TypeOK, CacheIsPublished
  <2>2. saving.letter.awaited => handler = [at |-> "posting", request |-> c]
    BY <1>1 DEF IInv, OneAwaited
  <2>3. /\ reply.kind = "ok" => reply.result \in Histories
        /\ handler.at = "archiving" => handler.result \in Histories
    BY Variants DEF IInv
  <2> QED BY <1>0, <1>1, <1>6, <2>1, <2>2, <2>3 DEF IInv, ReportsFollowPointer
<1> QED
  BY <1>0, <1>1, <1>2, <1>3, <1>4, <1>5, <1>7, <1>8
  DEF IInv, PointerIsWhole, AcknowledgedIsCached, DocumentsMatchReport

LEMMA FailReviewIInv ==
  ASSUME IInv, FailReview
  PROVE  IInv'
<1>0. /\ saving.at \in {"writing", "written"} /\ saving' = NoSaving
      /\ bundles' = bundles \ {NewRevision} /\ NewRevision # published
      /\ saving # NoSaving /\ saving.letter.awaited \in BOOLEAN
      /\ UNCHANGED <<published, inbox, handler, cache, shelf, save>>
      /\ reply' = IF saving.letter.awaited THEN [kind |-> "503"] ELSE reply
  BY SavingFacts DEF FailReview, Answer, stationVars
<1>1. TypeOK'
  BY <1>0 DEF IInv, TypeOK, Savings, Replies
<1>2. RequestsAreSaves' /\ SavingFollowsPointer'
  BY <1>0 DEF IInv, RequestsAreSaves, SavingFollowsPointer
<1>3. OneAwaited'
  BY <1>0 DEF IInv, OneAwaited, NoReply
<1>4. ReportsFollowPointer' /\ PointerIsWhole'
  BY <1>0 DEF IInv, ReportsFollowPointer, PointerIsWhole
<1> QED
  BY <1>0, <1>1, <1>2, <1>3, <1>4
  DEF IInv, OnTopOfSeen, AcknowledgedIsCached, CacheIsPublished, DocumentsMatchReport

LEMMA WorkerRestartIInv ==
  ASSUME IInv, WorkerRestart
  PROVE  IInv'
<1>0. /\ saving' = NoSaving /\ inbox' = {}
      /\ UNCHANGED <<published, bundles, reply, handler, cache, shelf, save>>
  BY DEF WorkerRestart, stationVars
<1>1. TypeOK'
  BY <1>0 DEF IInv, TypeOK, Savings
<1>2. (RequestsAreSaves /\ SavingFollowsPointer /\ OneAwaited /\ ReportsFollowPointer)'
  BY <1>0 DEF IInv, RequestsAreSaves, SavingFollowsPointer, OneAwaited, ReportsFollowPointer
<1> QED
  BY <1>0, <1>1, <1>2
  DEF IInv, OnTopOfSeen, PointerIsWhole, AcknowledgedIsCached, CacheIsPublished,
      DocumentsMatchReport

-----------------------------------------------------------------------------
(* The station's handler. *)

\* A step of the handler that writes neither report nor shelf, and what it
\* must leave true.
LEMMA HandlerMoves ==
  ASSUME IInv, UNCHANGED <<workerVars, cache, shelf>>, TypeOK',
         \A c \in Saves :
           /\ save'[c].expected = save[c].expected
           /\ save'[c].outcome = "new" <=> save[c].outcome = "new"
           /\ save'[c].outcome = "acknowledged" => save[c].outcome = "acknowledged",
         handler' # NoHandler => save[handler'.request].outcome # "new",
         \A l \in inbox' : save[l.request].outcome # "new",
         OneAwaited', ReportsFollowPointer'
  PROVE  IInv'
<1>1. /\ UNCHANGED <<published, bundles, saving, cache, shelf>>
      /\ Reviews(published) \subseteq Saves
      /\ saving # NoSaving => saving.letter.request \in Saves
  BY HistoryType, Variants DEF workerVars, IInv, TypeOK, Letters
<1>2. OnTopOfSeen'
  BY <1>1, HistoryType DEF IInv, OnTopOfSeen, TypeOK, Revision
<1>3. RequestsAreSaves'
  BY <1>1 DEF IInv, RequestsAreSaves
<1>4. SavingFollowsPointer'
  BY <1>1 DEF IInv, SavingFollowsPointer, NewRevision
<1>5. AcknowledgedIsCached'
  BY <1>1 DEF IInv, AcknowledgedIsCached
<1> QED
  BY <1>1, <1>2, <1>3, <1>4, <1>5
  DEF IInv, PointerIsWhole, CacheIsPublished, DocumentsMatchReport

\* The handler's own request, and every letter, was saved.
LEMMA RequestsSaved ==
  ASSUME IInv
  PROVE  /\ handler # NoHandler => /\ handler.request \in Saves
                                   /\ save[handler.request].outcome # "new"
         /\ \A l \in inbox : l.request \in Saves /\ save[l.request].outcome # "new"
<1>1. \A l \in inbox : l.request \in Saves
  BY DEF IInv, TypeOK, Letters
<1> QED BY <1>1, Variants DEF IInv, RequestsAreSaves

\* An answer told to the reviewer changes nothing but the outcome.
LEMMA OutcomeFacts ==
  ASSUME TypeOK, NEW c \in Saves, NEW outcome \in Outcomes, Outcome(c, outcome)
  PROVE  /\ save' \in [Saves -> [expected : Numbers, outcome : Outcomes]]
         /\ save'[c].outcome = outcome
         /\ \A d \in Saves : save'[d].expected = save[d].expected
         /\ \A d \in Saves \ {c} : save'[d] = save[d]
BY DEF Outcome, TypeOK

LEMMA StartReviewIInv ==
  ASSUME IInv, NEW c \in Saves, StartReview(c)
  PROVE  IInv'
<1>0. /\ handler = NoHandler /\ save[c].outcome = "waiting"
      /\ handler' = [at |-> "posting", request |-> c]
      /\ inbox' = inbox \cup {[request |-> c, awaited |-> TRUE]}
      /\ UNCHANGED <<workerVars, published, bundles, saving, reply, cache, shelf, save>>
  BY DEF StartReview, workerVars
<1>1. TypeOK'
  <2>1. handler' \in Handlers
    BY <1>0 DEF Handlers
  <2>2. inbox' \subseteq Letters
    <3>1. [request |-> c, awaited |-> TRUE] \in Letters
      BY DEF Letters
    <3> QED BY <1>0, <3>1 DEF IInv, TypeOK
  <2> QED BY <1>0, <2>1, <2>2 DEF IInv, TypeOK
<1>2. handler.at = "idle" /\ reply = NoReply
      /\ (\A l \in inbox : ~l.awaited) /\ (saving # NoSaving => ~saving.letter.awaited)
  BY <1>0 DEF IInv, OneAwaited, NoHandler
<1>3. OneAwaited' /\ ReportsFollowPointer'
  BY <1>0, <1>2 DEF OneAwaited, ReportsFollowPointer, NoReply
<1> QED BY <1>0, <1>1, <1>3, RequestsSaved, HandlerMoves

\* A round of the station ends for its reviewer, with its exchange given up.
LEMMA DisownFacts ==
  ASSUME IInv, Disown
  PROVE  /\ inbox' \subseteq Letters
         /\ \A l \in inbox' : /\ ~l.awaited
                              /\ \E k \in inbox : k.request = l.request
         /\ saving' \in Savings
         /\ saving' = NoSaving <=> saving = NoSaving
         /\ saving # NoSaving => /\ saving'.at = saving.at /\ saving'.base = saving.base
                                 /\ saving'.letter.request = saving.letter.request
                                 /\ ~saving'.letter.awaited
         /\ reply' = NoReply /\ UNCHANGED <<published, bundles>>
<1>1. /\ inbox' \subseteq Letters
      /\ \A l \in inbox' : ~l.awaited /\ \E k \in inbox : k.request = l.request
  <2>0. \A l \in inbox : l.request \in Saves /\ l.awaited \in BOOLEAN /\ l \in Letters
    BY DEF IInv, TypeOK, Letters
  <2>1. CASE inbox' = {l \in inbox : ~l.awaited}
    BY <2>0, <2>1
  <2>2. CASE inbox' = {[l EXCEPT !.awaited = FALSE] : l \in inbox}
    BY <2>0, <2>2 DEF Letters
  <2> QED BY <2>1, <2>2 DEF Disown
<1>2. CASE saving = NoSaving
  BY <1>1, <1>2 DEF Disown, Savings
<1>3. CASE saving # NoSaving
  <2>1. saving \in [at : {"writing", "written"}, letter : Letters, base : Histories]
    BY <1>3, Variants DEF IInv
  <2>2. saving' = [saving EXCEPT !.letter = [saving.letter EXCEPT !.awaited = FALSE]]
    BY <1>3 DEF Disown
  <2>3. [saving.letter EXCEPT !.awaited = FALSE] \in Letters
    BY <2>1 DEF Letters
  <2>4. /\ saving' \in [at : {"writing", "written"}, letter : Letters, base : Histories]
        /\ saving'.at = saving.at /\ saving'.base = saving.base
        /\ saving'.letter = [saving.letter EXCEPT !.awaited = FALSE]
    BY <2>1, <2>2, <2>3
  <2>5. saving' # NoSaving
    BY <2>4 DEF NoSaving
  <2>6. saving'.letter.request = saving.letter.request /\ ~saving'.letter.awaited
    BY <2>1, <2>4 DEF Letters
  <2> QED BY <1>1, <1>3, <2>1, <2>4, <2>5, <2>6 DEF Disown, Savings
<1> QED BY <1>2, <1>3

LEMMA DisownIInv ==
  ASSUME IInv, GiveUp \/ StationRestart
  PROVE  IInv'
<1>0. /\ handler' = NoHandler /\ Disown /\ UNCHANGED <<cache, shelf>>
      /\ save' \in [Saves -> [expected : Numbers, outcome : Outcomes]]
      /\ \A c \in Saves :
           /\ save'[c].expected = save[c].expected
           /\ save'[c].outcome = "new" <=> save[c].outcome = "new"
           /\ save'[c].outcome = "acknowledged" => save[c].outcome = "acknowledged"
  <2>0. save \in [Saves -> [expected : Numbers, outcome : Outcomes]]
    BY DEF IInv, TypeOK
  <2>1. CASE GiveUp
    <3>1. PICK outcome \in {"conflict", "uncertain"} : Outcome(handler.request, outcome)
      BY <2>1 DEF GiveUp
    <3>2. handler.request \in Saves /\ save[handler.request].outcome # "new"
      BY <2>1, RequestsSaved DEF GiveUp
    <3> QED BY <2>1, <3>1, <3>2, OutcomeFacts DEF GiveUp, IInv, Outcomes
  <2>2. CASE StationRestart
    BY <2>0, <2>2 DEF StationRestart, Outcomes
  <2> QED BY <2>1, <2>2
<1>1. TypeOK'
  <2>1. handler' \in Handlers /\ reply' \in Replies
    BY <1>0, DisownFacts DEF Handlers, Replies
  <2>2. inbox' \subseteq Letters /\ saving' \in Savings /\ UNCHANGED <<published, bundles>>
    BY <1>0, DisownFacts
  <2> QED BY <1>0, <2>1, <2>2 DEF IInv, TypeOK
<1>2. OnTopOfSeen'
  BY <1>0, DisownFacts, HistoryType DEF IInv, OnTopOfSeen, TypeOK, Revision
<1>3. RequestsAreSaves'
  BY <1>0, DisownFacts DEF IInv, RequestsAreSaves
<1>4. SavingFollowsPointer'
  <2>1. saving # NoSaving => saving.letter.request \in Saves
    BY Variants DEF IInv, Letters
  <2> QED BY <1>0, <2>1, DisownFacts DEF IInv, SavingFollowsPointer, NewRevision
<1>5. OneAwaited' /\ ReportsFollowPointer'
  BY <1>0, DisownFacts DEF OneAwaited, ReportsFollowPointer, NoReply, NoHandler
<1> QED
  BY <1>0, <1>1, <1>2, <1>3, <1>4, <1>5, DisownFacts
  DEF IInv, PointerIsWhole, AcknowledgedIsCached, CacheIsPublished, DocumentsMatchReport

\* The station reads the answer it waits for: nothing else is on its way.
LEMMA ReceiveIInv ==
  ASSUME IInv, ReceiveReview \/ ReceiveConflict \/ ReceiveFailure
  PROVE  IInv'
<1> DEFINE c == handler.request
<1>0. /\ reply # NoReply /\ handler.at = "posting" /\ c \in Saves
      /\ save[c].outcome # "new" /\ reply' = NoReply
      /\ UNCHANGED <<published, bundles, saving, inbox, cache, shelf>>
      /\ \A l \in inbox : ~l.awaited
      /\ saving # NoSaving => ~saving.letter.awaited
  <2>1. reply # NoReply
    <3>1. reply.kind \in {"ok", "409", "503"}
      BY DEF ReceiveReview, ReceiveConflict, ReceiveFailure
    <3> QED BY <3>1 DEF NoReply
  <2>2. handler.at = "posting" /\ handler # NoHandler
    BY <2>1 DEF IInv, OneAwaited, NoHandler
  <2> QED BY <2>1, <2>2, RequestsSaved
      DEF ReceiveReview, ReceiveConflict, ReceiveFailure, workerVars, IInv, OneAwaited
<1>1. reply' \in Replies
  BY <1>0 DEF Replies
<1>2. CASE ReceiveReview
  <2>1. /\ UNCHANGED save /\ reply.kind = "ok" /\ reply.result \in Histories
        /\ IsPrefix(reply.result, published) /\ c \in Reviews(reply.result)
        /\ handler' = [at |-> "archiving", request |-> c, result |-> reply.result,
                       done |-> {}, conflict |-> FALSE]
    BY <1>2, Variants DEF ReceiveReview, Archiving, IInv, ReportsFollowPointer
  <2>2. handler' \in Handlers
    BY <1>0, <2>1 DEF Handlers
  <2>3. TypeOK'
    BY <1>0, <1>1, <2>1, <2>2 DEF IInv, TypeOK
  <2>4. OneAwaited' /\ ReportsFollowPointer'
    BY <1>0, <2>1 DEF OneAwaited, ReportsFollowPointer, NoReply
  <2> QED BY <1>0, <2>1, <2>3, <2>4, RequestsSaved, HandlerMoves DEF workerVars
<1>3. CASE ReceiveConflict
  <2>1. UNCHANGED save /\ handler' = [at |-> "fetching", request |-> c]
    BY <1>3 DEF ReceiveConflict
  <2>2. handler' \in Handlers
    BY <1>0, <2>1 DEF Handlers
  <2>3. TypeOK'
    BY <1>0, <1>1, <2>1, <2>2 DEF IInv, TypeOK
  <2>4. OneAwaited' /\ ReportsFollowPointer'
    BY <1>0, <2>1 DEF OneAwaited, ReportsFollowPointer, NoReply
  <2> QED BY <1>0, <2>1, <2>3, <2>4, RequestsSaved, HandlerMoves DEF workerVars
<1>4. CASE ReceiveFailure
  <2>1. Outcome(c, "uncertain") /\ handler' = NoHandler
    BY <1>4 DEF ReceiveFailure
  <2>2. handler' \in Handlers
    BY <2>1 DEF Handlers
  <2>3. PICK d \in Saves : d = c
    BY <1>0
  <2>4. /\ save' \in [Saves -> [expected : Numbers, outcome : Outcomes]]
        /\ save'[d].outcome = "uncertain"
        /\ \A e \in Saves : save'[e].expected = save[e].expected
        /\ \A e \in Saves \ {d} : save'[e] = save[e]
    BY <2>1, <2>3, OutcomeFacts DEF IInv, Outcomes
  <2>5. TypeOK'
    BY <1>0, <1>1, <2>2, <2>4 DEF IInv, TypeOK
  <2>6. OneAwaited' /\ ReportsFollowPointer'
    BY <1>0, <2>1 DEF OneAwaited, ReportsFollowPointer, NoReply, NoHandler
  <2> QED BY <1>0, <2>1, <2>3, <2>4, <2>5, <2>6, RequestsSaved, HandlerMoves DEF workerVars
<1> QED BY <1>2, <1>3, <1>4

\* The handler has its answer and goes on without the worker's lock.
LEMMA FetchIInv ==
  ASSUME IInv, FetchCurrent \/ ExportMoved
  PROVE  IInv'
<1> DEFINE c == handler.request
<1>0. /\ handler.at \in {"fetching", "archiving"} /\ handler # NoHandler /\ c \in Saves
      /\ save[c].outcome # "new" /\ reply = NoReply /\ reply' = NoReply
      /\ UNCHANGED <<published, bundles, saving, inbox, cache, shelf>>
      /\ \A l \in inbox : ~l.awaited
      /\ saving # NoSaving => ~saving.letter.awaited
  <2>1. handler.at \in {"fetching", "archiving"} /\ handler # NoHandler
    <3>1. handler.at \in {"fetching", "archiving"}
      BY DEF FetchCurrent, ExportMoved
    <3> QED BY <3>1 DEF NoHandler
  <2>2. UNCHANGED <<published, bundles, saving, inbox, reply, cache, shelf>>
    BY DEF FetchCurrent, ExportMoved, workerVars
  <2>3. reply = NoReply /\ \A l \in inbox : ~l.awaited
    BY <2>1 DEF IInv, OneAwaited
  <2>4. saving # NoSaving => ~saving.letter.awaited
    BY <2>1 DEF IInv, OneAwaited
  <2> QED BY <2>1, <2>2, <2>3, <2>4, RequestsSaved
<1>1. CASE FetchCurrent
  <2>1. /\ UNCHANGED save /\ published \in Histories
        /\ handler' = [at |-> "archiving", request |-> c, result |-> published,
                       done |-> {}, conflict |-> TRUE]
    BY <1>1 DEF FetchCurrent, Archiving, IInv, TypeOK
  <2>2. handler' \in Handlers
    BY <1>0, <2>1 DEF Handlers
  <2>3. TypeOK'
    BY <1>0, <2>1, <2>2 DEF IInv, TypeOK
  <2>4. IsPrefix(published, published)
    BY PrefixFacts DEF IInv, CacheIsPublished, TypeOK
  <2>5. OneAwaited' /\ ReportsFollowPointer'
    BY <1>0, <2>1, <2>4 DEF OneAwaited, ReportsFollowPointer, NoReply
  <2> QED BY <1>0, <2>1, <2>3, <2>5, RequestsSaved, HandlerMoves DEF workerVars
<1>2. CASE ExportMoved /\ ~handler.conflict
  <2>1. UNCHANGED save /\ handler' = [at |-> "fetching", request |-> c]
    BY <1>2 DEF ExportMoved
  <2>2. handler' \in Handlers
    BY <1>0, <2>1 DEF Handlers
  <2>3. TypeOK'
    BY <1>0, <2>1, <2>2 DEF IInv, TypeOK
  <2>4. OneAwaited' /\ ReportsFollowPointer'
    BY <1>0, <2>1 DEF OneAwaited, ReportsFollowPointer, NoReply
  <2> QED BY <1>0, <2>1, <2>3, <2>4, RequestsSaved, HandlerMoves DEF workerVars
<1>3. CASE ExportMoved /\ handler.conflict
  <2>1. Outcome(c, "conflict") /\ handler' = NoHandler
    BY <1>3 DEF ExportMoved
  <2>2. handler' \in Handlers
    BY <2>1 DEF Handlers
  <2>3. PICK d \in Saves : d = c
    BY <1>0
  <2>4. /\ save' \in [Saves -> [expected : Numbers, outcome : Outcomes]]
        /\ save'[d].outcome = "conflict"
        /\ \A e \in Saves : save'[e].expected = save[e].expected
        /\ \A e \in Saves \ {d} : save'[e] = save[e]
    BY <2>1, <2>3, OutcomeFacts DEF IInv, Outcomes
  <2>5. TypeOK'
    BY <1>0, <2>2, <2>4 DEF IInv, TypeOK
  <2>6. OneAwaited' /\ ReportsFollowPointer'
    BY <1>0, <2>1 DEF OneAwaited, ReportsFollowPointer, NoReply, NoHandler
  <2> QED BY <1>0, <2>1, <2>3, <2>4, <2>5, <2>6, RequestsSaved, HandlerMoves DEF workerVars
<1> QED BY <1>1, <1>2, <1>3

\* What a handler that archives a report knows about it.
LEMMA ArchivingFacts ==
  ASSUME IInv, handler.at = "archiving"
  PROVE  /\ handler \in [at : {"archiving"}, request : Saves, result : Histories,
                         done : SUBSET Formats, conflict : BOOLEAN]
         /\ handler # NoHandler /\ handler.request \in Saves
         /\ save[handler.request].outcome # "new"
         /\ handler.result \in Histories /\ handler.done \subseteq Formats
         /\ handler.conflict \in BOOLEAN
         /\ IsPrefix(handler.result, published) /\ IsPrefix(cache, published)
         /\ published \in Histories /\ cache \in Histories
         /\ reply = NoReply /\ (\A l \in inbox : ~l.awaited)
         /\ saving # NoSaving => ~saving.letter.awaited
<1>1. handler # NoHandler
  BY DEF NoHandler
<1>2. handler \in [at : {"archiving"}, request : Saves, result : Histories,
                   done : SUBSET Formats, conflict : BOOLEAN]
  BY Variants DEF IInv
<1> QED
  BY <1>1, <1>2, RequestsSaved
  DEF IInv, ReportsFollowPointer, OneAwaited, CacheIsPublished, TypeOK

LEMMA DownloadIInv ==
  ASSUME IInv, NEW f \in Formats, DownloadExport(f)
  PROVE  IInv'
<1>0. /\ handler.at = "archiving" /\ Revision(published) = Revision(handler.result)
      /\ shelf' = [shelf EXCEPT ![<<Revision(handler.result), f>>] = {published}]
      /\ handler' = [handler EXCEPT !.done = handler.done \cup {f}]
      /\ UNCHANGED <<published, bundles, saving, inbox, reply, cache, save>>
  BY DEF DownloadExport, workerVars
<1>1. published = handler.result
  <2>1. IsPrefix(published, published)
    BY <1>0, ArchivingFacts, PrefixFacts
  <2> QED BY <1>0, <2>1, ArchivingFacts, PrefixFacts DEF Revision
<1>2. /\ handler' \in [at : {"archiving"}, request : Saves, result : Histories,
                       done : SUBSET Formats, conflict : BOOLEAN]
      /\ handler'.request = handler.request /\ handler'.result = handler.result
      /\ handler'.conflict = handler.conflict /\ handler'.done = handler.done \cup {f}
      /\ handler'.at = "archiving"
  BY <1>0, ArchivingFacts
<1>3. Revision(handler.result) \in Numbers /\ Revision(cache) \in Numbers
  BY <1>0, ArchivingFacts, HistoryType
<1>4. /\ shelf' \in [Numbers \X Formats -> SUBSET Histories]
      /\ shelf'[<<Revision(handler.result), f>>] = {handler.result}
      /\ \A n \in Numbers, g \in Formats :
           n # Revision(handler.result) \/ g # f => shelf'[<<n, g>>] = shelf[<<n, g>>]
  BY <1>0, <1>1, <1>3, ArchivingFacts DEF IInv, TypeOK
<1>5. TypeOK'
  <2>1. handler' \in Handlers
    BY <1>2 DEF Handlers
  <2> QED BY <1>0, <1>4, <2>1 DEF IInv, TypeOK
<1>6. DocumentsMatchReport'
  <2>1. Revision(cache) = Revision(handler.result) => cache = handler.result
    BY <1>0, ArchivingFacts, PrefixFacts DEF Revision
  <2> QED BY <1>0, <1>3, <1>4, <2>1 DEF IInv, DocumentsMatchReport
<1>7. ReportsFollowPointer'
  <2>1. \A g \in handler'.done : shelf'[<<Revision(handler.result), g>>] = {handler.result}
    BY <1>0, <1>2, <1>3, <1>4, ArchivingFacts DEF IInv, ReportsFollowPointer
  <2> QED BY <1>0, <1>2, <2>1, ArchivingFacts DEF IInv, ReportsFollowPointer, NoReply
<1>8. OneAwaited' /\ RequestsAreSaves'
  <2>1. handler' # NoHandler
    BY <1>2 DEF NoHandler
  <2> QED BY <1>0, <1>2, <2>1, ArchivingFacts DEF IInv, OneAwaited, RequestsAreSaves
<1>9. SavingFollowsPointer' /\ OnTopOfSeen'
  BY <1>0 DEF IInv, SavingFollowsPointer, NewRevision, OnTopOfSeen
<1> QED
  BY <1>0, <1>5, <1>6, <1>7, <1>8, <1>9
  DEF IInv, PointerIsWhole, AcknowledgedIsCached, CacheIsPublished

\* The row only moves to a newer report, which keeps every acknowledged save.
LEMMA CacheResultIInv ==
  ASSUME IInv, CacheResult
  PROVE  IInv'
<1>0. /\ handler.at = "archiving" /\ handler.done = Formats /\ handler' = NoHandler
      /\ cache' = IF Revision(cache) > Revision(handler.result)
                  THEN cache ELSE handler.result
      /\ UNCHANGED <<published, bundles, saving, inbox, reply, shelf>>
  BY DEF CacheResult, workerVars
<1>1. PICK c \in Saves : c = handler.request
  BY <1>0, ArchivingFacts
<1>2. PICK outcome \in {"conflict", "acknowledged"} :
        /\ Outcome(c, outcome)
        /\ outcome = "acknowledged" => ~handler.conflict
  BY <1>0, <1>1, ArchivingFacts DEF CacheResult
<1>3. /\ save' \in [Saves -> [expected : Numbers, outcome : Outcomes]]
      /\ save'[c].outcome = outcome
      /\ \A e \in Saves : save'[e].expected = save[e].expected
      /\ \A e \in Saves \ {c} : save'[e] = save[e]
  BY <1>2, OutcomeFacts DEF IInv, Outcomes
<1>4. /\ cache' \in Histories /\ IsPrefix(cache', published)
      /\ Reviews(cache) \subseteq Reviews(cache')
      /\ Reviews(handler.result) \subseteq Reviews(cache')
      /\ cache' = cache \/ cache' = handler.result
  <2>1. Len(cache) \in Nat /\ Len(handler.result) \in Nat
    BY <1>0, ArchivingFacts, HistoryType
  <2>2. Len(cache) > Len(handler.result) => Reviews(handler.result) \subseteq Reviews(cache)
    BY <1>0, <2>1, ArchivingFacts, PrefixFacts
  <2>3. Len(cache) <= Len(handler.result) => Reviews(cache) \subseteq Reviews(handler.result)
    BY <1>0, <2>1, ArchivingFacts, PrefixFacts
  <2> QED BY <1>0, <2>1, <2>2, <2>3, ArchivingFacts DEF Revision
<1>5. TypeOK'
  BY <1>0, <1>3, <1>4 DEF IInv, TypeOK, Handlers
<1>6. AcknowledgedIsCached'
  <2>1. outcome = "acknowledged" => c \in Reviews(handler.result)
    BY <1>0, <1>1, <1>2 DEF IInv, ReportsFollowPointer
  <2> QED BY <1>3, <1>4, <2>1 DEF IInv, AcknowledgedIsCached
<1>7. DocumentsMatchReport'
  BY <1>0, <1>4 DEF IInv, DocumentsMatchReport, ReportsFollowPointer
<1>8. RequestsAreSaves'
  <2>1. save[c].outcome # "new"
    BY <1>0, <1>1, ArchivingFacts
  <2> QED BY <1>0, <1>2, <1>3, <2>1 DEF IInv, RequestsAreSaves
<1>9. OneAwaited' /\ ReportsFollowPointer' /\ CacheIsPublished'
  BY <1>0, <1>4, ArchivingFacts
  DEF OneAwaited, ReportsFollowPointer, CacheIsPublished, NoReply, NoHandler
<1>10. SavingFollowsPointer'
  <2>1. saving # NoSaving => saving.letter.request \in Saves
    BY Variants DEF IInv, Letters
  <2> QED BY <1>0, <1>3, <2>1 DEF IInv, SavingFollowsPointer, NewRevision
<1>11. OnTopOfSeen'
  BY <1>0, <1>3, HistoryType DEF IInv, OnTopOfSeen, TypeOK, Revision
<1> QED
  BY <1>0, <1>5, <1>6, <1>7, <1>8, <1>9, <1>10, <1>11 DEF IInv, PointerIsWhole

-----------------------------------------------------------------------------
LEMMA NextIInv == IInv /\ [Next]_vars => IInv'
<1> SUFFICES ASSUME IInv, [Next]_vars PROVE IInv'
  OBVIOUS
<1>1. CASE Reviewer
  BY <1>1, ReviewerIInv DEF Reviewer
<1>2. CASE Worker
  BY <1>2, BeginReviewIInv, WriteBundleIInv, PublishIInv DEF Worker
<1>3. CASE Station
  BY <1>3, StartReviewIInv, ReceiveIInv, FetchIInv, DownloadIInv, CacheResultIInv DEF Station
<1>4. CASE Fault
  BY <1>4, FailReviewIInv, DisownIInv, WorkerRestartIInv DEF Fault
<1>5. CASE UNCHANGED vars
  BY <1>5
  DEF vars, workerVars, stationVars, IInv, TypeOK, OnTopOfSeen, PointerIsWhole,
      AcknowledgedIsCached, CacheIsPublished, DocumentsMatchReport, RequestsAreSaves,
      SavingFollowsPointer, NewRevision, OneAwaited, ReportsFollowPointer
<1> QED BY <1>1, <1>2, <1>3, <1>4, <1>5 DEF Next, Work

-----------------------------------------------------------------------------
(* The theorems. *)

\* In every reachable state the whole inductive invariant holds.
THEOREM Invariance == Spec => []IInv
<1>1. Init => IInv
  BY InitIInv
<1>2. IInv /\ [Next]_vars => IInv'
  BY NextIInv
<1> QED BY <1>1, <1>2, PTL DEF Spec

\* Revisions, letters, rounds and shelves are well formed; in particular a
\* report never has more reviews than there are saves.
THEOREM TypeCorrect == Spec => []TypeOK
<1>1. IInv => TypeOK
  BY DEF IInv
<1> QED BY <1>1, Invariance, PTL

\* Every revision is made on top of the one its reviewer had seen, however
\* often the save was repeated and whoever else saved meanwhile.
THEOREM RevisionsAreOnTopOfSeen == Spec => []OnTopOfSeen
<1>1. IInv => OnTopOfSeen
  BY DEF IInv
<1> QED BY <1>1, Invariance, PTL

\* The pointer names whole files, the station caches a published report, and
\* a save told "saved" is in it.
THEOREM PublishedReportsAreWhole == Spec => []ReportsAreWhole
<1>1. IInv => ReportsAreWhole
  BY DEF IInv, ReportsAreWhole
<1> QED BY <1>1, Invariance, PTL

\* The documents offered with the station's report are that report's own.
THEOREM ShelvedDocumentsMatch == Spec => []DocumentsMatchReport
<1>1. IInv => DocumentsMatchReport
  BY DEF IInv
<1> QED BY <1>1, Invariance, PTL
-----------------------------------------------------------------------------
(***************************************************************************)
(* Worker, network and station implement ReviewLog.  What the reviewers    *)
(* are told must fit the one log: the handler's save still waits, nobody   *)
(* expects a revision that is yet to come, and a refused save, or one that *)
(* is about to be refused, expects one that is past.                       *)
(***************************************************************************)
AnswersFollowLog ==
  /\ handler # NoHandler => save[handler.request].outcome = "waiting"
  /\ \A c \in Saves : /\ save[c].expected <= Revision(published)
                      /\ save[c].outcome = "conflict" => save[c].expected < Revision(published)
  /\ reply.kind = "409" \/ handler.at = "fetching" \/ (handler.at = "archiving" /\ handler.conflict)
       => save[handler.request].expected < Revision(published)

\* ReviewLog's notion of a prefix is this module's.
LEMMA SamePrefix == \A g, h : Log!IsPrefix(g, h) <=> IsPrefix(g, h)
BY DEF Log!IsPrefix, IsPrefix

\* What the invariants say about the log as ReviewLog sees it.
LEMMA LogFacts ==
  ASSUME IInv, AnswersFollowLog
  PROVE  /\ Len(published) \in Nat /\ Revision(published) = Len(published)
         /\ Len(cache) \in Nat /\ Revision(cache) = Len(cache) /\ Len(cache) <= Len(published)
         /\ IsPrefix(cache, cache) /\ IsPrefix(cache, published)
         /\ save \in [Saves -> [expected : Numbers, outcome : Outcomes]]
         /\ \A c \in Saves : save[c].expected \in Nat /\ save[c].expected <= Len(published)
         /\ \A c \in Reviews(published) : save[c].expected < Len(published)
         /\ handler # NoHandler =>
              handler.request \in Saves /\ save[handler.request].outcome = "waiting"
<1>1. cache \in Histories /\ published \in Histories
  BY DEF IInv, TypeOK
<1>2. /\ Len(published) \in Nat /\ Revision(published) = Len(published)
      /\ Len(cache) \in Nat /\ Revision(cache) = Len(cache)
      /\ Reviews(published) = {published[i] : i \in 1 .. Len(published)}
  BY <1>1, HistoryType
<1>3. Len(cache) <= Len(published) /\ IsPrefix(cache, cache) /\ IsPrefix(cache, published)
  BY <1>1, PrefixFacts DEF IInv, CacheIsPublished
<1>4. \A c \in Reviews(published) : save[c].expected < Len(published)
  BY <1>2 DEF IInv, OnTopOfSeen
<1>5. \A c \in Saves : save[c].expected \in Nat
  BY SavesAssumption, FS_CardinalityType DEF IInv, TypeOK, Numbers
<1> QED BY <1>2, <1>3, <1>4, <1>5, Variants DEF IInv, TypeOK, AnswersFollowLog

\* A step that the reviewers do not see: the log and what they are told stay,
\* and what the handler is about to say was true before.
LEMMA UnseenStep ==
  ASSUME AnswersFollowLog, UNCHANGED <<published, cache, save>>,
         handler' # NoHandler => save[handler'.request].outcome = "waiting",
         reply'.kind = "409" \/ handler'.at = "fetching"
           \/ (handler'.at = "archiving" /\ handler'.conflict)
             => save[handler'.request].expected < Revision(published)
  PROVE  AnswersFollowLog' /\ UNCHANGED Log!logVars
BY DEF AnswersFollowLog, Log!logVars

LEMMA WorkerStepLog ==
  ASSUME IInv, AnswersFollowLog,
         (\E letter \in inbox : BeginReview(letter)) \/ WriteBundle \/ FailReview \/ WorkerRestart
  PROVE  AnswersFollowLog' /\ UNCHANGED Log!logVars
<1>1. CASE WriteBundle \/ WorkerRestart
  <2>1. UNCHANGED <<published, cache, save, handler, reply>>
    BY <1>1 DEF WriteBundle, WorkerRestart, stationVars
  <2> QED BY <2>1, UnseenStep DEF AnswersFollowLog
<1>2. CASE FailReview
  <2>1. /\ UNCHANGED <<published, cache, save, handler>>
        /\ reply' \in {reply, [kind |-> "503"]}
    BY <1>2 DEF FailReview, Answer, stationVars
  <2> QED BY <2>1, UnseenStep DEF AnswersFollowLog
<1>3. ASSUME NEW letter \in inbox, BeginReview(letter)
      PROVE  AnswersFollowLog' /\ UNCHANGED Log!logVars
  <2>1. /\ UNCHANGED <<published, cache, save, handler>>
        /\ letter.request \in Saves
        /\ letter.awaited => handler.request = letter.request
    BY <1>3 DEF BeginReview, stationVars, IInv, OneAwaited, TypeOK, Letters
  <2>2. reply' # reply => letter.awaited /\ reply'.kind \in {"ok", "409"}
    BY <1>3 DEF BeginReview, Answer
  <2>3. reply' # reply /\ reply'.kind = "409"
          => save[letter.request].expected # Revision(published)
    BY <1>3 DEF BeginReview, Answer
  <2>4. reply' # reply /\ reply'.kind = "409"
          => save[letter.request].expected < Revision(published)
    BY <2>1, <2>3, LogFacts
  <2> QED BY <2>1, <2>2, <2>4, UnseenStep DEF AnswersFollowLog
<1> QED BY <1>1, <1>2, <1>3

LEMMA PublishLog ==
  ASSUME IInv, AnswersFollowLog, Publish
  PROVE  AnswersFollowLog' /\ Log!Next
<1> DEFINE c == saving.letter.request
<1>1. /\ saving # NoSaving /\ c \in Saves
      /\ published' = Append(published, c) /\ Len(published') = Len(published) + 1
      /\ UNCHANGED <<handler, cache, save>>
      /\ published \in Histories /\ published' \in Histories
  BY SavingFacts DEF Publish, stationVars
<1>2. save[c].expected = Len(published) /\ c \notin Reviews(published)
  BY <1>1, LogFacts DEF IInv, SavingFollowsPointer
<1>3. save[c].outcome \in {"waiting", "uncertain"}
  <2>1. save[c].outcome \in Outcomes /\ save[c].outcome # "new"
    BY <1>1, LogFacts DEF IInv, RequestsAreSaves
  <2>2. save[c].outcome # "acknowledged"
    <3>1. Reviews(cache) \subseteq Reviews(published)
      BY PrefixFacts, LogFacts DEF IInv, TypeOK, CacheIsPublished
    <3> QED BY <1>1, <1>2, <3>1 DEF IInv, AcknowledgedIsCached
  <2>3. save[c].outcome # "conflict"
    BY <1>1, <1>2, LogFacts DEF AnswersFollowLog
  <2> QED BY <2>1, <2>2, <2>3 DEF Outcomes
<1>4. Revision(published) = Len(published) /\ Revision(published') = Len(published) + 1
  BY <1>1, HistoryType
<1>5. AnswersFollowLog'
  <2>1. reply' = reply \/ reply'.kind = "ok"
    BY DEF Publish, Answer
  <2>2. \A d \in Saves : /\ save[d].expected \in Nat
                         /\ save[d].expected <= Len(published)
    BY LogFacts
  <2>3. handler # NoHandler => handler.request \in Saves /\ save[handler.request].outcome = "waiting"
    BY LogFacts
  <2>4. reply'.kind = "409" \/ handler.at = "fetching" \/ handler.at = "archiving"
          => handler # NoHandler
    BY <2>1 DEF IInv, OneAwaited, NoHandler, NoReply
  <2>5. \A d \in Saves : save[d].expected <= Len(published) + 1 /\ save[d].expected < Len(published) + 1
    BY <2>2, LogFacts
  <2> QED BY <1>1, <1>4, <2>3, <2>4, <2>5 DEF AnswersFollowLog
<1>6. Log!Apply(c)
  BY <1>1, <1>2, <1>3 DEF Log!Apply
<1> QED BY <1>1, <1>5, <1>6 DEF Log!Next

LEMMA ReviewerLog ==
  ASSUME IInv, AnswersFollowLog, NEW c \in Saves, Save(c) \/ SaveAgain(c)
  PROVE  AnswersFollowLog' /\ Log!Next
<1>1. UNCHANGED <<published, cache, handler, reply>>
  BY DEF Save, SaveAgain, workerVars, stationVars
<1>2. save[c].outcome # "waiting"
  BY DEF Save, SaveAgain
<1>3. CASE Save(c)
  <2>1. PICK seen \in 0 .. Revision(cache) :
          save' = [save EXCEPT ![c] = [expected |-> seen, outcome |-> "waiting"]]
    BY <1>3 DEF Save
  <2>2. Log!Ask(c)
    BY <1>1, <1>3, <2>1, LogFacts DEF Save, Log!Ask
  <2>3. /\ \A d \in Saves \ {c} : save'[d] = save[d]
        /\ save'[c] = [expected |-> seen, outcome |-> "waiting"]
        /\ seen <= Revision(published)
    BY <2>1, LogFacts
  <2>4. AnswersFollowLog'
    BY <1>1, <1>2, <2>3, LogFacts DEF AnswersFollowLog, NoHandler, IInv, OneAwaited, NoReply
  <2> QED BY <2>2, <2>4 DEF Log!Next
<1>4. CASE SaveAgain(c)
  <2>1. Log!AskAgain(c)
    BY <1>1, <1>4 DEF SaveAgain, Log!AskAgain, Log!Told
  <2>2. /\ \A d \in Saves \ {c} : save'[d] = save[d]
        /\ save'[c].expected = save[c].expected /\ save'[c].outcome = "waiting"
    BY <1>4, LogFacts DEF SaveAgain
  <2>3. AnswersFollowLog'
    BY <1>1, <1>2, <2>2, LogFacts DEF AnswersFollowLog, NoHandler, IInv, OneAwaited, NoReply
  <2> QED BY <2>1, <2>3 DEF Log!Next
<1> QED BY <1>3, <1>4

\* The handler goes on without an answer for its reviewer.
LEMMA HandlerStepLog ==
  ASSUME IInv, AnswersFollowLog,
         \/ \E c \in Saves : StartReview(c)
         \/ ReceiveReview \/ ReceiveConflict \/ FetchCurrent
         \/ \E f \in Formats : DownloadExport(f)
         \/ ExportMoved /\ ~handler.conflict
  PROVE  AnswersFollowLog' /\ UNCHANGED Log!logVars
<1>1. ASSUME NEW c \in Saves, StartReview(c)
      PROVE  AnswersFollowLog' /\ UNCHANGED Log!logVars
  <2>1. /\ handler = NoHandler /\ handler' = [at |-> "posting", request |-> c]
        /\ save[c].outcome = "waiting" /\ UNCHANGED <<published, cache, save, reply>>
    BY <1>1 DEF StartReview, workerVars
  <2>2. reply.kind # "409"
    BY <2>1 DEF IInv, OneAwaited, NoHandler, NoReply
  <2> QED BY <2>1, <2>2, UnseenStep
<1>2. CASE ReceiveReview
  <2>1. /\ handler'.at = "archiving" /\ handler'.request = handler.request /\ ~handler'.conflict
        /\ reply' = NoReply /\ UNCHANGED <<published, cache, save>> /\ reply # NoReply
    BY <1>2 DEF ReceiveReview, Archiving, workerVars, NoReply
  <2>2. handler # NoHandler
    BY <2>1 DEF IInv, OneAwaited, NoHandler
  <2> QED BY <2>1, <2>2, UnseenStep DEF AnswersFollowLog, NoReply
<1>3. CASE ReceiveConflict
  <2>1. /\ handler'.at = "fetching" /\ handler'.request = handler.request
        /\ reply' = NoReply /\ UNCHANGED <<published, cache, save>> /\ reply.kind = "409"
    BY <1>3 DEF ReceiveConflict, workerVars
  <2>2. handler # NoHandler
    BY <2>1 DEF IInv, OneAwaited, NoHandler, NoReply
  <2> QED BY <2>1, <2>2, UnseenStep DEF AnswersFollowLog, NoReply
<1>4. CASE FetchCurrent
  <2>1. /\ handler'.at = "archiving" /\ handler'.request = handler.request
        /\ UNCHANGED <<published, cache, save, reply>> /\ handler.at = "fetching"
    BY <1>4 DEF FetchCurrent, Archiving, workerVars
  <2> QED BY <2>1, UnseenStep DEF AnswersFollowLog, NoHandler
<1>5. ASSUME NEW f \in Formats, DownloadExport(f)
      PROVE  AnswersFollowLog' /\ UNCHANGED Log!logVars
  <2>1. /\ handler.at = "archiving" /\ handler' = [handler EXCEPT !.done = handler.done \cup {f}]
        /\ UNCHANGED <<published, cache, save, reply>>
    BY <1>5 DEF DownloadExport, workerVars
  <2>2. /\ handler'.at = "archiving" /\ handler'.request = handler.request
        /\ handler'.conflict = handler.conflict
    BY <2>1, ArchivingFacts
  <2> QED BY <2>1, <2>2, UnseenStep DEF AnswersFollowLog, NoHandler
<1>6. CASE ExportMoved /\ ~handler.conflict
  <2>1. /\ handler' = [at |-> "fetching", request |-> handler.request]
        /\ handler.at = "archiving" /\ UNCHANGED <<published, cache, save, reply>>
    BY <1>6 DEF ExportMoved, workerVars
  <2>2. handler.request \in Reviews(published)
    BY <1>6, <2>1, ArchivingFacts, PrefixFacts DEF IInv, ReportsFollowPointer
  <2> QED BY <2>1, <2>2, UnseenStep, LogFacts DEF AnswersFollowLog, NoHandler
<1> QED BY <1>1, <1>2, <1>3, <1>4, <1>5, <1>6

\* The reviewer of the handler is told something, and the handler is free.
LEMMA ToldKeeps ==
  ASSUME IInv, AnswersFollowLog, NEW c \in Saves, NEW outcome \in Outcomes, Outcome(c, outcome),
         handler' = NoHandler, reply' = NoReply, UNCHANGED published,
         outcome = "conflict" => save[c].expected < Len(published)
  PROVE  AnswersFollowLog'
<1>1. /\ save'[c].outcome = outcome
      /\ \A d \in Saves : save'[d].expected = save[d].expected
      /\ \A d \in Saves \ {c} : save'[d] = save[d]
  BY OutcomeFacts DEF IInv
<1> QED BY <1>1, LogFacts DEF AnswersFollowLog, NoHandler, NoReply

\* A reviewer who waits is left without an answer.
LEMMA LostAnswer ==
  ASSUME IInv, NEW c \in Saves, save[c].outcome = "waiting", Outcome(c, "uncertain"),
         UNCHANGED <<published, cache>>
  PROVE  Log!Lose
<1>1. save \in [Saves -> [expected : Numbers, outcome : Outcomes]]
  BY DEF IInv, TypeOK
<1>2. save' = [d \in Saves |-> IF d \in {c} THEN [save[d] EXCEPT !.outcome = "uncertain"]
                               ELSE save[d]]
  BY <1>1 DEF Outcome
<1> QED BY <1>2 DEF Log!Lose

LEMMA AnswerLog ==
  ASSUME IInv, AnswersFollowLog,
         ReceiveFailure \/ GiveUp \/ CacheResult \/ (ExportMoved /\ handler.conflict)
  PROVE  AnswersFollowLog' /\ Log!Next
<1>1. handler # NoHandler /\ handler' = NoHandler /\ reply' = NoReply /\ UNCHANGED published
  <2>1. CASE ReceiveFailure
    BY <2>1 DEF ReceiveFailure, workerVars, IInv, OneAwaited, NoReply, NoHandler
  <2>2. CASE GiveUp
    BY <2>2 DEF GiveUp, Disown
  <2>3. CASE CacheResult \/ (ExportMoved /\ handler.conflict)
    BY <2>3, ArchivingFacts DEF CacheResult, ExportMoved, workerVars
  <2> QED BY <2>1, <2>2, <2>3
<1>2. PICK c \in Saves : c = handler.request /\ save[c].outcome = "waiting"
  BY <1>1, LogFacts
<1>3. CASE Outcome(c, "uncertain") /\ UNCHANGED cache
  BY <1>1, <1>2, <1>3, ToldKeeps, LostAnswer DEF Outcomes, Log!Next
<1>4. CASE /\ handler.at = "fetching" \/ (handler.at = "archiving" /\ handler.conflict)
           /\ Outcome(c, "conflict") /\ UNCHANGED cache
  <2>1. save[c].expected < Len(published)
    BY <1>2, <1>4, LogFacts DEF AnswersFollowLog
  <2>2. Log!Show
    BY <1>4, LogFacts, SamePrefix DEF Log!Show
  <2>3. Log!Told(c, "waiting", "conflict")
    BY <1>2, <1>4 DEF Outcome, Log!Told
  <2>4. Log!Refuse(c)
    BY <1>1, <2>1, <2>2, <2>3 DEF Log!Refuse
  <2> QED BY <1>1, <1>4, <2>1, <2>4, ToldKeeps DEF Outcomes, Log!Next
<1>5. CASE CacheResult
  <2>1. /\ handler.at = "archiving"
        /\ cache' = IF Len(cache) > Len(handler.result) THEN cache ELSE handler.result
        /\ Outcome(c, IF handler.conflict THEN "conflict" ELSE "acknowledged")
    BY <1>2, <1>5 DEF CacheResult, Revision
  <2>2. /\ handler.result \in Histories /\ cache \in Histories /\ published \in Histories
        /\ IsPrefix(handler.result, published) /\ IsPrefix(cache, published)
        /\ Len(handler.result) \in Nat
    BY <2>1, ArchivingFacts, HistoryType
  <2>3. Log!Show
    <3>1. Len(cache) \in Nat /\ IsPrefix(cache, cache)
      BY LogFacts
    <3>2. Len(cache) <= Len(handler.result) => IsPrefix(cache, handler.result)
      BY <2>2, PrefixFacts
    <3>3. IsPrefix(cache, cache')
      BY <2>1, <2>2, <3>1, <3>2
    <3>4. IsPrefix(cache', published)
      BY <2>1, <2>2
    <3> QED BY <3>3, <3>4, SamePrefix DEF Log!Show
  <2>4. CASE handler.conflict
    <3>1. save[c].expected < Len(published)
      BY <1>2, <2>1, <2>4, LogFacts DEF AnswersFollowLog
    <3>2. Log!Refuse(c)
      BY <1>1, <1>2, <2>1, <2>3, <2>4, <3>1 DEF Outcome, Log!Refuse, Log!Told
    <3> QED BY <1>1, <2>1, <2>4, <3>1, <3>2, ToldKeeps DEF Outcomes, Log!Next
  <2>5. CASE ~handler.conflict
    <3>1. c \in Reviews(handler.result)
      BY <1>2, <2>1, <2>5 DEF IInv, ReportsFollowPointer
    <3>2. c \in Reviews(cache')
      <4>1. Len(cache) \in Nat
        BY LogFacts
      <4>2. Len(handler.result) <= Len(cache) => Reviews(handler.result) \subseteq Reviews(cache)
        BY <2>2, PrefixFacts
      <4> QED BY <2>1, <2>2, <3>1, <4>1, <4>2
    <3>3. Log!Told(c, "waiting", "acknowledged")
      BY <1>2, <2>1, <2>5 DEF Outcome, Log!Told
    <3>4. Log!Acknowledge(c)
      BY <1>1, <2>3, <3>2, <3>3 DEF Log!Acknowledge, Log!ToSet, Reviews, ToSet
    <3> QED BY <1>1, <2>1, <2>5, <3>4, ToldKeeps DEF Outcomes, Log!Next
  <2> QED BY <2>4, <2>5
<1>6. ReceiveFailure => Outcome(c, "uncertain") /\ UNCHANGED cache
  BY <1>2 DEF ReceiveFailure
<1>7. ExportMoved /\ handler.conflict
        => handler.at = "archiving" /\ Outcome(c, "conflict") /\ UNCHANGED cache
  BY <1>2 DEF ExportMoved
<1>8. GiveUp => /\ Outcome(c, IF handler.at = "fetching" \/ (handler.at = "archiving" /\ handler.conflict)
                              THEN "conflict" ELSE "uncertain")
                /\ UNCHANGED cache
  BY <1>2 DEF GiveUp
<1>9. CASE GiveUp
  BY <1>3, <1>4, <1>8, <1>9
<1> QED BY <1>3, <1>4, <1>5, <1>6, <1>7, <1>9

LEMMA RestartLog ==
  ASSUME IInv, AnswersFollowLog, StationRestart
  PROVE  AnswersFollowLog' /\ Log!Next
<1>1. /\ handler' = NoHandler /\ reply' = NoReply /\ UNCHANGED <<published, cache>>
      /\ save' = [c \in Saves |-> IF save[c].outcome = "waiting"
                                  THEN [save[c] EXCEPT !.outcome = "uncertain"] ELSE save[c]]
  BY DEF StationRestart, Disown
<1>2. \A c \in Saves : /\ save'[c].expected = save[c].expected
                       /\ save'[c].outcome = "conflict" => save[c].outcome = "conflict"
  BY <1>1, LogFacts
<1>3. AnswersFollowLog'
  BY <1>1, <1>2 DEF AnswersFollowLog, NoHandler, NoReply
<1>4. Log!Lose
  <2> DEFINE lost == {c \in Saves : save[c].outcome = "waiting"}
  <2>1. save' = [c \in Saves |-> IF c \in lost
                                 THEN [save[c] EXCEPT !.outcome = "uncertain"] ELSE save[c]]
    BY <1>1
  <2> QED BY <1>1, <2>1 DEF Log!Lose
<1> QED BY <1>3, <1>4 DEF Log!Next

\* Every step of worker, network and station is one of ReviewLog, or unseen.
LEMMA NextLog ==
  ASSUME IInv, AnswersFollowLog, [Next]_vars
  PROVE  AnswersFollowLog' /\ [Log!Next]_(Log!logVars)
<1>1. CASE Reviewer
  BY <1>1, ReviewerLog DEF Reviewer
<1>2. CASE Worker
  BY <1>2, WorkerStepLog, PublishLog DEF Worker
<1>3. CASE Station
  BY <1>3, HandlerStepLog, AnswerLog DEF Station
<1>4. CASE Fault
  BY <1>4, WorkerStepLog, AnswerLog, RestartLog DEF Fault
<1>5. CASE UNCHANGED vars
  BY <1>5, UnseenStep DEF vars, workerVars, stationVars, AnswersFollowLog
<1> QED BY <1>1, <1>2, <1>3, <1>4, <1>5 DEF Next, Work

\* Whatever is lost, repeated or overtaken, and whoever restarts, reviewers see
\* the report of ReviewLog: each save is applied once on top of what its reviewer
\* had seen, and refused only when it came too late.
THEOREM ImplementsLog == Spec => ImplementsReviewLog
<1>1. Init => AnswersFollowLog /\ Log!Init
  <2> SUFFICES ASSUME Init PROVE AnswersFollowLog /\ Log!Init
    OBVIOUS
  <2>1. Revision(published) = 0
    BY EmptyHistory DEF Init, Revision
  <2> QED BY <2>1 DEF Init, AnswersFollowLog, NoHandler, NoReply, Log!Init
<1>2. IInv /\ AnswersFollowLog /\ [Next]_vars => AnswersFollowLog' /\ [Log!Next]_(Log!logVars)
  BY NextLog
<1> QED BY <1>1, <1>2, Invariance, PTL DEF Spec, ImplementsReviewLog, Log!Spec
=============================================================================
