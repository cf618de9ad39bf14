---------------------------- MODULE WebAppProofs ----------------------------
(***************************************************************************)
(* Theorems about the frontend, for any number of requests, files, rows,   *)
(* chats and answers under way.                                            *)
(***************************************************************************)
EXTENDS WebApp, FiniteSetTheorems, SequenceTheorems, TLAPS

(* The session of the browser. *)

\* A token is one of the past, or that of the login whose session it is.
KnownToken(t) ==
  /\ t.version <= auth.version
  /\ t.version = auth.version => auth.token /\ t.login = login
TokensAreKnown == \A t \in given : KnownToken(t)

\* A request carries the session it belongs to as long as the token is that of
\* its version.
RequestsKnowTheirSession ==
  \A c \in Callers : req[c].at # "idle" =>
    /\ req[c].version <= auth.version
    /\ req[c].version = auth.version => req[c].login = login
    /\ KnownToken(req[c].token) /\ req[c].token.version <= req[c].version

\* A version whose refresh was begun is past, or its refresh is under way and
\* one of its requests waits for it.
SpentIsPast ==
  /\ \A v \in spent : v <= auth.version
  /\ auth.version \in spent => flight = auth.version
FlightIsAskedFor ==
  /\ flight = NoFlight \/ flight <= auth.version
  /\ flight = auth.version =>
       \E c \in Callers : req[c].at = "waiting" /\ req[c].version = auth.version

SessIInv ==
  /\ SessionType /\ TokensAreKnown /\ RequestsKnowTheirSession
  /\ SpentIsPast /\ FlightIsAskedFor
  /\ auth.stored => auth.token
  /\ login <= auth.version

\* What a step of the session may do to the token and to the refreshes.
SurvivesStep ==
  auth.token /\ ~auth'.token /\ ~Logout /\ ~Reload =>
    \E c \in Callers :
      /\ req[c].at # "idle" /\ req'[c] = Idle
      /\ req[c].token.login = login \/ (Outdated(c) /\ req[c].login = login)
RotatesStep ==
  flight = NoFlight /\ flight' # NoFlight =>
    \E c \in Callers : req'[c].at = "waiting" /\ req'[c].version \notin spent
EndedStep ==
  ~auth.token /\ auth'.token =>
    login' # login \/ \E c \in Callers : req[c].at = "waiting" /\ Outdated(c)
GoodStep == SessIInv' /\ SurvivesStep /\ RotatesStep /\ EndedStep

Auth == [token: BOOLEAN, version: Versions, register: BOOLEAN,
         initialized: BOOLEAN, stored: BOOLEAN, storage: BOOLEAN]
Entry == [at: {"idle", "sent", "waiting", "retried"}, token: Tokens,
          version: Versions, login: Versions]

LEMMA VersionFacts ==
  /\ MaxVersion \in Nat /\ Versions = 0..MaxVersion /\ NoFlight \notin Versions
  /\ 0 \in Versions
BY SessionAssumption DEF Versions, NoFlight

LEMMA TokenChanges ==
  ASSUME NEW a \in Auth, a.version < MaxVersion
  PROVE  /\ SetToken(a) \in Auth /\ SetToken(a).token
         /\ SetToken(a).version = a.version + 1
         /\ LoggedOut(a) \in Auth /\ ~LoggedOut(a).token /\ ~LoggedOut(a).stored
         /\ LoggedOut(a).version = a.version + 1
<1>1. a.version \in Nat /\ a.version + 1 \in Versions /\ (TRUE /\ a.storage) \in BOOLEAN
  BY SessionAssumption DEF Auth, Versions
<1> QED BY <1>1 DEF Auth, SetToken, LoggedOut, WithToken

\* A request of the current version that is refused speaks for the session: its
\* token is that of the login, or an outdated one.
LEMMA OwnOrOutdated ==
  ASSUME SessIInv, NEW c \in Callers, req[c].at # "idle", req[c].version = auth.version
  PROVE  /\ req[c].login = login
         /\ req[c].token.login = login \/ Outdated(c)
         /\ auth.token \/ Outdated(c)
<1>1. /\ req[c].login = login /\ req[c].token.version <= req[c].version
      /\ req[c].token.version = auth.version => auth.token /\ req[c].token.login = login
  BY DEF SessIInv, RequestsKnowTheirSession, KnownToken
<1>2. req[c].token.version \in Nat /\ req[c].version \in Nat
  BY DEF SessIInv, SessionType, Tokens, Versions
<1> QED BY <1>1, <1>2 DEF Outdated

\* A step that leaves the token, or ends or renews it, keeps what is known of
\* the requests that it leaves.
LEMMA SessionStepIInv ==
  ASSUME SessIInv, SessionNext
  PROVE  GoodStep
<1> USE DEF SessIInv
<1>0. /\ auth \in Auth /\ req \in [Callers -> Entry] /\ given \subseteq Tokens
      /\ flight \in Versions \cup {NoFlight}
      /\ form \in [complete: BOOLEAN, busy: BOOLEAN, error: BOOLEAN]
      /\ login \in Versions /\ spent \subseteq Versions
      /\ auth.version \in Nat /\ login \in Nat /\ MaxVersion \in Nat
      /\ Idle \in Entry /\ Idle.at = "idle" /\ Versions \subseteq Nat
      /\ auth.version \in Versions /\ TokenOf(auth) \in Tokens
  BY VersionFacts DEF SessionType, Auth, Entry, Versions, Idle, Tokens, TokenOf
\* A new version: no refresh of it was begun, and of the older requests and
\* tokens none is its own.
<1>p. ASSUME auth' \in Auth, auth'.version = auth.version + 1, flight' \in {flight, NoFlight},
             form' \in [complete: BOOLEAN, busy: BOOLEAN, error: BOOLEAN],
             login' \in Versions, login' <= auth'.version, spent' = spent,
             req' \in [Callers -> Entry], auth'.stored => auth'.token,
             \A d \in Callers :
               \/ req'[d] = Idle \/ req'[d] = req[d]
               \/ /\ auth'.token /\ req'[d].version = auth.version + 1 /\ req'[d].login = login'
                  /\ req'[d].token.version = auth.version + 1 /\ req'[d].token.login = login',
             \/ given' = given
             \/ /\ auth'.token
                /\ given' = given \cup {[version |-> auth.version + 1, login |-> login']}
      PROVE  SessIInv'
  <2>0. auth.version + 1 \in Versions /\ MaxVersion >= auth.version + 1
    BY <1>0, <1>p DEF Auth, Versions
  <2>1. SpentIsPast'
    <3>1. \A v \in spent' : v \in Nat /\ v <= auth.version
      BY <1>0, <1>p DEF SpentIsPast
    <3> QED BY <1>0, <1>p, <3>1 DEF SpentIsPast
  <2>2. FlightIsAskedFor'
    <3>1. flight = NoFlight \/ (flight \in Nat /\ flight <= auth.version)
      BY <1>0 DEF FlightIsAskedFor
    <3> QED BY <1>0, <1>p, <2>0, <3>1 DEF FlightIsAskedFor, NoFlight
  <2>3. ASSUME NEW t \in Tokens, t.version <= auth.version
        PROVE  t.version <= auth'.version /\ t.version # auth'.version
    <3>1. t.version \in Nat
      BY <2>3 DEF Tokens, Versions
    <3> QED BY <1>0, <1>p, <2>3, <3>1
  <2>4. TokensAreKnown'
    <3> SUFFICES ASSUME NEW t \in given' PROVE KnownToken(t)'
      BY DEF TokensAreKnown
    <3>1. CASE t \in given
      BY <1>0, <2>3, <3>1 DEF TokensAreKnown, KnownToken
    <3>2. CASE t \notin given
      BY <1>p, <1>0, <3>2 DEF KnownToken
    <3> QED BY <3>1, <3>2
  <2>5. RequestsKnowTheirSession'
    <3> SUFFICES ASSUME NEW d \in Callers, req'[d].at # "idle"
                 PROVE  /\ req'[d].version <= auth'.version
                        /\ req'[d].version = auth'.version => req'[d].login = login'
                        /\ req'[d].token.version <= auth'.version
                        /\ req'[d].token.version = auth'.version =>
                             auth'.token /\ req'[d].token.login = login'
                        /\ req'[d].token.version <= req'[d].version
      BY DEF RequestsKnowTheirSession, KnownToken
    <3>1. CASE req'[d] = req[d]
      <4>1. req[d].version \in Nat /\ req[d].version <= auth.version /\ req[d].token \in Tokens
            /\ req[d].token.version <= auth.version /\ req[d].token.version <= req[d].version
        BY <1>0, <3>1 DEF RequestsKnowTheirSession, Entry, KnownToken
      <4>2. req[d].version # auth'.version /\ req[d].version <= auth'.version
        BY <1>0, <1>p, <4>1
      <4> QED BY <2>3, <3>1, <4>1, <4>2
    <3>2. CASE req'[d] # req[d]
      BY <1>0, <1>p, <3>2
    <3> QED BY <3>1, <3>2
  <2>6. SessionType'
    <3>1. given' \subseteq Tokens
      BY <1>0, <1>p, <2>0 DEF Tokens
    <3> QED BY <1>0, <1>p, <3>1 DEF SessionType, Auth, Entry
  <2> QED BY <1>p, <2>1, <2>2, <2>4, <2>5, <2>6
<1>1. ASSUME NEW register \in BOOLEAN, Initialized(register)
      PROVE  GoodStep
  <2>1. auth' \in Auth /\ auth'.token = auth.token /\ auth'.version = auth.version
        /\ auth'.stored = auth.stored
    BY <1>0, <1>1 DEF Initialized, Auth
  <2> QED BY <1>0, <1>1, <2>1 DEF Initialized, GoodStep, SessionType, RequestsKnowTheirSession,
          TokensAreKnown, KnownToken, SpentIsPast, FlightIsAskedFor, SurvivesStep, RotatesStep,
          EndedStep, Auth, Entry
<1>2. CASE TypeForm \/ SubmitLogin
  BY <1>0, <1>2 DEF TypeForm, SubmitLogin, GoodStep, SessionType, RequestsKnowTheirSession,
     TokensAreKnown, KnownToken, SpentIsPast, FlightIsAskedFor, SurvivesStep, RotatesStep,
     EndedStep, Auth, Entry
<1>3. CASE Logout
  <2>1. auth' \in Auth /\ ~auth'.token /\ ~auth'.stored /\ auth'.version = auth.version + 1
    BY <1>0, <1>3, TokenChanges DEF Logout, CanChange
  <2>2. SessIInv'
    BY <1>0, <1>3, <1>p, <2>1 DEF Logout
  <2> QED BY <1>3, <2>1, <2>2 DEF Logout, GoodStep, SurvivesStep, RotatesStep, EndedStep
<1>4. CASE Reload
  <2>1. auth' \in Auth /\ auth'.token = auth.stored /\ auth'.stored = auth.stored
        /\ auth'.version = auth.version
    BY <1>0, <1>4 DEF Reload, Auth
  <2>2. /\ \A c \in Callers : req'[c] = Idle
        /\ req' \in [Callers -> Entry] /\ form' \in [complete: BOOLEAN, busy: BOOLEAN, error: BOOLEAN]
        /\ flight' = NoFlight /\ spent' = {} /\ login' = login
        /\ given' \subseteq Tokens
        /\ \A t \in given' : auth.stored /\ t.version = auth.version /\ t.login = login
    BY <1>0, <1>4 DEF Reload, EmptyForm, TokenOf
  <2>3. SessionType' /\ auth.version # NoFlight
    BY <1>0, <2>1, <2>2, VersionFacts DEF SessionType, Auth, Entry
  <2> QED BY <1>0, <1>4, <2>1, <2>2, <2>3 DEF GoodStep, RequestsKnowTheirSession,
          TokensAreKnown, KnownToken, SpentIsPast, FlightIsAskedFor, SurvivesStep, RotatesStep, EndedStep
\* A caller waits, with the entry of a request or a new one.
<1>5. ASSUME NEW c \in Callers, NEW e \in Entry, AwaitRefresh(c, e),
             UNCHANGED <<auth, given, form, login>>,
             e.version = auth.version, e.login = login, KnownToken(e.token), e.token.version <= e.version,
             req[c].at \in {"idle", "sent"}
      PROVE  GoodStep
  <2>1. /\ req' \in [Callers -> Entry] /\ req'[c].at = "waiting"
        /\ req'[c].version = auth.version /\ req'[c].login = login /\ req'[c].token = e.token
        /\ \A d \in Callers \ {c} : req'[d] = req[d]
    BY <1>0, <1>5 DEF AwaitRefresh, Entry
  <2>2. RequestsKnowTheirSession' /\ TokensAreKnown'
    BY <1>0, <1>5, <2>1 DEF RequestsKnowTheirSession, TokensAreKnown, KnownToken
  <2>3. CASE flight = NoFlight
    <3>1. flight' = auth.version /\ spent' = spent \cup {auth.version} /\ auth.version \notin spent
          /\ auth.version # NoFlight
      BY <1>0, <1>5, <2>3, VersionFacts DEF AwaitRefresh, SpentIsPast
    <3>2. SpentIsPast' /\ FlightIsAskedFor'
      BY <1>0, <1>5, <2>1, <3>1 DEF SpentIsPast, FlightIsAskedFor
    <3>3. SurvivesStep /\ RotatesStep /\ EndedStep
      BY <1>5, <2>1, <3>1 DEF SurvivesStep, RotatesStep, EndedStep
    <3>4. SessionType'
      BY <1>0, <1>5, <2>1, <3>1 DEF SessionType, Auth, Entry
    <3> QED BY <1>5, <2>2, <3>2, <3>3, <3>4 DEF GoodStep
  <2>4. CASE flight # NoFlight
    <3>1. flight' = flight /\ spent' = spent
      BY <1>5, <2>4 DEF AwaitRefresh
    <3>2. SpentIsPast'
      BY <1>5, <3>1 DEF SpentIsPast
    <3>3. FlightIsAskedFor'
      BY <1>0, <1>5, <2>1, <3>1 DEF FlightIsAskedFor
    <3>4. SessionType'
      BY <1>0, <1>5, <2>1, <3>1 DEF SessionType, Auth, Entry
    <3> QED BY <1>5, <2>2, <2>4, <3>1, <3>2, <3>3, <3>4 DEF GoodStep,
            SurvivesStep, RotatesStep, EndedStep
  <2> QED BY <2>3, <2>4
<1>6. CASE CheckExpiry
  <2> DEFINE e == Call("idle", TokenOf(auth), auth)
  <2>1. e \in Entry /\ e.version = auth.version /\ e.login = login
        /\ e.token.version = auth.version /\ e.token.login = login
    BY <1>0 DEF Auth, Entry, Call, TokenOf
  <2>2. KnownToken(e.token) /\ e.token.version <= e.version
    BY <1>0, <1>6, <2>1 DEF KnownToken, CheckExpiry
  <2> HIDE DEF e
  <2>3. AwaitRefresh(Timer, e) /\ UNCHANGED <<auth, given, form, login>>
        /\ req[Timer].at = "idle" /\ Timer \in Callers
    BY <1>6 DEF CheckExpiry, e, Idle, Callers
  <2> QED BY <1>5, <2>1, <2>2, <2>3
\* A request alone goes on, with a token that is known or with none.
<1>7. ASSUME NEW r \in Callers, UNCHANGED <<auth, given, flight, form, login, spent>>,
             req[r].at # "waiting", NEW e \in Entry, req' = [req EXCEPT ![r] = e],
             e.at # "waiting",
             e.at # "idle" => /\ e.version = auth.version /\ e.login = login
                              /\ KnownToken(e.token) /\ e.token.version <= e.version
      PROVE  GoodStep
  <2>1. /\ req' \in [Callers -> Entry] /\ req'[r] = e
        /\ \A d \in Callers \ {r} : req'[d] = req[d]
    BY <1>0, <1>7
  <2>2. RequestsKnowTheirSession' /\ TokensAreKnown'
    BY <1>0, <1>7, <2>1 DEF RequestsKnowTheirSession, TokensAreKnown, KnownToken
  <2>3. SpentIsPast' /\ FlightIsAskedFor'
    BY <1>0, <1>7, <2>1 DEF SpentIsPast, FlightIsAskedFor
  <2>4. SessionType'
    BY <1>0, <1>7, <2>1 DEF SessionType, Auth, Entry
  <2> QED BY <1>7, <2>2, <2>3, <2>4 DEF GoodStep, SurvivesStep, RotatesStep, EndedStep
<1>8. ASSUME NEW r \in Requests, Fetch(r)
      PROVE  GoodStep
  <2>1. PICK t \in given : req' = [req EXCEPT ![r] = Call("sent", t, auth)]
    BY <1>8 DEF Fetch
  <2> DEFINE e == Call("sent", t, auth)
  <2>2. /\ e \in Entry /\ e.at = "sent" /\ e.version = auth.version /\ e.login = login
        /\ KnownToken(e.token) /\ e.token.version <= e.version
    BY <1>0 DEF Entry, Call, TokensAreKnown, KnownToken
  <2> HIDE DEF e
  <2>3. UNCHANGED <<auth, given, flight, form, login, spent>> /\ r \in Callers
        /\ req[r].at # "waiting" /\ req' = [req EXCEPT ![r] = e]
    <3>1. req[r] = Idle /\ UNCHANGED <<auth, given, flight, form, login, spent>>
      BY <1>8 DEF Fetch
    <3> QED BY <2>1, <3>1 DEF Callers, Idle, e
  <2> QED BY <1>7, <2>2, <2>3
<1>8a. ASSUME NEW r \in Requests, FetchAnswered(r)
       PROVE  GoodStep
  BY <1>0, <1>7, <1>8a DEF FetchAnswered, Callers
<1>9. ASSUME NEW r \in Requests, Unauthorized(r)
      PROVE  GoodStep
  <2>0. r \in Callers /\ req[r] \in Entry /\ req[r].at = "sent"
        /\ UNCHANGED <<auth, given, form, login>>
    BY <1>0, <1>9 DEF Unauthorized, Callers
  <2>1. CASE auth.version = req[r].version
    <3>1. req[r].login = login /\ KnownToken(req[r].token) /\ req[r].token.version <= req[r].version
      BY <2>0, <2>1 DEF RequestsKnowTheirSession
    <3>2. AwaitRefresh(r, req[r])
      BY <1>9, <2>1 DEF Unauthorized
    <3> QED BY <1>5, <2>0, <2>1, <3>1, <3>2
  <2>2. CASE auth.version # req[r].version /\ ~auth.token
    BY <1>0, <1>7, <1>9, <2>0, <2>2 DEF Unauthorized
  <2>3. CASE auth.version # req[r].version /\ auth.token
    <3> DEFINE e == Call("retried", TokenOf(auth), auth)
    <3>1. /\ e \in Entry /\ e.at = "retried" /\ e.version = auth.version /\ e.login = login
          /\ KnownToken(e.token) /\ e.token.version <= e.version
      BY <1>0, <2>3 DEF Entry, Call, KnownToken, TokenOf
    <3> HIDE DEF e
    <3>2. req' = [req EXCEPT ![r] = e] /\ UNCHANGED <<flight, spent>>
      BY <1>9, <2>3 DEF Unauthorized, e
    <3> QED BY <1>7, <2>0, <3>1, <3>2
  <2> QED BY <2>1, <2>2, <2>3
<1>10. ASSUME NEW r \in Requests, RetryRefused(r)
       PROVE  GoodStep
  <2>1. /\ req' \in [Callers -> Entry] /\ req'[r] = Idle /\ req[r].at = "retried" /\ r \in Callers
        /\ \A d \in Callers \ {r} : req'[d] = req[d]
    BY <1>0, <1>10 DEF RetryRefused, Callers
  <2>2. CASE auth.version # req[r].version
    BY <1>0, <1>7, <1>10, <2>1, <2>2 DEF RetryRefused, LogoutIfCurrent
  <2>3. CASE auth.version = req[r].version
    <3>1. auth' \in Auth /\ ~auth'.token /\ ~auth'.stored /\ auth'.version = auth.version + 1
      BY <1>0, <1>10, <2>3, TokenChanges DEF RetryRefused, LogoutIfCurrent, CanChange
    <3>2. req[r].login = login /\ (req[r].token.login = login \/ Outdated(r))
      BY <2>1, <2>3, OwnOrOutdated
    <3>3. SessIInv'
      BY <1>0, <1>10, <1>p, <2>1, <3>1 DEF RetryRefused
    <3> QED BY <1>10, <2>1, <3>1, <3>2, <3>3 DEF RetryRefused, GoodStep,
            SurvivesStep, RotatesStep, EndedStep
  <2> QED BY <2>2, <2>3
<1>11. ASSUME NEW ok \in BOOLEAN, LoginAnswered(ok)
       PROVE  GoodStep
  <2>1. form' \in [complete: BOOLEAN, busy: BOOLEAN, error: BOOLEAN]
    BY <1>0, <1>11 DEF LoginAnswered
  <2>2. CASE ok
    <3>1. auth' \in Auth /\ auth'.token /\ auth'.version = auth.version + 1
          /\ login' = login + 1 /\ login' \in Versions /\ login' <= auth'.version
          /\ given' = given \cup {[version |-> auth.version + 1, login |-> login']}
      BY <1>0, <1>11, <2>2, TokenChanges, VersionFacts DEF LoginAnswered, CanChange
    <3>2. SessIInv'
      BY <1>0, <1>11, <1>p, <2>1, <3>1 DEF LoginAnswered
    <3>3. login' # login /\ UNCHANGED flight
      BY <1>0, <1>11, <3>1 DEF LoginAnswered
    <3> QED BY <3>1, <3>2, <3>3 DEF GoodStep, SurvivesStep, RotatesStep, EndedStep
  <2>3. CASE ~ok
    BY <1>0, <1>11, <2>1, <2>3 DEF LoginAnswered, GoodStep, SessionType,
       TokensAreKnown, KnownToken, RequestsKnowTheirSession, SpentIsPast, FlightIsAskedFor,
       SurvivesStep, RotatesStep, EndedStep, Auth, Entry
  <2> QED BY <2>2, <2>3
<1>12. ASSUME NEW ok \in BOOLEAN, RefreshAnswered(ok)
       PROVE  GoodStep
  <2> DEFINE own == auth.version = flight
             a == IF own /\ ok THEN SetToken(auth) ELSE auth
             none == ~a.token \/ (own /\ ~ok)
             refused == none /\ \E c \in Waiting : req[c].version = a.version
             e == Call("retried", TokenOf(a), a)
  <2>1. /\ flight # NoFlight /\ CanChange /\ flight' = NoFlight
        /\ auth' = (IF refused THEN LoggedOut(a) ELSE a)
        /\ \A c \in Callers : req'[c] =
             IF c \notin Waiting THEN req[c]
             ELSE IF none \/ c = Timer THEN Idle ELSE e
        /\ DOMAIN req' = Callers /\ req' = [c \in Callers |-> req'[c]]
        /\ given' = (IF own /\ ok THEN given \cup {TokenOf(a)} ELSE given)
        /\ UNCHANGED <<form, login, spent>>
    BY <1>12 DEF RefreshAnswered
  <2>2. /\ a \in Auth /\ a.version \in Versions
        /\ own /\ ok => a.token /\ a.version = auth.version + 1
        /\ ~(own /\ ok) => a = auth
    BY <1>0, <2>1, TokenChanges DEF CanChange, Auth
  <2>3. /\ e \in Entry /\ e.at = "retried" /\ e.version = a.version /\ e.login = login
        /\ e.token.version = a.version /\ e.token.login = login
    BY <1>0, <2>2 DEF Entry, Call, TokenOf, Tokens
  <2>4. TokenOf(a) = [version |-> a.version, login |-> login]
    BY DEF TokenOf
  <2> HIDE DEF e
  <2>5. req' \in [Callers -> Entry]
    BY <1>0, <2>1, <2>3
  <2>6. CASE refused
    <3>1. a = auth /\ none /\ ~(own /\ ok)
      BY <1>0, <2>1, <2>2, <2>6, TokenChanges DEF CanChange
    <3>2. auth' \in Auth /\ ~auth'.token /\ ~auth'.stored /\ auth'.version = auth.version + 1
      BY <1>0, <2>1, <2>6, <3>1, TokenChanges DEF CanChange
    <3>3. PICK c \in Callers : req[c].at = "waiting" /\ req[c].version = auth.version
      BY <2>6, <3>1 DEF Waiting
    <3>4. /\ req[c].login = login /\ (req[c].token.login = login \/ Outdated(c))
          /\ req'[c] = Idle
      BY <2>1, <3>1, <3>3, OwnOrOutdated DEF Waiting
    <3>5. \A d \in Callers : req'[d] \in {req[d], Idle}
      BY <2>1, <3>1
    <3>6. SessIInv'
      BY <1>0, <1>p, <2>1, <2>5, <3>1, <3>2, <3>5
    <3> QED BY <2>1, <3>2, <3>3, <3>4, <3>6 DEF GoodStep, SurvivesStep, RotatesStep, EndedStep
  <2>7. CASE ~refused /\ own /\ ok
    <3>1. auth' \in Auth /\ auth'.token /\ auth'.version = auth.version + 1
          /\ a.version = auth.version + 1
      BY <2>1, <2>2, <2>7
    <3>2. \A d \in Callers :
            \/ req'[d] \in {req[d], Idle}
            \/ /\ req'[d].version = auth.version + 1 /\ req'[d].login = login
               /\ req'[d].token.version = auth.version + 1 /\ req'[d].token.login = login
      BY <2>1, <2>3, <3>1
    <3>3. SessIInv'
      BY <1>0, <1>p, <2>1, <2>4, <2>5, <2>7, <3>1, <3>2
    <3>4. PICK c \in Callers : req[c].at = "waiting" /\ req[c].version = auth.version
      BY <2>7 DEF FlightIsAskedFor
    <3>5. auth.token \/ Outdated(c)
      BY <3>4, OwnOrOutdated
    <3> QED BY <2>1, <3>1, <3>3, <3>4, <3>5 DEF GoodStep, SurvivesStep, RotatesStep, EndedStep
  <2>8. CASE ~refused /\ ~(own /\ ok)
    <3>1. auth' = auth /\ a = auth /\ given' = given
      BY <2>1, <2>2, <2>8
    <3>2. \A d \in Callers :
            \/ req'[d] \in {req[d], Idle}
            \/ /\ auth.token /\ req'[d].version = auth.version /\ req'[d].login = login
               /\ req'[d].token.version = auth.version /\ req'[d].token.login = login
      BY <2>1, <2>3, <3>1
    <3>3. flight # auth.version
      BY <2>8, <3>1 DEF FlightIsAskedFor, Waiting
    <3>4. SpentIsPast' /\ FlightIsAskedFor'
      BY <1>0, <2>1, <3>1, <3>3, VersionFacts DEF SpentIsPast, FlightIsAskedFor
    <3>5. RequestsKnowTheirSession'
      BY <1>0, <2>1, <3>1, <3>2 DEF RequestsKnowTheirSession, KnownToken
    <3>6. SessionType' /\ TokensAreKnown'
      BY <1>0, <2>1, <2>5, <3>1 DEF SessionType, Auth, Entry, TokensAreKnown, KnownToken
    <3> QED BY <2>1, <3>1, <3>4, <3>5, <3>6 DEF GoodStep, SurvivesStep, RotatesStep, EndedStep
  <2> QED BY <2>6, <2>7, <2>8
<1> QED BY <1>1, <1>2, <1>3, <1>4, <1>6, <1>8, <1>8a, <1>9, <1>10, <1>11, <1>12 DEF SessionNext

LEMMA SessionInitIInv ==
  ASSUME SessionInit
  PROVE  SessIInv
<1>1. \A c \in Callers : req[c].at = "idle"
  BY DEF SessionInit, Idle
<1>2. auth.version = 0 /\ ~auth.stored /\ login = 0 /\ spent = {} /\ given = {}
      /\ auth.version # NoFlight
  BY VersionFacts DEF SessionInit
<1>3. /\ auth \in Auth /\ req \in [Callers -> Entry]
      /\ form \in [complete: BOOLEAN, busy: BOOLEAN, error: BOOLEAN]
      /\ flight = NoFlight
  <2>1. Idle \in Entry
    BY VersionFacts DEF Entry, Idle, Tokens
  <2>2. auth \in Auth
    <3>1. PICK kept \in BOOLEAN :
            auth = [token |-> FALSE, version |-> 0, register |-> FALSE,
                    initialized |-> FALSE, stored |-> FALSE, storage |-> kept]
      BY DEF SessionInit
    <3> QED BY <3>1, VersionFacts DEF Auth
  <2> QED BY <2>1, <2>2 DEF SessionInit, EmptyForm
<1> QED BY <1>1, <1>2, <1>3, VersionFacts DEF SessIInv, SessionType, Auth, Entry,
        RequestsKnowTheirSession, TokensAreKnown, SpentIsPast, FlightIsAskedFor

LEMMA WebStepSession ==
  SessIInv /\ [WebNext]_webVars
    => /\ SessIInv' /\ [SurvivesStep]_sessionVars
       /\ [RotatesStep]_sessionVars /\ [EndedStep]_sessionVars
<1> SUFFICES ASSUME SessIInv, [WebNext]_webVars
             PROVE  /\ SessIInv' /\ [SurvivesStep]_sessionVars
                    /\ [RotatesStep]_sessionVars /\ [EndedStep]_sessionVars
  OBVIOUS
<1>1. CASE SessionNext
  BY <1>1, SessionStepIInv DEF GoodStep
<1>2. CASE UNCHANGED sessionVars
  BY <1>2 DEF sessionVars, SessIInv, SessionType, RequestsKnowTheirSession, TokensAreKnown,
     KnownToken, SpentIsPast, FlightIsAskedFor
<1> QED BY <1>1, <1>2 DEF WebNext, AddView, SessionView, ListView, SettingsView, ChatView, webVars

\* The types and what is known of every request and refresh always hold.
THEOREM SessionInvariance == WebSpec => []SessIInv
<1>1. WebInit => SessIInv
  BY SessionInitIInv DEF WebInit
<1> QED BY <1>1, WebStepSession, PTL DEF WebSpec

\* A session that ended stays ended and a late answer of an earlier session does
\* not end a newer one, but for the requests of a page that still holds an
\* earlier token; one version of the store begins one refresh, for any number
\* of requests, of tokens held and of changes of the token.
THEOREM SessionsStaySound == WebSpec => SessionsStayApart
<1>1. WebInit => SessIInv
  BY SessionInitIInv DEF WebInit
<1>2. SessIInv => LogoutLasts
  BY DEF SessIInv, LogoutLasts
<1> QED BY <1>1, <1>2, WebStepSession, PTL
    DEF WebSpec, SessionsStayApart, NewerLoginSurvives, RotatesOnce, EndedForGood,
        SurvivesStep, RotatesStep, EndedStep
-----------------------------------------------------------------------------
(***************************************************************************)
(* The recorder of a browser tab.  A recording is in one place at a time:  *)
(* with the call that begins it, in the recorder, in the event that ends   *)
(* it or in the dialog.                                                    *)
(***************************************************************************)
OnePlace ==
  /\ sys.recorder # None => sys.stops = {} /\ sys.blob = None
  /\ sys.stops # {} => sys.blob = None
  /\ \A a, b \in sys.stops : a = b
  /\ sys.denied => sys.recorder = None /\ sys.stops = {} /\ sys.blob = None
  /\ sys.uploading => sys.blob # None

CallsAreCurrent ==
  /\ \A c, d \in sys.calls : c.at = d.at => c = d
  /\ \A c \in sys.calls : c.at = sys.attempt =>
       /\ sys.recorder = None /\ sys.stops = {} /\ sys.blob = None
       /\ ~sys.denied /\ sys.starting
       /\ c.step = "display" => sys.live = {}
       /\ <<sys.microphone, "mic">> \notin sys.live

NothingBehind ==
  /\ ~sys.open => sys.owed = sys.lost /\ sys.attempt = None
  /\ sys.open => sys.lost = {}
  /\ ~sys.supported => sys.calls = {} /\ sys.owed = {}
  /\ sys.uploading => sys.open /\ sys.supported
  /\ sys.live # {} => sys.starting \/ sys.recorder # None

SysIInv ==
  /\ SysTypeOK /\ OnePlace /\ CallsAreCurrent /\ NothingBehind
  /\ SysRecordingKept /\ SysTracksReleased

SysRecord ==
  [open: BOOLEAN, supported: BOOLEAN, starting: BOOLEAN,
   recording: BOOLEAN, denied: BOOLEAN, uploading: BOOLEAN,
   blob: Recordings, attempt: Recordings, display: Recordings,
   microphone: Recordings, recorder: Recordings,
   calls: SUBSET Prompts, live: SUBSET Tracks,
   stops: SUBSET Attempts, owed: SUBSET Attempts, lost: SUBSET Attempts]

\* What an action of the dialog may do, also from the rest of the menu.
SysAction ==
  \/ SysNext \/ SysOpen \/ SysUpload \/ \E ok \in BOOLEAN : SysUploadAnswered(ok)
  \/ sys' = SysUnmounted

\* Stopping releases every track, and gives the recorder's audio to its event.
LEMMA StopFields ==
  ASSUME NEW d \in SysRecord, NEW e, e = StopRecording(d)
  PROVE  /\ e \in SysRecord
         /\ e.open = d.open /\ e.supported = d.supported /\ ~e.starting
         /\ e.recording = d.recording /\ e.denied = d.denied /\ e.uploading = d.uploading
         /\ e.blob = d.blob /\ e.attempt = None /\ e.display = None /\ e.microphone = None
         /\ e.recorder = None /\ e.calls = d.calls /\ e.owed = d.owed /\ e.lost = d.lost
         /\ e.live = d.live \ Held(d) /\ e.stops = d.stops \cup ({d.recorder} \ {None})
<1>1. e = [d EXCEPT !.attempt = None, !.starting = FALSE,
                    !.stops = d.stops \cup ({d.recorder} \ {None}),
                    !.live = d.live \ Held(d), !.display = None,
                    !.microphone = None, !.recorder = None]
  BY DEF StopRecording, CleanupStreams, Held, SysRecord
<1>2. d.stops \cup ({d.recorder} \ {None}) \in SUBSET Attempts
      /\ d.live \ Held(d) \in SUBSET Tracks
  BY DEF SysRecord, Recordings
<1>3. e \in SysRecord
  BY <1>1, <1>2 DEF SysRecord, Recordings
<1> QED BY <1>1, <1>3 DEF SysRecord

LEMMA ClosedFields ==
  ASSUME NEW d \in SysRecord, NEW e, e = SysClosed(d)
  PROVE  /\ e \in SysRecord
         /\ ~e.open /\ e.supported = d.supported /\ ~e.starting
         /\ e.recording = d.recording /\ e.denied = d.denied /\ e.uploading = d.uploading
         /\ e.blob = d.blob /\ e.attempt = None /\ e.display = None /\ e.microphone = None
         /\ e.recorder = None /\ e.calls = d.calls /\ e.owed = d.owed /\ e.stops = d.stops
         /\ e.lost = d.lost /\ e.live \subseteq d.live \ Held(d)
<1>1. PICK f : f = [d EXCEPT !.open = FALSE, !.attempt = None, !.live = d.live \ Held(d),
                             !.display = None, !.microphone = None, !.recorder = None]
  OBVIOUS
<1>2. [Detached(d) EXCEPT !.open = FALSE] = f
  BY <1>1 DEF Detached, CleanupStreams, Held, SysRecord
<1>3. d.live \ Held(d) \in SUBSET Tracks
  BY DEF SysRecord
<1>4. f \in SysRecord
  BY <1>1, <1>3 DEF SysRecord, Recordings
<1>5. e = StopRecording(f)
  BY <1>2 DEF SysClosed
<1>6. /\ ~f.open /\ f.supported = d.supported
      /\ f.recording = d.recording /\ f.denied = d.denied /\ f.uploading = d.uploading
      /\ f.blob = d.blob /\ f.recorder = None /\ f.calls = d.calls /\ f.owed = d.owed
      /\ f.lost = d.lost /\ f.stops = d.stops /\ f.live = d.live \ Held(d)
  BY <1>1 DEF SysRecord
<1>7. /\ e \in SysRecord
      /\ e.open = f.open /\ e.supported = f.supported /\ ~e.starting
      /\ e.recording = f.recording /\ e.denied = f.denied /\ e.uploading = f.uploading
      /\ e.blob = f.blob /\ e.attempt = None /\ e.display = None /\ e.microphone = None
      /\ e.recorder = None /\ e.calls = f.calls /\ e.owed = f.owed /\ e.lost = f.lost
      /\ e.live = f.live \ Held(f) /\ e.stops = f.stops \cup ({f.recorder} \ {None})
  BY <1>4, <1>5, StopFields
<1> QED BY <1>6, <1>7

LEMMA SysStepIInv ==
  ASSUME SysIInv, SysAction
  PROVE  SysIInv'
<1> USE AttemptsAssumption DEF SysIInv
<1> DEFINE Parts == OnePlace /\ CallsAreCurrent /\ NothingBehind
                    /\ SysRecordingKept /\ SysTracksReleased
<1>0. sys \in SysRecord /\ Parts
  BY DEF SysTypeOK, SysRecord
<1>1. ASSUME sys' \in SysRecord, Parts' PROVE SysIInv'
  BY <1>1 DEF SysTypeOK, SysRecord
<1> HIDE DEF SysIInv
<1>2. CASE SysOpen \/ SysUpload
  <2>1. sys' \in SysRecord
    BY <1>0, <1>2 DEF SysOpen, SysUpload, SysRecord
  <2>2. Parts'
    BY <1>0, <1>2 DEF SysOpen, SysUpload, CompleteScreen, SysRecord, OnePlace, CallsAreCurrent,
       NothingBehind, SysRecordingKept, SysTracksReleased, Held
  <2> QED BY <1>1, <2>1, <2>2
<1>3. CASE SysStart
  <2>1. PICK at \in Attempts \ InUse :
          sys' = [sys EXCEPT !.attempt = at, !.starting = TRUE, !.denied = FALSE,
                             !.calls = sys.calls \cup {[at |-> at, step |-> "display"]}]
    BY <1>3 DEF SysStart
  <2>2. [at |-> at, step |-> "display"] \in Prompts
    BY DEF Prompts
  <2>3. sys' \in SysRecord
    BY <1>0, <2>1, <2>2 DEF SysRecord, Recordings
  <2>4. sys.recorder = None /\ sys.stops = {} /\ sys.blob = None /\ ~sys.starting
        /\ sys.open /\ sys.supported /\ \A c \in sys.calls : c.at # at
    BY <1>0, <1>3, <2>1 DEF SysStart, ReadyScreen, DeniedScreen, OnePlace, InUse
  <2>5. sys.live = {}
    BY <1>0, <2>4 DEF NothingBehind
  <2> QED BY <1>0, <1>1, <2>1, <2>3, <2>4, <2>5 DEF SysRecord, OnePlace, CallsAreCurrent,
          NothingBehind, SysRecordingKept, SysTracksReleased, Held
<1>4. ASSUME NEW d \in SysRecord, sys' = StopRecording(d),
             d = [sys EXCEPT !.live = d.live], d.live \subseteq sys.live, d.live \subseteq Held(d)
      PROVE  SysIInv'
  <2>1. /\ sys' \in SysRecord
        /\ sys'.open = d.open /\ sys'.supported = d.supported /\ ~sys'.starting
        /\ sys'.denied = d.denied /\ sys'.uploading = d.uploading
        /\ sys'.blob = d.blob /\ sys'.attempt = None /\ sys'.recorder = None
        /\ sys'.calls = d.calls /\ sys'.owed = d.owed /\ sys'.lost = d.lost
        /\ sys'.live = d.live \ Held(d) /\ sys'.stops = d.stops \cup ({d.recorder} \ {None})
    BY <1>4, StopFields
  <2>2. /\ d.open = sys.open /\ d.supported = sys.supported /\ d.denied = sys.denied
        /\ d.uploading = sys.uploading /\ d.blob = sys.blob /\ d.calls = sys.calls
        /\ d.owed = sys.owed /\ d.lost = sys.lost /\ d.stops = sys.stops /\ d.recorder = sys.recorder
        /\ Held(d) = Held(sys)
    BY <1>0, <1>4 DEF SysRecord, Held
  <2>3. sys'.live = {}
    BY <1>4, <2>1
  <2>4. \A c \in sys.calls : c.at # None
    BY <1>0 DEF SysRecord, Prompts
  <2> QED BY <1>0, <1>1, <2>1, <2>2, <2>3, <2>4 DEF OnePlace, CallsAreCurrent,
          NothingBehind, SysRecordingKept, SysTracksReleased, Held
<1>5. CASE SysStop
  BY <1>0, <1>4, <1>5 DEF SysStop, SysTracksReleased, SysRecord
<1>6. CASE StopSharing
  BY <1>0, <1>4, <1>6 DEF StopSharing, SysTracksReleased, SysRecord, Held
\* A dialog that closes has nothing the user did not give up or store.
<1>7. ASSUME NEW d \in SysRecord, sys' = SysClosed(d), d.owed = {}, d.lost = {},
             d.supported = sys.supported, d.calls = sys.calls, d.stops \subseteq sys.stops,
             d.blob \in {None, sys.blob},
             ~d.uploading,
             ~d.denied \/ d.denied = sys.denied, d.live \ Held(d) = {}
      PROVE  SysIInv'
  <2>1. /\ sys' \in SysRecord
        /\ ~sys'.open /\ sys'.supported = d.supported
        /\ sys'.denied = d.denied /\ sys'.uploading = d.uploading
        /\ sys'.blob = d.blob /\ sys'.attempt = None /\ sys'.recorder = None
        /\ sys'.calls = d.calls /\ sys'.owed = d.owed /\ sys'.stops = d.stops
        /\ sys'.lost = d.lost /\ sys'.live = {}
    BY <1>7, ClosedFields
  <2>2. \A c \in sys.calls : c.at # None
    BY <1>0 DEF SysRecord, Prompts
  <2>3. OnePlace'
    BY <1>0, <1>7, <2>1 DEF OnePlace
  <2>4. CallsAreCurrent' /\ NothingBehind' /\ SysRecordingKept' /\ SysTracksReleased'
    BY <1>0, <1>7, <2>1, <2>2 DEF CallsAreCurrent, NothingBehind, SysRecordingKept, SysTracksReleased
  <2> QED BY <1>1, <2>1, <2>3, <2>4
<1>8. ASSUME NEW ok \in BOOLEAN, SysUploadAnswered(ok) PROVE SysIInv'
  <2>1. sys.blob # None /\ sys.recorder = None /\ sys.stops = {} /\ sys.owed \subseteq {sys.blob}
        /\ sys.open /\ sys.lost = {}
    BY <1>0, <1>8 DEF SysUploadAnswered, OnePlace, NothingBehind, SysRecordingKept, SysRecord
  <2>2. CASE ok
    <3>1. PICK d : d = [sys EXCEPT !.uploading = FALSE, !.blob = None,
                                   !.owed = sys.owed \ {sys.blob}]
      OBVIOUS
    <3>2. /\ d \in SysRecord /\ d.owed = {} /\ d.supported = sys.supported
          /\ d.calls = sys.calls /\ d.stops = sys.stops /\ d.blob = None /\ ~d.uploading
          /\ d.denied = sys.denied /\ d.live = sys.live /\ Held(d) = Held(sys) /\ d.lost = {}
      BY <1>0, <2>1, <3>1 DEF SysRecord, Recordings, Held
    <3>3. sys' = SysClosed(d)
      BY <1>8, <2>2, <3>1 DEF SysUploadAnswered
    <3>4. /\ d.stops \subseteq sys.stops /\ d.blob \in {None, sys.blob}
          /\ ~d.denied \/ d.denied = sys.denied
          /\ d.live \ Held(d) = {}
      BY <1>0, <3>2 DEF SysTracksReleased
    <3> QED BY <1>7, <3>2, <3>3, <3>4
  <2>3. CASE ~ok
    <3>1. sys' = [sys EXCEPT !.uploading = FALSE]
      BY <1>8, <2>3 DEF SysUploadAnswered
    <3> QED BY <1>0, <1>1, <3>1 DEF SysRecord, OnePlace, CallsAreCurrent,
            NothingBehind, SysRecordingKept, SysTracksReleased, Held
  <2> QED BY <2>2, <2>3
<1>9. CASE SysCloseUnsupported
  <2>1. ~sys.supported /\ sys.owed = {} /\ sys.lost = {} /\ ~sys.uploading
    BY <1>0, <1>9 DEF SysCloseUnsupported, UnsupportedScreen, NothingBehind
  <2> QED BY <1>0, <1>7, <1>9, <2>1 DEF SysCloseUnsupported, SysTracksReleased
<1>10. CASE SysClose
  <2>1. PICK f : f = [sys EXCEPT !.recorder = None, !.blob = None, !.recording = FALSE,
                                 !.denied = FALSE, !.owed = {}]
    OBVIOUS
  <2>2. /\ f \in SysRecord /\ f.owed = {} /\ f.supported = sys.supported
        /\ f.calls = sys.calls /\ f.stops = sys.stops /\ f.blob = None /\ f.recorder = None
        /\ f.uploading = sys.uploading /\ ~f.denied /\ f.live = sys.live /\ Held(f) = Held(sys)
        /\ f.lost = sys.lost
    BY <1>0, <2>1 DEF SysRecord, Recordings, Held
  <2>3. PICK d : d = StopRecording(f)
    OBVIOUS
  <2>4. /\ d \in SysRecord /\ d.owed = f.owed /\ d.supported = f.supported /\ d.calls = f.calls
        /\ d.stops = f.stops \cup ({f.recorder} \ {None}) /\ d.blob = f.blob
        /\ d.uploading = f.uploading /\ d.denied = f.denied /\ d.live = f.live \ Held(f)
        /\ d.lost = f.lost
    BY <2>2, <2>3, StopFields
  <2>5. ~sys.uploading /\ sys.lost = {} /\ sys' = SysClosed(d)
    BY <1>0, <1>10, <2>1, <2>3 DEF SysClose, NothingBehind
  <2>6. d.live = {} /\ d.stops = sys.stops
    BY <1>0, <2>2, <2>4 DEF SysTracksReleased
  <2>7. /\ d.owed = {} /\ d.supported = sys.supported /\ d.calls = sys.calls
        /\ d.stops \subseteq sys.stops /\ d.blob \in {None, sys.blob}
        /\ ~d.uploading /\ d.lost = {}
        /\ ~d.denied \/ d.denied = sys.denied
        /\ d.live \ Held(d) = {}
    BY <2>2, <2>4, <2>5, <2>6
  <2> QED BY <1>7, <2>4, <2>5, <2>7
<1>11. ASSUME sys' = SysUnmounted PROVE SysIInv'
  <2>1. sys.live \ Held(sys) = {} /\ sys.lost \subseteq sys.owed
    BY <1>0 DEF SysTracksReleased, NothingBehind
  <2>2. sys' = [sys EXCEPT !.attempt = None, !.live = sys.live \ Held(sys), !.display = None,
                  !.microphone = None, !.recorder = None, !.open = FALSE, !.starting = FALSE,
                  !.recording = FALSE, !.denied = FALSE, !.uploading = FALSE, !.blob = None,
                  !.stops = {}, !.lost = sys.owed]
    BY <1>0, <1>11 DEF SysUnmounted, Detached, CleanupStreams, SysRecord, Held
  <2>3. sys' \in SysRecord
    BY <1>0, <2>1, <2>2 DEF SysRecord, Recordings
  <2>4. /\ ~sys'.open /\ sys'.supported = sys.supported /\ ~sys'.denied /\ ~sys'.uploading
        /\ sys'.attempt = None /\ sys'.recorder = None /\ sys'.stops = {} /\ sys'.blob = None
        /\ sys'.calls = sys.calls /\ sys'.owed = sys.owed /\ sys'.lost = sys.owed
        /\ sys'.live = {}
    BY <1>0, <2>1, <2>2 DEF SysRecord
  <2>5. \A c \in sys.calls : c.at # None
    BY <1>0 DEF SysRecord, Prompts
  <2> QED BY <1>0, <1>1, <2>3, <2>4, <2>5 DEF OnePlace, CallsAreCurrent,
          NothingBehind, SysRecordingKept, SysTracksReleased
<1>12. ASSUME NEW a \in sys.stops, RecorderStopped(a) PROVE SysIInv'
  <2>1. a \in Attempts /\ sys.stops = {a} /\ sys.recorder = None /\ ~sys.denied
    BY <1>0, <1>12 DEF SysRecord, OnePlace
  <2>2. sys' = [sys EXCEPT !.stops = {}, !.blob = a, !.recording = FALSE]
    BY <1>12, <2>1 DEF RecorderStopped
  <2>3. sys' \in SysRecord
    BY <1>0, <2>1, <2>2 DEF SysRecord, Recordings
  <2> QED BY <1>0, <1>1, <2>1, <2>2, <2>3 DEF SysRecord, OnePlace, CallsAreCurrent,
          NothingBehind, SysRecordingKept, SysTracksReleased, Held
\* The prompts.  A call that is not current any more changes nothing else.
<1>13. ASSUME NEW c \in sys.calls, sys' = CaptureAnswered(c) PROVE SysIInv'
  <2>1. sys' = [sys EXCEPT !.calls = sys.calls \ {c}]
    BY <1>13 DEF CaptureAnswered
  <2>2. sys' \in SysRecord
    BY <1>0, <2>1 DEF SysRecord
  <2> QED BY <1>0, <1>1, <2>1, <2>2 DEF SysRecord, OnePlace, CallsAreCurrent,
          NothingBehind, SysRecordingKept, SysTracksReleased, Held
<1>14. ASSUME NEW c \in sys.calls, Current(c)
       PROVE  /\ c \in Prompts /\ c.at \in Attempts /\ c.at # None /\ c.at = sys.attempt
              /\ sys.recorder = None /\ sys.stops = {} /\ sys.blob = None /\ ~sys.uploading
              /\ ~sys.denied /\ sys.starting /\ (c.step = "display" => sys.live = {})
              /\ <<sys.microphone, "mic">> \notin sys.live
              /\ \A d \in sys.calls \ {c} : d.at # sys.attempt
              /\ sys.open /\ sys.supported
  BY <1>0, <1>14 DEF Current, CallsAreCurrent, OnePlace, NothingBehind, SysRecord, Prompts
<1>15. ASSUME NEW c \in sys.calls, Current(c), NEW refused \in BOOLEAN,
              sys' = [CleanupStreams(CaptureAnswered(c)) EXCEPT
                        !.denied = refused, !.starting = FALSE]
       PROVE  SysIInv'
  <2>1. sys' = [sys EXCEPT !.calls = sys.calls \ {c}, !.live = sys.live \ Held(sys),
                  !.display = None, !.microphone = None, !.recorder = None,
                  !.denied = refused, !.starting = FALSE]
    BY <1>0, <1>15 DEF CleanupStreams, CaptureAnswered, SysRecord, Held
  <2>2. sys.live \ Held(sys) = {}
    BY <1>0 DEF SysTracksReleased
  <2>3. sys' \in SysRecord
    BY <1>0, <2>1, <2>2 DEF SysRecord, Recordings
  <2>4. /\ sys'.live = {} /\ sys'.recorder = None /\ sys'.calls = sys.calls \ {c}
        /\ sys'.stops = sys.stops /\ sys'.blob = sys.blob /\ sys'.owed = sys.owed
        /\ sys'.uploading = sys.uploading /\ sys'.open = sys.open
        /\ sys'.supported = sys.supported /\ sys'.attempt = sys.attempt
        /\ sys'.lost = sys.lost
    BY <1>0, <2>1, <2>2 DEF SysRecord
  <2>5. OnePlace' /\ CallsAreCurrent'
    BY <1>0, <1>14, <1>15, <2>4 DEF OnePlace, CallsAreCurrent
  <2>6. NothingBehind' /\ SysRecordingKept' /\ SysTracksReleased'
    BY <1>0, <1>14, <1>15, <2>4 DEF NothingBehind, SysRecordingKept, SysTracksReleased
  <2> QED BY <1>1, <2>3, <2>5, <2>6
<1>16. ASSUME NEW c \in sys.calls, RecorderFails(c) PROVE SysIInv'
  <2>1. CASE Current(c)
    <3>1. sys' = [CleanupStreams(CaptureAnswered(c)) EXCEPT !.starting = FALSE]
      BY <1>16, <2>1 DEF RecorderFails
    <3>2. sys' = [CleanupStreams(CaptureAnswered(c)) EXCEPT !.denied = sys.denied, !.starting = FALSE]
      BY <1>0, <3>1 DEF CleanupStreams, CaptureAnswered, SysRecord, Held
    <3> QED BY <1>0, <1>15, <2>1, <3>2 DEF SysRecord
  <2> QED BY <1>13, <1>16, <2>1 DEF RecorderFails
<1>17. ASSUME NEW c \in sys.calls, NEW yes \in BOOLEAN, DisplayUnusable(c, yes) PROVE SysIInv'
  BY <1>13, <1>15, <1>17 DEF DisplayUnusable
<1>18. ASSUME NEW c \in sys.calls, DisplayGranted(c) PROVE SysIInv'
  <2>1. CASE Current(c)
    <3>1. sys.live = {}
      BY <1>14, <1>18, <2>1 DEF DisplayGranted
    <3>2. PICK e : e = [c EXCEPT !.step = "mic"]
      OBVIOUS
    <3>3. e \in Prompts /\ e.at = c.at /\ e.step = "mic"
      BY <1>14, <2>1, <3>2 DEF Prompts
    <3>4. sys' = [sys EXCEPT !.calls = (sys.calls \ {c}) \cup {e}, !.display = c.at,
                    !.live = {<<c.at, "display">>}]
      BY <1>0, <1>18, <2>1, <3>1, <3>2 DEF DisplayGranted, CaptureAnswered, SysRecord
    <3>5. sys' \in SysRecord
      <4>1. /\ (sys.calls \ {c}) \cup {e} \in SUBSET Prompts /\ c.at \in Recordings
            /\ {<<c.at, "display">>} \in SUBSET Tracks
        BY <1>0, <1>14, <2>1, <3>3 DEF SysRecord, Recordings, Tracks
      <4> QED BY <1>0, <3>4, <4>1 DEF SysRecord
    <3> QED BY <1>0, <1>1, <1>14, <2>1, <3>1, <3>3, <3>4, <3>5 DEF SysRecord, OnePlace,
            CallsAreCurrent, NothingBehind, SysRecordingKept, SysTracksReleased, Held
  <2> QED BY <1>13, <1>18, <2>1 DEF DisplayGranted
<1>19. ASSUME NEW c \in sys.calls, NEW yes \in BOOLEAN, MicAnswered(c, yes) PROVE SysIInv'
  <2>1. CASE Current(c)
    <3>1. /\ sys'.calls = sys.calls \ {c} /\ sys'.recorder = c.at /\ sys'.blob = None
          /\ ~sys'.starting /\ sys'.owed = sys.owed \cup {c.at}
          /\ sys'.microphone = (IF yes THEN c.at ELSE sys.microphone)
          /\ sys'.live = (IF yes THEN sys.live \cup {<<c.at, "mic">>} ELSE sys.live)
          /\ sys'.display = sys.display /\ sys'.stops = sys.stops /\ sys'.denied = sys.denied
          /\ sys'.uploading = sys.uploading /\ sys'.open = sys.open
          /\ sys'.supported = sys.supported /\ sys'.attempt = sys.attempt
          /\ sys'.lost = {}
      BY <1>0, <1>14, <1>19, <2>1 DEF NothingBehind, MicAnswered, CaptureAnswered, SysRecord
    <3>2. sys' \in SysRecord
      <4> DEFINE newLive == IF yes THEN sys.live \cup {<<c.at, "mic">>} ELSE sys.live
                 newMic == IF yes THEN c.at ELSE sys.microphone
      <4>1. newLive \in SUBSET Tracks /\ newMic \in Recordings /\ c.at \in Recordings
            /\ sys.owed \cup {c.at} \in SUBSET Attempts /\ sys.calls \ {c} \in SUBSET Prompts
            /\ None \in Recordings
        BY <1>0, <1>14, <2>1 DEF SysRecord, Recordings, Tracks
      <4>2. sys' = [sys EXCEPT !.calls = sys.calls \ {c}, !.microphone = newMic, !.live = newLive,
                      !.recorder = c.at, !.recording = TRUE, !.blob = None,
                      !.starting = FALSE, !.owed = sys.owed \cup {c.at}]
        BY <1>0, <1>19, <2>1 DEF MicAnswered, CaptureAnswered, SysRecord
      <4> HIDE DEF newLive, newMic
      <4> QED BY <1>0, <4>1, <4>2 DEF SysRecord
    <3>3. sys.owed = {}
      BY <1>0, <1>14, <2>1 DEF NothingBehind, SysRecordingKept, SysRecord
    <3>4. sys'.live \subseteq Held(sys')
      BY <1>0, <1>14, <2>1, <3>1 DEF SysTracksReleased, Held
    <3> QED BY <1>0, <1>1, <1>14, <2>1, <3>1, <3>2, <3>3, <3>4 DEF OnePlace,
            CallsAreCurrent, NothingBehind, SysRecordingKept, SysTracksReleased
  <2> QED BY <1>13, <1>19, <2>1 DEF MicAnswered
<1> QED BY <1>2, <1>3, <1>5, <1>6, <1>8, <1>9, <1>10, <1>11, <1>12, <1>16, <1>17, <1>18, <1>19
    DEF SysAction, SysNext

LEMMA SysInitIInv ==
  ASSUME SysInit
  PROVE  SysIInv
<1>1. PICK supported \in BOOLEAN : sys = SysFresh(supported)
  BY DEF SysInit
<1>2. SysTypeOK
  BY <1>1 DEF SysFresh, SysTypeOK, Recordings
<1> QED BY <1>1, <1>2 DEF SysFresh, SysIInv, OnePlace, CallsAreCurrent, NothingBehind,
        SysRecordingKept, SysTracksReleased
-----------------------------------------------------------------------------
(***************************************************************************)
(* The microphone dialog.  As long as no capture is astray, one recording  *)
(* at most is owed to the user: it is in the plugin that captures while    *)
(* the dialog says that it records, in the event that ends it, or in the   *)
(* dialog.  A plugin of a closed opening may go on capturing, but then it  *)
(* is not the one the dialog's buttons reach.                              *)
(***************************************************************************)
Out == mic.owed \ mic.lost

OneCapture ==
  /\ \A p, q \in mic.starts : p = q
  /\ mic.starts # {} => Out = {} /\ ~mic.discard /\ ~mic.recording
  /\ "new" \in mic.starts => mic.blob = NoPlugin /\ mic.ended = {} /\ ~mic.uploading
  /\ mic.lost # {} => ~mic.open /\ mic.starts = {}
  /\ \A p, q \in mic.ended : p = q
  /\ mic.record = "new" /\ ~mic.recording => mic.ended = {}
  /\ mic.recording => ~mic.discard
  /\ mic.uploading => mic.blob # NoPlugin \/ mic.recording
  /\ \A p \in mic.active : p \in Out \/ (p = "late" /\ mic.record # "late")

Place(p) ==
  \/ p \in mic.active /\ mic.ended = {} /\ mic.recording /\ mic.blob = NoPlugin
  \/ p \notin mic.active /\ mic.ended = {p} /\ mic.recording /\ mic.blob = NoPlugin
  \/ p \notin mic.active /\ mic.ended = {} /\ ~mic.recording /\ mic.blob = p

OwedIsThere ==
  /\ \A p \in Out : p \in {"new", "late"} /\ Place(p)
  /\ \A p, q \in Out : p = q
  /\ "new" \in Out /\ mic.uploading => mic.blob = "new"

MicIInv ==
  MicTypeOK /\ (~mic.astray => OneCapture /\ OwedIsThere)

LEMMA MicKept ==
  ASSUME MicIInv
  PROVE  MicRecordingKept
BY DEF MicIInv, OwedIsThere, Place, Out, MicRecordingKept

MicRecord ==
  [open: BOOLEAN, init: {"no", "timer", "asking"}, late: BOOLEAN,
   record: Plugins \cup {NoPlugin},
   recording: BOOLEAN, paused: BOOLEAN, uploading: BOOLEAN,
   discard: BOOLEAN, blob: Plugins \cup {NoPlugin},
   starts: SUBSET Plugins, active: SUBSET Plugins,
   ended: SUBSET Plugins, owed: SUBSET Plugins, lost: SUBSET Plugins,
   astray: BOOLEAN]

MicAction ==
  \/ MicNext \/ MicOpen \/ MicUpload \/ \E ok \in BOOLEAN : MicUploadAnswered(ok)
  \/ mic' = MicUnmounted

\* Closing makes an earlier plugin of the one of this opening.
LEMMA MicClosedFields ==
  ASSUME NEW d \in MicRecord, NEW e, e = MicClosed(d)
  PROVE  /\ e \in MicRecord
         /\ ~e.open /\ e.record # "new" /\ e.recording = d.recording
         /\ e.record = "late" => d.record = "late"
         /\ e.uploading = d.uploading /\ e.discard = d.discard /\ e.blob = d.blob
         /\ e.active = d.active \ {"new"} /\ e.owed = d.owed /\ e.lost = d.lost
         /\ e.ended = Aged(d.ended)
         /\ ~e.astray => ~d.astray /\ d.starts = {} /\ e.starts = {}
<1>1. Aged(d.starts) \in SUBSET Plugins /\ Aged(d.ended) \in SUBSET Plugins
      /\ d.active \ {"new"} \in SUBSET Plugins
      /\ AgedOne(d.record) \in Plugins \cup {NoPlugin} /\ AgedOne(d.record) # "new"
      /\ (AgedOne(d.record) = "late" => d.record = "late")
      /\ (d.starts = {} => Aged(d.starts) = {})
  BY DEF MicRecord, Aged, AgedOne, Plugins
<1>2. PICK late \in BOOLEAN, astray \in BOOLEAN :
        late = (d.late \/ d.init = "asking") /\ astray = (d.astray \/ d.starts # {})
  OBVIOUS
<1>3. e = [d EXCEPT !.open = FALSE, !.init = "no", !.late = late,
                    !.record = AgedOne(d.record),
                    !.starts = Aged(d.starts), !.active = d.active \ {"new"},
                    !.ended = Aged(d.ended), !.astray = astray]
  BY <1>2 DEF MicClosed, MicRecord
<1> HIDE DEF Aged, AgedOne
<1>4. e \in MicRecord
  BY <1>1, <1>3 DEF MicRecord
<1>5. /\ ~e.open /\ e.record = AgedOne(d.record) /\ e.recording = d.recording
      /\ e.uploading = d.uploading /\ e.discard = d.discard /\ e.blob = d.blob
      /\ e.active = d.active \ {"new"} /\ e.owed = d.owed /\ e.lost = d.lost
      /\ e.ended = Aged(d.ended) /\ e.starts = Aged(d.starts) /\ e.astray = astray
  BY <1>3 DEF MicRecord
<1> QED BY <1>1, <1>2, <1>4, <1>5

LEMMA StoppingFields ==
  ASSUME NEW d \in MicRecord, NEW e, e = Stopping(d)
  PROVE  /\ e \in MicRecord
         /\ e.open = d.open /\ e.record = d.record /\ e.recording = d.recording
         /\ e.uploading = d.uploading /\ e.discard = d.discard /\ e.blob = d.blob
         /\ e.starts = d.starts /\ e.owed = d.owed /\ e.lost = d.lost
         /\ e.astray = d.astray
         /\ \/ d.record \notin d.active /\ e.active = d.active /\ e.ended = d.ended
            \/ /\ d.record \in d.active /\ e.active = d.active \ {d.record}
               /\ e.ended = d.ended \cup {d.record}
BY DEF Stopping, MicRecord

LEMMA MicStepIInv ==
  ASSUME MicIInv, MicAction
  PROVE  MicIInv'
<1> DEFINE Good == OneCapture /\ OwedIsThere
<1>0. mic \in MicRecord /\ (~mic.astray => Good)
  BY DEF MicIInv, MicTypeOK, MicRecord
<1>1. ASSUME mic' \in MicRecord, ~mic'.astray => Good' PROVE MicIInv'
  BY <1>1 DEF MicIInv, MicTypeOK, MicRecord
<1> USE DEF OneCapture, OwedIsThere, Place, Out, NoPlugin
<1>2. CASE MicUpload \/ MicPause \/ MicAsks
  <2>1. \/ mic' = [mic EXCEPT !.uploading = TRUE] /\ mic.blob # NoPlugin
        \/ mic' = [mic EXCEPT !.paused = ~mic.paused]
        \/ mic' = [mic EXCEPT !.init = "asking"]
    BY <1>2 DEF MicUpload, OffersUpload, MicPause, MicAsks
  <2>2. /\ mic' \in MicRecord /\ mic'.astray = mic.astray /\ mic'.open = mic.open
        /\ mic'.uploading = mic.uploading \/ mic.blob # NoPlugin
        /\ mic'.record = mic.record /\ mic'.recording = mic.recording
        /\ mic'.discard = mic.discard /\ mic'.blob = mic.blob /\ mic'.starts = mic.starts
        /\ mic'.active = mic.active /\ mic'.ended = mic.ended /\ mic'.owed = mic.owed
        /\ mic'.lost = mic.lost
    <3>1. CASE mic' = [mic EXCEPT !.uploading = TRUE] /\ mic.blob # NoPlugin
      BY <1>0, <3>1 DEF MicRecord
    <3>2. CASE mic' = [mic EXCEPT !.paused = ~mic.paused]
      <4>1. (~mic.paused) \in BOOLEAN
        BY <1>0 DEF MicRecord
      <4> QED BY <1>0, <3>2, <4>1 DEF MicRecord
    <3>3. CASE mic' = [mic EXCEPT !.init = "asking"]
      BY <1>0, <3>3 DEF MicRecord
    <3> QED BY <2>1, <3>1, <3>2, <3>3
  <2> QED BY <1>0, <1>1, <2>2
<1>11. CASE MicOpen
  <2>1. mic' = [mic EXCEPT !.open = TRUE, !.init = "timer",
                           !.owed = mic.owed \ mic.lost, !.lost = {}]
    BY <1>11 DEF MicOpen
  <2>2. mic.owed \ mic.lost \in SUBSET Plugins
    BY <1>0 DEF MicRecord
  <2>3. /\ mic' \in MicRecord /\ mic'.astray = mic.astray /\ mic'.uploading = mic.uploading
        /\ mic'.record = mic.record /\ mic'.recording = mic.recording
        /\ mic'.discard = mic.discard /\ mic'.blob = mic.blob /\ mic'.starts = mic.starts
        /\ mic'.active = mic.active /\ mic'.ended = mic.ended
        /\ mic'.owed = mic.owed \ mic.lost /\ mic'.lost = {}
    BY <1>0, <2>1, <2>2 DEF MicRecord
  <2>4. Out' = Out
    BY <2>3
  <2> QED BY <1>0, <1>1, <2>3, <2>4
<1>10. ASSUME NEW ok \in BOOLEAN, MicPrepared(ok) \/ MicPreparedLate(ok) PROVE MicIInv'
  <2>1. PICK r \in Plugins \cup {NoPlugin}, i \in {"no", mic.init}, l \in {FALSE, mic.late} :
          /\ mic' = [mic EXCEPT !.init = i, !.late = l, !.record = r]
          /\ r \in {mic.record, "new"} \/ (r = "late" /\ "late" \notin mic.active)
    <3>1. CASE MicPrepared(ok)
      BY <1>0, <1>10, <3>1 DEF MicPrepared, MicRecord, Plugins
    <3>2. CASE MicPreparedLate(ok)
      <4>1. PICK r \in Plugins \cup {NoPlugin} : r = (IF ok THEN "late" ELSE mic.record)
        BY <1>0 DEF MicRecord, Plugins
      <4>2. mic' = [mic EXCEPT !.init = mic.init, !.late = FALSE, !.record = r]
        BY <1>0, <3>2, <4>1 DEF MicPreparedLate, MicRecord
      <4>3. r = mic.record \/ (r = "late" /\ "late" \notin mic.active)
        BY <3>2, <4>1 DEF MicPreparedLate
      <4> QED BY <4>1, <4>2, <4>3
    <3> QED BY <1>10, <3>1, <3>2
  <2>2. /\ mic' \in MicRecord /\ mic'.astray = mic.astray /\ mic'.record = r
        /\ mic'.open = mic.open /\ mic'.uploading = mic.uploading
        /\ mic'.recording = mic.recording /\ mic'.lost = mic.lost
        /\ mic'.discard = mic.discard /\ mic'.blob = mic.blob /\ mic'.starts = mic.starts
        /\ mic'.active = mic.active /\ mic'.ended = mic.ended /\ mic'.owed = mic.owed
    BY <1>0, <2>1 DEF MicRecord
  <2>3. mic.ended = {}
    BY <1>10 DEF MicPrepared, MicPreparedLate
  <2> QED BY <1>0, <1>1, <2>1, <2>2, <2>3
<1>3. CASE MicStart
  <2>1. PICK astray \in BOOLEAN : astray = (mic.astray \/ mic.starts \ {mic.record} # {})
    OBVIOUS
  <2>2. mic' = [mic EXCEPT !.discard = FALSE, !.starts = mic.starts \cup {mic.record},
                           !.astray = astray]
        /\ mic.record \in Plugins /\ ~mic.recording /\ mic.blob = NoPlugin /\ mic.open
    BY <1>0, <1>3, <2>1 DEF MicStart, OffersStart, MicRecord
  <2>3. /\ mic' \in MicRecord /\ (~mic'.astray => ~mic.astray /\ mic.starts \subseteq {mic.record})
        /\ mic'.open = mic.open /\ mic'.record = mic.record /\ mic'.recording = mic.recording
        /\ mic'.uploading = mic.uploading /\ ~mic'.discard /\ mic'.blob = mic.blob
        /\ mic'.starts = mic.starts \cup {mic.record} /\ mic'.active = mic.active
        /\ mic'.ended = mic.ended /\ mic'.owed = mic.owed /\ mic'.lost = mic.lost
    BY <1>0, <2>1, <2>2 DEF MicRecord
  <2>4. ~mic.astray => Out = {}
    BY <1>0, <2>2
  <2> QED BY <1>0, <1>1, <2>2, <2>3, <2>4
<1>4. ASSUME NEW p \in mic.starts, NEW ok \in BOOLEAN, MicStarted(p, ok) PROVE MicIInv'
  <2>1. p \in Plugins /\ mic.ended = {}
    BY <1>0, <1>4 DEF MicRecord, MicStarted
  <2>2. CASE ok
    <3>1. mic' = [mic EXCEPT !.starts = mic.starts \ {p}, !.active = mic.active \cup {p},
                             !.recording = TRUE, !.paused = FALSE, !.blob = NoPlugin,
                             !.owed = mic.owed \cup {p}, !.astray = mic.astray \/ p = "old"]
      BY <1>4, <2>2 DEF MicStarted
    <3>2. mic' \in MicRecord
      BY <1>0, <2>1, <3>1 DEF MicRecord
    <3>3. mic'.astray = (mic.astray \/ p = "old")
      BY <1>0, <3>1 DEF MicRecord
    <3>4. CASE ~mic.astray /\ p # "old"
      <4>1. /\ mic'.starts = mic.starts \ {p} /\ mic'.active = mic.active \cup {p}
            /\ mic'.recording /\ mic'.blob = NoPlugin /\ mic'.owed = mic.owed \cup {p}
            /\ mic'.ended = mic.ended /\ mic'.record = mic.record /\ mic'.open = mic.open
            /\ mic'.discard = mic.discard /\ mic'.uploading = mic.uploading
            /\ mic'.lost = mic.lost
        BY <1>0, <3>1, <3>4 DEF MicRecord
      <4>2. mic.lost = {} /\ mic.owed = {} /\ mic.starts = {p} /\ ~mic.discard
            /\ (p = "new" => ~mic.uploading)
        BY <1>0, <1>4, <3>4
      <4>3. Out' = {p} /\ mic'.starts = {}
        BY <4>1, <4>2
      <4>4. Good'
        BY <1>0, <2>1, <3>4, <4>1, <4>2, <4>3 DEF Plugins
      <4> QED BY <1>1, <3>2, <4>4
    <3> QED BY <1>1, <2>1, <3>2, <3>3, <3>4 DEF Plugins
  <2>3. CASE ~ok
    <3>1. mic' = [mic EXCEPT !.starts = mic.starts \ {p}]
      BY <1>4, <2>3 DEF MicStarted
    <3>2. /\ mic' \in MicRecord /\ mic'.astray = mic.astray /\ mic'.open = mic.open
          /\ mic'.starts \subseteq mic.starts /\ mic'.record = mic.record
          /\ mic'.recording = mic.recording /\ mic'.uploading = mic.uploading
          /\ mic'.discard = mic.discard /\ mic'.blob = mic.blob /\ mic'.active = mic.active
          /\ mic'.ended = mic.ended /\ mic'.owed = mic.owed /\ mic'.lost = mic.lost
      BY <1>0, <3>1 DEF MicRecord
    <3> QED BY <1>0, <1>1, <3>2
  <2> QED BY <2>2, <2>3
<1>5. CASE MicStop
  <2>1. mic' = Stopping(mic) /\ mic.recording /\ mic.open
    BY <1>5 DEF MicStop, OffersStop
  <2>2. /\ mic' \in MicRecord
        /\ mic'.open = mic.open /\ mic'.record = mic.record /\ mic'.recording = mic.recording
        /\ mic'.uploading = mic.uploading /\ mic'.discard = mic.discard
        /\ mic'.blob = mic.blob /\ mic'.starts = mic.starts /\ mic'.owed = mic.owed
        /\ mic'.lost = mic.lost /\ mic'.astray = mic.astray
        /\ \/ mic.record \notin mic.active /\ mic'.active = mic.active /\ mic'.ended = mic.ended
           \/ /\ mic.record \in mic.active /\ mic'.active = mic.active \ {mic.record}
              /\ mic'.ended = mic.ended \cup {mic.record}
    BY <1>0, <2>1, StoppingFields
  <2>3. CASE mic.record \notin mic.active
    BY <1>0, <1>1, <2>2, <2>3
  <2>4. CASE mic.record \in mic.active /\ ~mic.astray
    <3>1. mic.record \in Out /\ Out = {mic.record} /\ mic.ended = {}
      BY <1>0, <2>4
    <3>2. mic'.ended = {mic.record} /\ mic'.active = mic.active \ {mic.record} /\ Out' = Out
      BY <2>2, <2>4, <3>1
    <3> QED BY <1>0, <1>1, <2>1, <2>2, <2>4, <3>1, <3>2
  <2> QED BY <1>1, <2>2, <2>3, <2>4
<1>6. ASSUME NEW p \in mic.ended, RecordEnd(p) PROVE MicIInv'
  <2>1. p \in Plugins
    BY <1>0 DEF MicRecord
  <2>2. mic' = [mic EXCEPT !.ended = mic.ended \ {p}, !.recording = FALSE, !.paused = FALSE,
                           !.blob = IF mic.discard THEN mic.blob ELSE p]
    BY <1>6 DEF RecordEnd
  <2>3. /\ mic' \in MicRecord /\ mic'.astray = mic.astray
        /\ mic'.ended = mic.ended \ {p} /\ ~mic'.recording
        /\ mic'.blob = (IF mic.discard THEN mic.blob ELSE p)
        /\ mic'.open = mic.open /\ mic'.starts = mic.starts /\ mic'.record = mic.record
        /\ mic'.uploading = mic.uploading /\ mic'.discard = mic.discard
        /\ mic'.active = mic.active /\ mic'.owed = mic.owed /\ mic'.lost = mic.lost
    BY <1>0, <2>1, <2>2 DEF MicRecord
  <2>4. ~mic.astray => mic'.ended = {}
    BY <1>0, <1>6, <2>3
  <2>5. ~mic.astray => Good'
    BY <1>0, <1>6, <2>1, <2>3, <2>4 DEF Plugins
  <2> QED BY <1>1, <2>3, <2>5
<1>7. ASSUME NEW ok \in BOOLEAN, MicUploadAnswered(ok) PROVE MicIInv'
  <2>1. CASE ok
    <3>1. PICK d : d = [mic EXCEPT !.uploading = FALSE, !.blob = NoPlugin,
                                   !.owed = mic.owed \ {mic.blob}]
      OBVIOUS
    <3>2. /\ d \in MicRecord /\ d.recording = mic.recording /\ ~d.uploading
          /\ d.discard = mic.discard /\ d.blob = NoPlugin /\ d.starts = mic.starts
          /\ d.active = mic.active /\ d.ended = mic.ended /\ d.owed = mic.owed \ {mic.blob}
          /\ d.astray = mic.astray /\ d.lost = mic.lost /\ d.record = mic.record
      BY <1>0, <3>1 DEF MicRecord
    <3>3. mic' = MicClosed(d) /\ mic.uploading
      BY <1>7, <2>1, <3>1 DEF MicUploadAnswered
    <3>4. /\ mic' \in MicRecord
          /\ ~mic'.open /\ mic'.record # "new" /\ mic'.recording = mic.recording
          /\ mic'.record = "late" => mic.record = "late"
          /\ ~mic'.uploading /\ mic'.discard = mic.discard /\ mic'.blob = NoPlugin
          /\ mic'.active = mic.active \ {"new"} /\ mic'.owed = mic.owed \ {mic.blob}
          /\ mic'.lost = mic.lost /\ mic'.ended = Aged(mic.ended)
          /\ ~mic'.astray => ~mic.astray /\ mic.starts = {} /\ mic'.starts = {}
      BY <3>2, <3>3, MicClosedFields
    <3>5. CASE ~mic'.astray
      <4>1. CASE mic.blob \in Out
        <5>1. Out' = {} /\ mic.ended = {}
          BY <1>0, <3>4, <3>5, <4>1
        <5>2. mic'.ended = {}
          BY <3>4, <5>1 DEF Aged
        <5>3. \A p \in mic'.active : p = "late" /\ mic'.record # "late"
          BY <1>0, <3>4, <3>5, <4>1
        <5> QED BY <1>0, <1>1, <3>4, <3>5, <5>1, <5>2, <5>3
      <4>2. CASE mic.blob \notin Out
        <5>1. Out' = Out /\ "new" \notin Out
          BY <1>0, <3>3, <3>4, <3>5, <4>2
        <5>2. \A p, q \in mic'.ended : p = q
          BY <1>0, <3>4, <3>5 DEF Aged
        <5>3. \A p \in Out : p = "late" /\ mic.recording
          BY <1>0, <3>5, <3>4, <4>2, <5>1
        <5>4. (mic.ended = {} => mic'.ended = {}) /\ (mic.ended = {"late"} => mic'.ended = {"late"})
          BY <3>4 DEF Aged, AgedOne
        <5>5. OwedIsThere'
          BY <1>0, <3>4, <3>5, <5>1, <5>3, <5>4
        <5>6. OneCapture'
          BY <1>0, <3>4, <3>5, <5>1, <5>2
        <5> QED BY <1>1, <3>4, <5>5, <5>6
      <4> QED BY <4>1, <4>2
    <3> QED BY <1>1, <3>4, <3>5
  <2>2. CASE ~ok
    <3>1. mic' = [mic EXCEPT !.uploading = FALSE]
      BY <1>7, <2>2 DEF MicUploadAnswered
    <3>2. /\ mic' \in MicRecord /\ mic'.astray = mic.astray /\ mic'.open = mic.open
          /\ mic'.starts = mic.starts /\ mic'.record = mic.record
          /\ mic'.recording = mic.recording /\ ~mic'.uploading
          /\ mic'.discard = mic.discard /\ mic'.blob = mic.blob /\ mic'.active = mic.active
          /\ mic'.ended = mic.ended /\ mic'.owed = mic.owed /\ mic'.lost = mic.lost
      BY <1>0, <3>1 DEF MicRecord
    <3> QED BY <1>0, <1>1, <3>2
  <2> QED BY <2>1, <2>2
<1>8. CASE MicClose
  <2> DEFINE discarded == mic.recording \/ mic.blob # NoPlugin
  <2>1. PICK d : d = IF mic.recording THEN Stopping(mic) ELSE mic
    OBVIOUS
  <2>2. /\ d \in MicRecord /\ d.astray = mic.astray /\ d.owed = mic.owed /\ d.lost = mic.lost
        /\ d.uploading = mic.uploading /\ d.record = mic.record /\ d.starts = mic.starts
        /\ \/ d.active = mic.active /\ d.ended = mic.ended
              /\ (~mic.recording \/ mic.record \notin mic.active)
           \/ /\ mic.record \in mic.active /\ d.active = mic.active \ {mic.record}
              /\ d.ended = mic.ended \cup {mic.record}
    BY <1>0, <2>1, StoppingFields
  <2>3. PICK f : f = [d EXCEPT !.discard = TRUE, !.blob = NoPlugin,
                               !.recording = FALSE, !.paused = FALSE,
                               !.owed = IF discarded THEN {} ELSE d.owed]
    OBVIOUS
  <2>4. /\ f \in MicRecord /\ f.astray = mic.astray /\ f.owed = (IF discarded THEN {} ELSE mic.owed)
        /\ f.uploading = mic.uploading /\ f.blob = NoPlugin /\ ~f.recording /\ f.discard
        /\ f.active = d.active /\ f.ended = d.ended /\ f.lost = mic.lost
        /\ f.record = mic.record /\ f.starts = mic.starts
    BY <2>2, <2>3 DEF MicRecord
  <2>5. mic' = MicClosed(f) /\ ~mic.uploading /\ mic.open
    BY <1>8, <2>1, <2>3 DEF MicClose
  <2>6. /\ mic' \in MicRecord /\ ~mic'.open /\ mic'.record # "new" /\ ~mic'.recording
        /\ mic'.record = "late" => mic.record = "late"
        /\ ~mic'.uploading /\ mic'.discard /\ mic'.blob = NoPlugin
        /\ mic'.active = d.active \ {"new"} /\ mic'.lost = mic.lost
        /\ mic'.owed = (IF discarded THEN {} ELSE mic.owed) /\ mic'.ended = Aged(d.ended)
        /\ ~mic'.astray => ~mic.astray /\ mic.starts = {} /\ mic'.starts = {}
    BY <2>4, <2>5, MicClosedFields
  <2>7. CASE ~mic'.astray
    <3>1. Out' = {} /\ mic.lost = {}
      BY <1>0, <2>5, <2>6, <2>7
    <3>2. \A p, q \in d.ended : p = q
      BY <1>0, <2>2, <2>6, <2>7
    <3>3. \A p, q \in mic'.ended : p = q
      BY <2>6, <3>2 DEF Aged
    <3>4. \A p \in mic'.active : p = "late" /\ mic'.record # "late"
      BY <1>0, <2>2, <2>6, <2>7
    <3> QED BY <1>1, <2>6, <2>7, <3>1, <3>3, <3>4
  <2> QED BY <1>1, <2>6, <2>7
<1>9. ASSUME mic' = MicUnmounted PROVE MicIInv'
  <2>1. /\ mic' \in MicRecord /\ mic'.owed = mic.owed /\ mic'.lost = mic.owed
        /\ mic'.active = {} /\ mic'.starts = {} /\ mic'.ended = {} /\ ~mic'.open
        /\ ~mic'.recording /\ ~mic'.uploading /\ mic'.blob = NoPlugin /\ mic'.record = NoPlugin
    <3>1. PICK astray \in BOOLEAN : astray = (mic.astray \/ mic.starts # {})
      OBVIOUS
    <3>2. mic' = [MicFresh EXCEPT !.owed = mic.owed, !.lost = mic.owed, !.astray = astray]
      BY <1>9, <3>1 DEF MicUnmounted
    <3> QED BY <1>0, <3>2 DEF MicFresh, MicRecord
  <2> QED BY <1>1, <2>1
<1> QED BY <1>2, <1>3, <1>4, <1>5, <1>6, <1>7, <1>8, <1>9, <1>10, <1>11 DEF MicAction, MicNext

LEMMA MicInitIInv ==
  ASSUME MicInit
  PROVE  MicIInv
BY DEF MicInit, MicFresh, MicIInv, MicTypeOK, OneCapture, OwedIsThere, Place, Out, NoPlugin
-----------------------------------------------------------------------------
(***************************************************************************)
(* The quick transcription.  Until a submission is left without an answer  *)
(* or a failed result is retried, one file is in the dialog at a time: it  *)
(* is chosen, or its submission is under way, or its job is polled.        *)
(***************************************************************************)
OneFile ==
  /\ quick.step \in {"upload", "profile"} => quick.job = NoQuickJob /\ quick.sending = {}
  /\ quick.step = "processing" => quick.file # NoFile
  /\ quick.sending # {} =>
       /\ quick.step = "processing" /\ quick.job = NoQuickJob
       /\ quick.sending = {quick.file} /\ quick.open
  /\ quick.step = "result" => quick.job.of = quick.file
  /\ quick.step = "processing" /\ quick.job # NoQuickJob => quick.job.of = quick.file

QuickIInv ==
  QuickTypeOK /\ quick.failures < MaxFailures /\ (~quick.crossed => OneFile)

QuickRecord ==
  [open: BOOLEAN, step: {"upload", "profile", "processing", "result"},
   file: Sources \cup {NoFile}, job: QuickJobs \cup {NoQuickJob},
   sending: SUBSET Sources, failures: 0..MaxFailures, crossed: BOOLEAN]

QuickAction == QuickNext \/ QuickOpen \/ quick' = QuickFresh

LEMMA QuickStepIInv ==
  ASSUME QuickIInv, QuickAction
  PROVE  QuickIInv'
<1>0. quick \in QuickRecord /\ quick.failures < MaxFailures /\ (~quick.crossed => OneFile)
  BY DEF QuickIInv, QuickTypeOK, QuickRecord
<1>1. ASSUME quick' \in QuickRecord, quick'.failures < MaxFailures, ~quick'.crossed => OneFile'
      PROVE QuickIInv'
  BY <1>1 DEF QuickIInv, QuickTypeOK, QuickRecord
<1>2. /\ NoQuickJob \in QuickJobs \cup {NoQuickJob} /\ 0 \in 0..MaxFailures /\ 0 < MaxFailures
      /\ \A f \in Sources : [of |-> f, status |-> "pending"] \in QuickJobs
  BY DEF QuickJobs, JobStates, MaxFailures
<1>3. CASE QuickOpen
  BY <1>0, <1>1, <1>3 DEF QuickOpen, QuickRecord, OneFile
<1>4. CASE QuickChooseFile
  BY <1>0, <1>1, <1>4 DEF QuickChooseFile, QuickUploadScreen, QuickRecord, OneFile
<1>5. CASE QuickSubmit
  BY <1>0, <1>1, <1>2, <1>5 DEF QuickSubmit, QuickProfileScreen, QuickRecord, OneFile
<1>6. ASSUME NEW f \in quick.sending, QuickSubmitted(f) PROVE QuickIInv'
  BY <1>0, <1>1, <1>2, <1>6 DEF QuickSubmitted, QuickRecord, OneFile
<1>7. ASSUME NEW f \in quick.sending, QuickSubmitFailed(f) PROVE QuickIInv'
  BY <1>0, <1>1, <1>7 DEF QuickSubmitFailed, QuickRecord, OneFile
<1>8. ASSUME NEW status \in JobStates, QuickPolled(status) PROVE QuickIInv'
  <2>1. quick.job \in QuickJobs /\ quick.open /\ quick.step = "processing"
    BY <1>0, <1>8 DEF QuickPolled, Polls, QuickRecord
  <2>2. PICK j : j = [quick.job EXCEPT !.status = status]
    OBVIOUS
  <2>3. j \in QuickJobs /\ j.of = quick.job.of
    BY <2>1, <2>2 DEF QuickJobs
  <2>4. quick' = [quick EXCEPT !.failures = 0, !.job = j,
                    !.step = IF status = "pending" THEN "processing" ELSE "result"]
    BY <1>0, <1>8, <2>1, <2>2 DEF QuickPolled, QuickRecord
  <2>5. quick.job # NoQuickJob
    BY <1>8 DEF QuickPolled, Polls
  <2> QED BY <1>0, <1>1, <1>2, <2>1, <2>3, <2>4, <2>5 DEF QuickRecord, OneFile
<1>9. CASE QuickExpired \/ QuickPollFailed
  <2>1. quick.job # NoQuickJob /\ quick.step = "processing" /\ quick.open
    BY <1>9 DEF QuickExpired, QuickPollFailed, Polls
  <2>2. CASE quick' = Failed(quick)
    BY <1>0, <1>1, <1>2, <2>1, <2>2 DEF Failed, QuickRecord, OneFile
  <2>3. CASE quick.failures + 1 # MaxFailures
             /\ quick' = [quick EXCEPT !.failures = quick.failures + 1]
    <3>1. quick.failures + 1 \in 0..MaxFailures /\ quick.failures + 1 < MaxFailures
      BY <1>0, <2>3 DEF QuickRecord, MaxFailures
    <3> QED BY <1>0, <1>1, <2>1, <2>3, <3>1 DEF QuickRecord, OneFile
  <2> QED BY <1>0, <1>9, <2>2, <2>3 DEF QuickExpired, QuickPollFailed, QuickRecord
<1>10. CASE QuickTryAgain
  BY <1>0, <1>1, <1>10 DEF QuickTryAgain, QuickRecord
<1>11. CASE QuickClose
  <2>1. PICK crossed \in BOOLEAN : crossed = (quick.crossed \/ quick.sending # {})
    OBVIOUS
  <2>2. quick' = [quick EXCEPT !.open = FALSE, !.step = "upload", !.file = NoFile,
                    !.job = NoQuickJob, !.failures = 0, !.crossed = crossed]
    BY <1>0, <1>11, <2>1 DEF QuickClose, QuickRecord
  <2>3. quick' \in QuickRecord /\ quick'.failures = 0
    BY <1>0, <1>2, <2>2 DEF QuickRecord
  <2>4. /\ quick'.crossed = crossed /\ quick'.step = "upload" /\ quick'.job = NoQuickJob
        /\ quick'.sending = quick.sending
    BY <1>0, <2>2 DEF QuickRecord
  <2>5. ~crossed => OneFile'
    BY <2>1, <2>4 DEF OneFile
  <2> QED BY <1>1, <1>2, <2>3, <2>4, <2>5
<1>12. CASE quick' = QuickFresh
  BY <1>1, <1>2, <1>12 DEF QuickFresh, QuickRecord, OneFile
<1> QED BY <1>3, <1>4, <1>5, <1>6, <1>7, <1>8, <1>9, <1>10, <1>11, <1>12
    DEF QuickAction, QuickNext

LEMMA QuickInitIInv ==
  ASSUME QuickInit
  PROVE  QuickIInv
BY DEF QuickInit, QuickFresh, QuickIInv, QuickTypeOK, OneFile, MaxFailures

-----------------------------------------------------------------------------
\* The dialogs of the page together.
AddIInv == view = "add" => SysIInv /\ MicIInv /\ QuickIInv

LEMMA AddStep ==
  ASSUME AddNext
  PROVE  /\ SysAction \/ UNCHANGED sys
         /\ MicAction \/ UNCHANGED mic
         /\ QuickAction \/ UNCHANGED quick
<1>1. CASE OpenDialog
  BY <1>1 DEF OpenDialog, SysAction, MicAction, QuickAction
<1>2. CASE AddFiles \/ TracksDialog \/ SystemDialog \/ MicDialog \/ QuickStep \/ TubeStep
           \/ UploadRecording \/ ProgressTimer
  BY <1>2 DEF AddFiles, TracksDialog, SystemDialog, MicDialog, QuickStep, TubeStep,
     UploadRecording, ProgressTimer, SysAction, MicAction, QuickAction
<1>3. CASE AnswerUpload
  BY <1>3 DEF AnswerUpload, SysAction, MicAction
<1>4. CASE Navigate \/ SessionEnds
  BY <1>4 DEF Navigate, SessionEnds, HeaderUnmounts, SysAction, MicAction, QuickAction
<1> QED BY <1>1, <1>2, <1>3, <1>4 DEF AddNext

LEMMA WebStepAdd ==
  ASSUME AddIInv, [WebNext]_webVars
  PROVE  AddIInv'
<1>1. view' = view /\ (view # "add" \/ AddNext \/ UNCHANGED addVars)
  BY DEF WebNext, AddView, SessionView, ListView, SettingsView, ChatView, webVars
<1>2. CASE view = "add"
  <2>1. SysIInv /\ UNCHANGED sys => SysIInv'
    BY DEF SysIInv, SysTypeOK, OnePlace, CallsAreCurrent, NothingBehind, SysRecordingKept,
           SysTracksReleased, Held
  <2>2. MicIInv /\ UNCHANGED mic => MicIInv'
    BY DEF MicIInv, MicTypeOK, OneCapture, OwedIsThere, Place, Out
  <2>3. QuickIInv /\ UNCHANGED quick => QuickIInv'
    BY DEF QuickIInv, QuickTypeOK, OneFile
  <2>4. UNCHANGED addVars => UNCHANGED sys /\ UNCHANGED mic /\ UNCHANGED quick
    BY DEF addVars
  <2>5. /\ SysAction \/ UNCHANGED sys
        /\ MicAction \/ UNCHANGED mic
        /\ QuickAction \/ UNCHANGED quick
    BY <1>1, <1>2, <2>4, AddStep
  <2>6. SysIInv /\ MicIInv /\ QuickIInv
    BY <1>2 DEF AddIInv
  <2>7. SysIInv'
    BY <2>1, <2>5, <2>6, SysStepIInv
  <2>8. MicIInv'
    BY <2>2, <2>5, <2>6, MicStepIInv
  <2>9. QuickIInv'
    BY <2>3, <2>5, <2>6, QuickStepIInv
  <2> QED BY <2>7, <2>8, <2>9 DEF AddIInv
<1> QED BY <1>1, <1>2 DEF AddIInv

LEMMA AddImplies ==
  ASSUME AddIInv
  PROVE  AudioIsSafe
<1>1. QuickIInv => QuickResultIsForFile
  BY DEF QuickIInv, OneFile, QuickResultIsForFile, Polls
<1> QED BY <1>1, MicKept DEF AddIInv, SysIInv, AudioIsSafe, RecordingKept

\* No recording is lost without the user's consent, except with the page that is
\* left under its recorder; no track stays captured by a recorder that shows
\* none, also when the page is left; and a quick transcription shows the result
\* of its file: for any number of attempts to record, of uploads and of files.
THEOREM AudioStaysSafe == WebSpec => []AudioIsSafe
<1>1. WebInit => AddIInv
  BY SysInitIInv, MicInitIInv, QuickInitIInv DEF WebInit, AddInit, AddIInv
<1> QED BY <1>1, WebStepAdd, AddImplies, PTL DEF WebSpec
-----------------------------------------------------------------------------
(***************************************************************************)
(* The form of the parameters, which the list and the settings share.      *)
(***************************************************************************)
Fits(c) == c \in ConfigType /\ (c.params.multi => ~c.params.diarize)

LEMMA DefaultsFit ==
  /\ DefaultParams \in Params /\ ~DefaultParams.multi /\ ~DefaultParams.diarize
  /\ ConfigFresh \in ConfigType /\ Fits(ConfigFresh)
BY ConfigAssumption DEF DefaultParams, Params, ConfigFresh, ConfigType, Fits

\* The form as it is reset or closed never asks for both.
LEMMA ResetFits ==
  ASSUME NEW c \in ConfigType
  PROVE  /\ ConfigClosed(c) \in ConfigType /\ Fits(ConfigClosed(c))
         /\ \A base \in Params, multi \in BOOLEAN :
              /\ Fits(ConfigReset(c, base, multi))
              /\ ConfigReset(c, base, multi).params.multi = multi
<1>1. Fits(ConfigClosed(c))
  BY DefaultsFit DEF ConfigClosed, ConfigType, Fits
<1>2. ASSUME NEW base \in Params, NEW multi \in BOOLEAN
      PROVE  Fits(ConfigReset(c, base, multi)) /\ ConfigReset(c, base, multi).params.multi = multi
  <2>1. PICK p : p = [base EXCEPT !.multi = multi, !.diarize = base.diarize /\ ~multi]
    OBVIOUS
  <2>2. p \in Params /\ p.multi = multi /\ (multi => ~p.diarize)
    <3>1. PICK d \in BOOLEAN : d = (base.diarize /\ ~multi)
      OBVIOUS
    <3>2. p = [base EXCEPT !.multi = multi, !.diarize = d]
      BY <2>1, <3>1
    <3> QED BY <3>1, <3>2 DEF Params
  <2>3. ConfigReset(c, base, multi) = [c EXCEPT !.params = p]
    BY <2>1 DEF ConfigReset, Params, ConfigType
  <2> QED BY <2>2, <2>3 DEF ConfigType, Fits
<1> QED BY <1>1, <1>2 DEF Fits

\* What can be edited keeps the tracks, and hides the diarization of several.
LEMMA EditFits ==
  ASSUME Fits(config), EditConfig(config.params.multi)
  PROVE  Fits(config') /\ config'.params.multi = config.params.multi
<1>1. PICK field \in ConfigForm(config.params, config.params.multi) :
        \E p \in UpdateParam(config.params, field) : config' = [config EXCEPT !.params = p]
  BY DEF EditConfig
<1>2. PICK p \in UpdateParam(config.params, field) : config' = [config EXCEPT !.params = p]
  BY <1>1
<1>3. config.params \in Params /\ config \in ConfigType
  BY DEF Fits, ConfigType
<1>4. p \in Params /\ p.multi = config.params.multi
      /\ (field # "diarize" => p.diarize = config.params.diarize)
  <2>1. CASE field = "family"
    <3>1. PICK f \in Families :
            p = [config.params EXCEPT !.family = f,
                   !.diarizer = IF f = "whisper" THEN "pyannote" ELSE config.params.diarizer]
      BY <1>2, <1>3, <2>1, Zenon DEF UpdateParam
    <3> QED BY <1>3, <2>1, <3>1, ConfigAssumption DEF Params
  <2>2. CASE field = "diarize"
    <3>1. (~config.params.diarize) \in BOOLEAN
      OBVIOUS
    <3>2. p = [config.params EXCEPT !.diarize = ~config.params.diarize]
      BY <1>2, <1>3, <2>2 DEF UpdateParam
    <3> QED BY <1>3, <2>2, <3>1, <3>2 DEF Params
  <2>3. CASE field = "diarizer"
    BY <1>2, <1>3, <2>3 DEF UpdateParam, Params
  <2>4. CASE field \notin {"family", "diarize", "diarizer"}
    <3>1. p \in {config.params}
      BY <1>2, <2>4, Zenon DEF UpdateParam
    <3> QED BY <1>3, <3>1
  <2> QED BY <2>1, <2>2, <2>3, <2>4
<1>5. config.params.multi => field # "diarize"
  BY <1>1 DEF ConfigForm, WhisperConfig, ParakeetConfig, CanaryConfig, OpenAIConfig, VoxtralConfig
<1> QED BY <1>2, <1>3, <1>4, <1>5 DEF Fits, ConfigType

LEMMA KeyFits ==
  ASSUME Fits(config), ValidateKey \/ KeyAnswered
  PROVE  Fits(config') /\ config'.params = config.params
BY DEF ValidateKey, KeyAnswered, Fits, ConfigType

-----------------------------------------------------------------------------
(***************************************************************************)
(* The job list.                                                           *)
(***************************************************************************)
\* An item of the bulk operation is still to do, or failed, or done.
ItemsAccounted ==
  /\ bulk \in [kind: {"none", "transcribe", "delete"}, all: SUBSET Jobs,
               left: SUBSET Jobs, failed: SUBSET Jobs, multi: BOOLEAN,
               shown: SUBSET Jobs, done: SUBSET Jobs]
  /\ bulk.all \ bulk.left \subseteq bulk.failed \cup bulk.done

ListIInv ==
  view = "list" =>
    /\ ItemsAccounted /\ sel \subseteq Jobs
    /\ Fits(config)
    /\ dialog = "config" => config.params.multi = ConfigureMulti

BulkStep == bulk # NoBulk /\ bulk' = NoBulk => bulk.all \ sel' \subseteq bulk.done

LEMMA ListStepBulk ==
  ASSUME ItemsAccounted, sel \subseteq Jobs, Fits(config), ListNext
  PROVE  ItemsAccounted' /\ sel' \subseteq Jobs /\ BulkStep
<1> USE DEF ItemsAccounted
<1>1. ASSUME bulk' = bulk, sel' = sel \/ sel' = {} PROVE ItemsAccounted' /\ sel' \subseteq Jobs /\ BulkStep
  BY <1>1 DEF BulkStep
<1>2. CASE FormStep \/ ListRead \/ ListArrives \/ ApplySearch \/ ClearSelection \/ OpenForSelection
           \/ CloseDialog \/ StartOne \/ \E op \in {"delete", "kill"} : Confirm(op)
  BY <1>1, <1>2 DEF FormStep, Rest, pageVars, ListRead, ListArrives, ApplySearch, ClearSelection,
     OpenForSelection, CloseDialog, StartOne, Confirm
<1>3. ASSUME NEW j \in Jobs, NEW ok \in BOOLEAN,
             OpenForRow(j) \/ JobEnds(j, ok) \/ StartAnswered(ok)
             \/ \E op \in {"delete", "kill"} : AskAnswered(op, j, ok)
      PROVE ItemsAccounted' /\ sel' \subseteq Jobs /\ BulkStep
  BY <1>1, <1>3 DEF OpenForRow, JobEnds, StartAnswered, AskAnswered, pageVars
<1>4. ASSUME NEW j \in Jobs, ToggleSelection(j)
      PROVE ItemsAccounted' /\ sel' \subseteq Jobs /\ BulkStep
  BY <1>4 DEF ToggleSelection, BulkStep
<1>5. CASE StartBulk
  <2>1. ParamsMulti \in BOOLEAN
    <3>1. config.params.multi \in BOOLEAN
      BY DEF Fits, ConfigType, Params
    <3>2. ProfileMulti \in BOOLEAN
      BY DEF ProfileMulti
    <3> QED BY <3>1, <3>2, Zenon DEF ParamsMulti
  <2> QED BY <1>5, <2>1 DEF StartBulk, BulkStep, NoBulk
<1>6. CASE DeleteBulk
  BY <1>6 DEF DeleteBulk, BulkStep, NoBulk
<1>7. ASSUME NEW j \in Jobs, NEW ok \in BOOLEAN, BulkItem(j, ok)
      PROVE ItemsAccounted' /\ sel' \subseteq Jobs /\ BulkStep
  BY <1>7 DEF BulkItem, BulkStep, NoBulk
<1>8. CASE BulkEnds
  BY <1>8 DEF BulkEnds, BulkStep, NoBulk
<1>9. ASSUME NEW ok \in BOOLEAN, StartAnswered(ok)
      PROVE ItemsAccounted' /\ sel' \subseteq Jobs /\ BulkStep
  BY <1>1, <1>9 DEF StartAnswered
<1> QED BY <1>2, <1>3, <1>4, <1>5, <1>6, <1>7, <1>8, <1>9 DEF ListNext, ListStep

\* What the form is for depends on the rows and on what is selected only.
LEMMA SameTracks ==
  ASSUME listed' = listed, sel' = sel, picked' = picked
  PROVE  ConfigureMulti' = ConfigureMulti
<1>1. ConfiguredJobs' = ConfiguredJobs
  BY Zenon DEF ConfiguredJobs
<1> QED BY <1>1, Zenon DEF ConfigureMulti

LEMMA ListStepForm ==
  ASSUME Fits(config), dialog = "config" => config.params.multi = ConfigureMulti, ListNext
  PROVE  Fits(config') /\ (dialog' = "config" => config'.params.multi = ConfigureMulti')
<1>1. config \in ConfigType /\ DefaultParams \in Params
  BY DefaultsFit DEF Fits
<1>2. ConfigureMulti \in BOOLEAN /\ ConfigureMulti' \in BOOLEAN
  BY Zenon DEF ConfigureMulti
<1>3. CASE DialogEffects
  BY <1>1, <1>2, <1>3, ResetFits DEF DialogEffects
<1>4. CASE FormStep
  <2>1. ConfigureMulti' = ConfigureMulti /\ dialog' = dialog
    BY <1>4, SameTracks DEF FormStep, Rest, pageVars
  <2>2. CASE dialog = "config" /\ EditConfig(ConfigureMulti)
    <3>1. EditConfig(config.params.multi)
      BY <2>2
    <3> QED BY <2>1, <3>1, EditFits
  <2> QED BY <1>4, <2>1, <2>2, KeyFits DEF FormStep
<1> QED BY <1>3, <1>4 DEF ListNext

LEMMA WebStepList ==
  ListIInv /\ [WebNext]_webVars
    => ListIInv' /\ [view = "list" => BulkAccounted]_webVars
<1> SUFFICES ASSUME ListIInv, [WebNext]_webVars
             PROVE  ListIInv' /\ [view = "list" => BulkAccounted]_webVars
  OBVIOUS
<1>1. view' = view /\ (view # "list" \/ ListNext \/ UNCHANGED listVars)
  BY DEF WebNext, AddView, SessionView, ListView, SettingsView, ChatView, webVars
<1>2. CASE view = "list" /\ ListNext
  BY <1>1, <1>2, ListStepBulk, ListStepForm DEF ListIInv, BulkStep, BulkAccounted
<1>3. CASE view = "list" /\ UNCHANGED listVars
  <2>1. /\ bulk' = bulk /\ sel' = sel /\ config' = config /\ dialog' = dialog
        /\ listed' = listed /\ picked' = picked
    BY <1>3 DEF listVars
  <2> QED BY <1>1, <1>3, <2>1, SameTracks DEF ListIInv, ItemsAccounted, Fits, BulkAccounted
<1> QED BY <1>1, <1>2, <1>3 DEF ListIInv

LEMMA ListInitIInv ==
  ASSUME WebInit
  PROVE  ListIInv
<1>1. ListInit => config = ConfigFresh /\ bulk = NoBulk /\ sel = {} /\ dialog = "none"
  BY DEF ListInit, ConfigInit
<1>2. view = "list" => ListInit
  BY DEF WebInit
<1>3. ASSUME bulk = NoBulk PROVE ItemsAccounted
  BY <1>3 DEF ItemsAccounted, NoBulk
<1>4. config = ConfigFresh => Fits(config)
  BY DefaultsFit
<1> QED BY <1>1, <1>2, <1>3, <1>4 DEF ListIInv
-----------------------------------------------------------------------------
(***************************************************************************)
(* The settings.                                                           *)
(***************************************************************************)
Holds(rows, values) == \A id \in DOMAIN rows : rows[id] \in values

\* The rows, shown and on their way, are those of the tab that is open.
Shaped(t) ==
  t = [rows |-> t.rows, loading |-> t.loading, asked |-> t.asked, read |-> t.read]
Shows(t, values) == Holds(t.rows, values) /\ \A rows \in t.read : Holds(rows, values)

RowsAreOfTheTab ==
  /\ Shaped(table)
  /\ Holds(profiles, Params) /\ Holds(templates, Content)
  /\ tab = "transcription" => Shows(table, Params)
  /\ tab = "summary" => Shows(table, Content)

\* A profile on its way to the service is one that the form could show.
FitChange(s) ==
  /\ s = [kind |-> s.kind, of |-> s.of, params |-> s.params, auto |-> s.auto, here |-> s.here]
  /\ s.params \in Params /\ (s.params.multi => ~s.params.diarize)
ChangesFit == Fits(config) /\ \A s \in psaves : FitChange(s)

\* The save under way from an open editor is of what the editor holds.
EditorRecord ==
  [open: BOOLEAN, of: Templates \cup {New}, draft: Content, typed: Content,
   saving: BOOLEAN, error: BOOLEAN, models: BOOLEAN]
SaveRecord == [of: Templates \cup {New}, content: Content, own: BOOLEAN]

EditorIInv ==
  /\ editor \in EditorRecord /\ save \in SaveRecord
  /\ editor.saving => /\ editor.open /\ save.own /\ save.content = editor.draft
                      /\ editor.draft.model # NoModel
  /\ DraftKept

\* A key that the page was told of is on the screen, dismissed, or of a
\* session that has ended; while one is created its form is open and locked.
KeysIInv ==
  /\ issued \in [told: SUBSET Keys, dismissed: SUBSET Keys, ended: BOOLEAN]
  /\ keyform \in [open: BOOLEAN, named: BOOLEAN, busy: BOOLEAN]
  /\ createdKey \in [key: Keys \cup {NoKey}, copied: BOOLEAN]
  /\ creating \subseteq [here: BOOLEAN]
  /\ keyform.open => createdKey.key = NoKey
  /\ \A c \in creating : IF c.here THEN keyform.open /\ keyform.busy ELSE issued.ended
  /\ IssuedKeyShown

SettingsIInv ==
  view = "settings" => RowsAreOfTheTab /\ ChangesFit /\ EditorIInv /\ KeysIInv

LEMMA AwayKeys ==
  ASSUME NEW S, S \subseteq [here: BOOLEAN]
  PROVE  /\ {[c EXCEPT !.here = FALSE] : c \in S} \subseteq [here: BOOLEAN]
         /\ \A d \in {[c EXCEPT !.here = FALSE] : c \in S} : ~d.here
<1>1. ASSUME NEW c \in [here: BOOLEAN] PROVE [c EXCEPT !.here = FALSE] \in [here: {FALSE}]
  OBVIOUS
<1> QED BY <1>1

LEMMA KeysStep ==
  ASSUME KeysIInv, SettingsNext
  PROVE  KeysIInv'
<1> USE DEF KeysIInv, IssuedKeyShown
<1>0. NoKey \notin Keys
  BY KeyAssumption
<1>1. ASSUME UNCHANGED keyVars PROVE KeysIInv'
  BY <1>1 DEF keyVars
<1>2. CASE SelectTab
  <2>1. ~keyform.open /\ createdKey.key = NoKey
    BY <1>2 DEF SelectTab, NoDialog, NoKeyDialog
  <2>2. /\ keyform' = KeyFormFresh /\ createdKey' = NotShown /\ issued' = issued
        /\ creating' = {[c EXCEPT !.here = FALSE] : c \in creating}
    BY <1>2 DEF SelectTab, TabOpened
  <2>3. creating = {} \/ issued.ended
    BY <2>1
  <2>4. creating = {} => creating' = {}
    BY <2>2
  <2>5. creating' \subseteq [here: BOOLEAN] /\ \A c \in creating' : ~c.here /\ issued.ended
    BY <2>2, <2>3, <2>4, AwayKeys
  <2> QED BY <1>0, <2>1, <2>2, <2>5 DEF KeyFormFresh, NotShown
<1>3. CASE AutoLogout
  <2>1. /\ keyform' = KeyFormFresh /\ createdKey' = NotShown
        /\ issued' = [issued EXCEPT !.ended = TRUE]
        /\ creating' = {[c EXCEPT !.here = FALSE] : c \in creating}
    BY <1>3 DEF AutoLogout, TabOpened
  <2>2. creating' \subseteq [here: BOOLEAN] /\ \A c \in creating' : ~c.here
    BY <2>1, AwayKeys
  <2> QED BY <2>1, <2>2 DEF KeyFormFresh, NotShown
<1>4. CASE GateStep \/ TokenRenewed \/ SignIn \/ SummaryTab \/ LlmTab \/ ProfilesTab \/ AccountTab
  BY <1>1, <1>4 DEF GateStep, TokenRenewed, SignIn, SummaryTab, LlmTab, ProfilesTab, AccountTab
<1>5. CASE OpenKeyForm \/ NameKey
  BY <1>5 DEF OpenKeyForm, NameKey, NoKeyDialog
<1>10. CASE CancelKey
  BY <1>10 DEF CancelKey, KeyFormFresh
<1>11. CASE SubmitKey
  <2>1. /\ keyform' = [keyform EXCEPT !.busy = TRUE] /\ keyform.open
        /\ creating' = {[here |-> TRUE]} /\ issued' = issued /\ createdKey' = createdKey
    BY <1>11 DEF SubmitKey
  <2>2. keyform' \in [open: BOOLEAN, named: BOOLEAN, busy: BOOLEAN] /\ keyform'.open /\ keyform'.busy
    BY <2>1
  <2>3. creating' \subseteq [here: BOOLEAN] /\ \A c \in creating' : c.here
    BY <2>1
  <2> QED BY <2>1, <2>2, <2>3
<1>6. CASE CopyKey
  <2>1. (~createdKey.copied) \in BOOLEAN
    OBVIOUS
  <2> QED BY <1>6, <2>1 DEF CopyKey
<1>12. CASE DismissKey
  <2>1. /\ createdKey' = NotShown /\ createdKey.key \in Keys
        /\ issued' = [issued EXCEPT !.dismissed = issued.dismissed \cup {createdKey.key}]
        /\ keyform' = keyform /\ creating' = creating
    BY <1>12 DEF DismissKey
  <2> QED BY <1>0, <2>1 DEF NotShown
<1>7. CASE KeyRows \/ (\E k \in Keys : DeleteKey(k))
           \/ \E d \in deletions, ok \in BOOLEAN : KeyDeleted(d, ok)
  BY <1>7 DEF KeyRows, DeleteKey, KeyDeleted
<1>13. \A c, d \in creating : c.here /\ d.here => c = d
  <2>1. \A c \in creating : c = [here |-> c.here]
    OBVIOUS
  <2> QED BY <2>1
<1>8. ASSUME NEW c \in creating, KeyFailed(c) PROVE KeysIInv'
  <2>1. /\ creating' = creating \ {c} /\ createdKey' = createdKey /\ issued' = issued
        /\ keyform' = IF c.here THEN [keyform EXCEPT !.busy = FALSE] ELSE keyform
    BY <1>8 DEF KeyFailed
  <2>2. c.here => \A d \in creating' : ~d.here
    BY <1>13, <2>1
  <2> QED BY <2>1, <2>2
<1>9. ASSUME NEW c \in creating, NEW k \in Keys, KeyCreated(c, k) PROVE KeysIInv'
  <2>1. /\ creating' = creating \ {c}
        /\ issued' = [issued EXCEPT !.told = issued.told \cup {k}]
        /\ IF c.here THEN keyform' = KeyFormFresh /\ createdKey' = [NotShown EXCEPT !.key = k]
           ELSE keyform' = keyform /\ createdKey' = createdKey
    BY <1>9 DEF KeyCreated
  <2>2. CASE c.here
    <3>1. \A d \in creating' : ~d.here
      BY <1>13, <2>1, <2>2
    <3>2. createdKey' = [key |-> k, copied |-> FALSE]
      BY <2>1, <2>2 DEF NotShown
    <3>3. ~issued.ended => issued.told \ issued.dismissed = {}
      BY <1>0, <2>2
    <3>4. /\ issued' \in [told: SUBSET Keys, dismissed: SUBSET Keys, ended: BOOLEAN]
          /\ issued'.told = issued.told \cup {k} /\ issued'.dismissed = issued.dismissed
          /\ issued'.ended = issued.ended
      BY <2>1
    <3>5. IssuedKeyShown'
      BY <3>2, <3>3, <3>4
    <3>6. \A d \in creating' : issued'.ended
      BY <2>1, <3>1, <3>4
    <3>7. keyform' = KeyFormFresh /\ creating' \subseteq creating
      BY <2>1, <2>2
    <3> QED BY <3>1, <3>2, <3>4, <3>5, <3>6, <3>7 DEF KeyFormFresh
  <2>3. CASE ~c.here
    BY <2>1, <2>3
  <2> QED BY <2>2, <2>3
<1> QED BY <1>2, <1>3, <1>4, <1>5, <1>6, <1>7, <1>8, <1>9, <1>10, <1>11, <1>12
    DEF SettingsNext, SettingsStep, KeysTab, KeyStep

\* What a step may do to the editor that is being saved.
EditorStep ==
  editor.saving /\ ~editor'.open /\ signed' =>
    \E t \in DOMAIN templates' : templates'[t] = editor.draft

\* What the service stores of a save.
LEMMA StoredHas ==
  ASSUME NEW s \in SaveRecord, NEW stored \in Stored(s), Holds(templates, Content)
  PROVE  /\ \E t \in DOMAIN stored : stored[t] = s.content
         /\ Holds(stored, Content)
<1>1. PICK id : stored = [t \in DOMAIN templates \cup {id} |->
                            IF t = id THEN s.content ELSE templates[t]]
  BY DEF Stored
<1>2. s.content \in Content
  BY DEF SaveRecord
<1> QED BY <1>1, <1>2 DEF Holds

LEMMA EditorStays ==
  ASSUME RowsAreOfTheTab, EditorIInv, SettingsNext
  PROVE  EditorIInv' /\ EditorStep
<1> DEFINE Good == EditorIInv' /\ EditorStep
<1> USE DEF EditorIInv, DraftKept, EditorStep
<1>0. Empty \in Content /\ New \in Templates \cup {New}
  BY DEF Empty, Content
<1>1. ASSUME UNCHANGED <<editor, save>> PROVE Good
  BY <1>1
<1>2. ASSUME EditorClosed, ~editor.saving \/ ~signed' PROVE Good
  <2>1. /\ EditorFresh \in EditorRecord /\ ~EditorFresh.open /\ ~EditorFresh.saving
    BY <1>0 DEF EditorFresh, EditorRecord
  <2>2. editor' = EditorFresh /\ save' \in SaveRecord
    BY <1>2 DEF EditorClosed, SaveRecord
  <2> QED BY <1>2, <2>1, <2>2
<1>3. ASSUME NEW of \in Templates \cup {New}, NEW content \in Content, ~editor.open,
             Opened(of, content)
      PROVE  Good
  <2>1. editor' = [open |-> TRUE, of |-> of, draft |-> content, typed |-> content,
                   saving |-> FALSE, error |-> FALSE, models |-> TRUE]
    BY <1>3 DEF Opened, EditorFresh
  <2>2. editor' \in EditorRecord
    BY <1>3, <2>1 DEF EditorRecord
  <2>3. save' \in SaveRecord
    BY <1>3 DEF Opened, SaveRecord
  <2> QED BY <1>3, <2>1, <2>2, <2>3
<1>4. CASE SelectTab \/ GateStep \/ SignIn \/ KeysTab \/ LlmTab \/ ProfilesTab \/ AccountTab
  BY <1>1, <1>4 DEF SelectTab, GateStep, SignIn, KeysTab, LlmTab, ProfilesTab, AccountTab,
     templateVars
<1>5. CASE TokenRenewed
  <2>1. save' = save /\ (editor' = editor \/ editor' = EditorTokenRenewed(editor))
    BY <1>5 DEF TokenRenewed
  <2>2. PICK m \in BOOLEAN : m = (editor.models \/ editor.open)
    BY DEF EditorRecord
  <2>3. CASE editor' = [editor EXCEPT !.models = m]
    BY <2>1, <2>3 DEF EditorRecord
  <2> QED BY <1>1, <2>1, <2>2, <2>3 DEF EditorTokenRenewed
<1>6. CASE AutoLogout
  BY <1>2, <1>6 DEF AutoLogout
<1>7. CASE NewTemplate
  BY <1>0, <1>3, <1>7 DEF NewTemplate
<1>8. ASSUME NEW t \in Templates, tab = "summary", EditTemplate(t) PROVE Good
  <2>1. table.rows[t] \in Content
    BY <1>8 DEF EditTemplate, RowsAreOfTheTab, Shows, Holds
  <2> QED BY <1>3, <1>8, <2>1 DEF EditTemplate
<1>9. CASE TypeDraft
  <2>1. PICK draft \in Content : editor' = [editor EXCEPT !.draft = draft, !.typed = draft]
    <3>1. PICK text \in Texts \cup {NoText}, model \in Models \cup {editor.draft.model} :
            editor' = [editor EXCEPT !.draft = [text |-> text, model |-> model],
                                     !.typed = [text |-> text, model |-> model]]
      BY <1>9, Zenon DEF TypeDraft
    <3>2. [text |-> text, model |-> model] \in Content
      BY DEF Content, EditorRecord
    <3> QED BY <3>1, <3>2, Zenon
  <2>2. editor.open /\ ~editor.saving /\ save' = save
    BY <1>9 DEF TypeDraft
  <2> QED BY <2>1, <2>2 DEF EditorRecord
<1>10. CASE ModelsArrive
  <2>1. PICK model \in Models \cup {NoModel} :
          editor' = [editor EXCEPT !.models = FALSE,
                       !.draft.model = IF @ = NoModel THEN model ELSE @]
    BY <1>10, Zenon DEF ModelsArrive
  <2>2. PICK d : d = [editor.draft EXCEPT !.model = IF editor.draft.model = NoModel THEN model
                                                    ELSE editor.draft.model]
    OBVIOUS
  <2>3. /\ d \in Content /\ d.text = editor.draft.text
        /\ editor.draft.model # NoModel => d = editor.draft
    BY <2>1, <2>2 DEF Content, EditorRecord
  <2>4. editor' = [editor EXCEPT !.models = FALSE, !.draft = d]
    BY <2>1, <2>2 DEF EditorRecord
  <2>5. editor.open /\ save' = save
    BY <1>10 DEF ModelsArrive
  <2>6. /\ editor' \in EditorRecord /\ editor'.draft = d /\ editor'.typed = editor.typed
        /\ editor'.open = editor.open /\ editor'.saving = editor.saving
    BY <2>3, <2>4 DEF EditorRecord
  <2> QED BY <2>3, <2>5, <2>6
<1>11. CASE CancelEditor
  BY <1>2, <1>11 DEF CancelEditor
<1>12. CASE SaveTemplate
  <2>1. /\ editor' = [editor EXCEPT !.saving = TRUE, !.error = FALSE]
        /\ save' = [of |-> editor.of, content |-> editor.draft, own |-> TRUE]
        /\ editor.open /\ editor.draft.model # NoModel /\ ~editor.saving
    BY <1>12 DEF SaveTemplate, Valid
  <2>2. editor' \in EditorRecord /\ save' \in SaveRecord
    BY <2>1 DEF EditorRecord, SaveRecord
  <2> QED BY <2>1, <2>2 DEF EditorRecord
<1>13. CASE TemplateRows \/ (\E t \in Templates : DeleteTemplate(t))
            \/ \E d \in deletions, ok \in BOOLEAN : TemplateDeleted(d, ok)
  BY <1>1, <1>13 DEF TemplateRows, DeleteTemplate, TemplateDeleted
<1>14. ASSUME NEW ok \in BOOLEAN, SaveAnswered(ok) PROVE Good
  <2>1. save' = NoSave /\ NoSave \in SaveRecord
    BY <1>0, <1>14 DEF SaveAnswered, NoSave, SaveRecord
  <2>2. CASE ~save.own
    BY <1>14, <2>1, <2>2 DEF SaveAnswered
  <2>3. CASE save.own /\ ~ok
    <3>1. editor' = [editor EXCEPT !.saving = FALSE, !.error = TRUE]
      BY <1>14, <2>3 DEF SaveAnswered
    <3>2. /\ editor' \in EditorRecord /\ ~editor'.saving /\ editor'.open = editor.open
          /\ editor'.draft = editor.draft /\ editor'.typed = editor.typed
      BY <3>1 DEF EditorRecord
    <3> QED BY <2>1, <3>2
  <2>4. CASE save.own /\ ok
    <3>1. editor' = EditorFresh /\ templates' \in Stored(save)
      BY <1>14, <2>4 DEF SaveAnswered
    <3>2. EditorFresh \in EditorRecord /\ ~EditorFresh.open /\ ~EditorFresh.saving
      BY <1>0 DEF EditorFresh, EditorRecord
    <3>3. \E t \in DOMAIN templates' : templates'[t] = save.content
      BY <3>1, StoredHas DEF RowsAreOfTheTab
    <3> QED BY <2>1, <3>1, <3>2, <3>3
  <2> QED BY <2>2, <2>3, <2>4
<1> QED BY <1>4, <1>5, <1>6, <1>7, <1>8, <1>9, <1>10, <1>11, <1>12, <1>13, <1>14
    DEF SettingsNext, SettingsStep, SummaryTab, TemplateStep

LEMMA TableSteps ==
  ASSUME NEW t, Shaped(t), NEW values
  PROVE  /\ \A hide : Shaped(Asked(t, hide)) /\ (Shows(t, values) => Shows(Asked(t, hide), values))
         /\ \A store : \A u \in Read(t, store) :
              Shaped(u) /\ (Shows(t, values) /\ Holds(store, values) => Shows(u, values))
         /\ \A other : \A u \in Arrived(t, other) :
              Shaped(u) /\ (Shows(t, values) /\ Holds(other, values) => Shows(u, values))
         /\ Shaped(TableFresh) /\ Shows(TableFresh, values)
<1>1. ASSUME NEW hide
      PROVE  Shaped(Asked(t, hide)) /\ (Shows(t, values) => Shows(Asked(t, hide), values))
  <2>1. PICK u : u = Asked(t, hide)
    OBVIOUS
  <2>2. u = [rows |-> t.rows, loading |-> (t.loading \/ hide), asked |-> t.asked + 1, read |-> t.read]
    BY <2>1 DEF Asked, Shaped
  <2> QED BY <2>1, <2>2 DEF Shaped, Shows
<1>2. ASSUME NEW store, NEW u \in Read(t, store)
      PROVE  Shaped(u) /\ (Shows(t, values) /\ Holds(store, values) => Shows(u, values))
  <2>1. u = [rows |-> t.rows, loading |-> t.loading, asked |-> t.asked - 1,
             read |-> t.read \cup {store}]
    BY <1>2 DEF Read, Shaped
  <2> QED BY <2>1 DEF Shaped, Shows
<1>3. ASSUME NEW other, NEW u \in Arrived(t, other)
      PROVE  Shaped(u) /\ (Shows(t, values) /\ Holds(other, values) => Shows(u, values))
  <2>1. CASE \E rows \in t.read :
               u = [t EXCEPT !.rows = rows, !.read = t.read \ {rows}, !.loading = FALSE]
    <3>1. PICK rows \in t.read :
            u = [t EXCEPT !.rows = rows, !.read = t.read \ {rows}, !.loading = FALSE]
      BY <2>1, Zenon
    <3>2. u = [rows |-> rows, loading |-> FALSE, asked |-> t.asked, read |-> t.read \ {rows}]
      BY <3>1 DEF Shaped
    <3> QED BY <3>1, <3>2 DEF Shaped, Shows
  <2>2. CASE u = [t EXCEPT !.rows = other, !.asked = t.asked - 1, !.loading = FALSE]
    <3>1. u = [rows |-> other, loading |-> FALSE, asked |-> t.asked - 1, read |-> t.read]
      BY <2>2 DEF Shaped
    <3> QED BY <3>1 DEF Shaped, Shows
  <2> QED BY <1>3, <2>1, <2>2, Zenon DEF Arrived
<1>4. Shaped(TableFresh) /\ Shows(TableFresh, values)
  BY DEF TableFresh, NoRows, Shaped, Shows, Holds
<1> QED BY <1>1, <1>2, <1>3, <1>4

LEMMA AwayChanges ==
  ASSUME NEW S, \A s \in S : FitChange(s)
  PROVE  \A d \in {[s EXCEPT !.here = FALSE] : s \in S} : FitChange(d)
<1>1. ASSUME NEW s \in S, NEW d, d = [s EXCEPT !.here = FALSE] PROVE FitChange(d)
  <2>3. PICK kind, of, params, auto, here :
          s = [kind |-> kind, of |-> of, params |-> params, auto |-> auto, here |-> here]
    BY DEF FitChange
  <2>1. d = [kind |-> kind, of |-> of, params |-> s.params, auto |-> auto, here |-> FALSE]
    BY <1>1, <2>3
  <2>2. s.params \in Params /\ (s.params.multi => ~s.params.diarize)
    BY DEF FitChange
  <2> QED BY <2>1, <2>2 DEF FitChange
<1> QED BY <1>1

LEMMA ChangesStep ==
  ASSUME RowsAreOfTheTab, ChangesFit, SettingsNext
  PROVE  ChangesFit'
<1> USE DEF ChangesFit
<1>1. ASSUME UNCHANGED <<psaves, config>> PROVE ChangesFit'
  BY <1>1 DEF Fits, FitChange
<1>2. ASSUME UNCHANGED psaves \/ psaves' = {}, Fits(config') PROVE ChangesFit'
  BY <1>2 DEF Fits, FitChange
<1>3. config \in ConfigType /\ config.params \in Params
  BY DEF Fits, ConfigType
<1>4. CASE SelectTab \/ AutoLogout
  <2>1. config' = ConfigFresh /\ psaves' = {[s EXCEPT !.here = FALSE] : s \in psaves}
    BY <1>4 DEF SelectTab, AutoLogout, TabOpened
  <2>2. \A d \in psaves' : FitChange(d)
    BY <2>1, AwayChanges
  <2> QED BY <2>1, <2>2, DefaultsFit DEF Fits, FitChange
<1>5. CASE GateStep \/ TokenRenewed \/ SignIn \/ SummaryTab \/ KeysTab \/ LlmTab \/ AccountTab
  BY <1>1, <1>5 DEF GateStep, TokenRenewed, SignIn, SummaryTab, KeysTab, LlmTab, AccountTab,
     profileVars
<1>6. CASE LoadPage \/ LoadSettings \/ ProfileRows
           \/ \E p \in ProfileIds : DeleteProfile(p)
  <2>1. UNCHANGED <<psaves, config>>
    BY <1>6, Zenon DEF LoadPage, LoadSettings, ProfileRows, DeleteProfile
  <2> QED BY <1>1, <2>1
<1>7. ASSUME NEW kind, NEW of, NEW params \in Params, NEW auto, config' = config,
             params.multi => ~params.diarize, SendProfile(kind, of, params, auto)
      PROVE  ChangesFit'
  <2>1. PICK s : s = [kind |-> kind, of |-> of, params |-> params, auto |-> auto, here |-> TRUE]
    OBVIOUS
  <2>2. FitChange(s)
    BY <1>7, <2>1 DEF FitChange
  <2>3. psaves' = psaves \cup {s}
    BY <1>7, <2>1 DEF SendProfile
  <2> QED BY <1>7, <2>2, <2>3 DEF Fits, FitChange
<1>8. CASE ToggleAuto \/ \E p \in ProfileIds : ChooseDefault(p)
  BY <1>7, <1>8, DefaultsFit DEF ToggleAuto, ChooseDefault
<1>9. CASE SubmitProfile
  BY <1>3, <1>7, <1>9 DEF SubmitProfile, Fits
<1>10. ASSUME NEW of, NEW params \in Params, NEW named, OpenForm(of, params, named)
       PROVE  ChangesFit'
  <2>1. params.multi \in BOOLEAN
    BY DEF Params
  <2>2. Fits(ConfigReset(config, params, params.multi))
    BY <1>3, <2>1, ResetFits
  <2> QED BY <1>2, <1>10, <2>2 DEF OpenForm
<1>11. ASSUME tab = "transcription", NEW p \in ProfileIds, EditProfile(p) PROVE ChangesFit'
  <2>1. table.rows[p] \in Params
    BY <1>11 DEF EditProfile, RowsAreOfTheTab, Shows, Holds
  <2> QED BY <1>10, <1>11, <2>1 DEF EditProfile
<1>12. CASE CreateProfile
  BY <1>10, <1>12, DefaultsFit DEF CreateProfile
<1>13. CASE CloseForm
  <2>1. Fits(ConfigClosed(config))
    BY <1>3, ResetFits
  <2> QED BY <1>2, <1>13, <2>1 DEF CloseForm, FormClosed
<1>14. CASE EditForm
  <2>1. UNCHANGED psaves /\ (UNCHANGED config \/ EditConfig(config.params.multi))
    BY <1>14 DEF EditForm
  <2> QED BY <1>1, <1>2, <2>1, EditFits
<1>15. ASSUME NEW d \in deletions, NEW ok \in BOOLEAN, ProfileDeleted(d, ok) PROVE ChangesFit'
  BY <1>1, <1>15 DEF ProfileDeleted
<1>16. ASSUME NEW s \in psaves, NEW ok \in BOOLEAN, ProfileAnswered(s, ok) PROVE ChangesFit'
  <2>1. psaves' = psaves \ {s} /\ (config' = config \/ config' = ConfigClosed(config))
    BY <1>16 DEF ProfileAnswered
  <2>2. Fits(config')
    BY <1>3, <2>1, ResetFits
  <2> QED BY <2>1, <2>2 DEF Fits, FitChange
<1> QED BY <1>4, <1>5, <1>6, <1>8, <1>9, <1>11, <1>12, <1>13, <1>14, <1>15, <1>16
    DEF SettingsNext, SettingsStep, ProfilesTab, ProfileStep

LEMMA RowsStep ==
  ASSUME RowsAreOfTheTab, ChangesFit, EditorIInv, SettingsNext
  PROVE  RowsAreOfTheTab'
<1> DEFINE StoresHold == Holds(profiles', Params) /\ Holds(templates', Content)
<1>0. /\ Shaped(table) /\ Holds(profiles, Params) /\ Holds(templates, Content)
      /\ tab = "transcription" => Shows(table, Params)
      /\ tab = "summary" => Shows(table, Content)
  BY DEF RowsAreOfTheTab
\* A step that leaves the tab open.
<1>1. ASSUME tab' = tab, StoresHold, Shaped(table'),
             tab = "transcription" => Shows(table', Params),
             tab = "summary" => Shows(table', Content)
      PROVE  RowsAreOfTheTab'
  BY <1>1 DEF RowsAreOfTheTab, Shaped, Shows, Holds
<1>2. ASSUME tab' = tab, StoresHold, table' = table \/ \E hide : table' = Asked(table, hide)
      PROVE  RowsAreOfTheTab'
  <2>1. \A values : Shows(table, values) => Shows(table', values)
    BY <1>0, <1>2, TableSteps
  <2>2. Shaped(table')
    BY <1>0, <1>2, TableSteps
  <2> QED BY <1>0, <1>1, <1>2, <2>1, <2>2
<1>3. ASSUME NEW store, NEW other, tab' = tab, StoresHold,
             table' \in Read(table, store) \cup Arrived(table, other),
             tab = "transcription" => Holds(store, Params) /\ Holds(other, Params),
             tab = "summary" => Holds(store, Content) /\ Holds(other, Content)
      PROVE  RowsAreOfTheTab'
  <2>1. ASSUME NEW values, Holds(store, values), Holds(other, values), Shows(table, values)
        PROVE  Shows(table', values)
    BY <1>0, <1>3, <2>1, TableSteps
  <2>2. Shaped(table')
    BY <1>0, <1>3, TableSteps
  <2> QED BY <1>0, <1>1, <1>3, <2>1, <2>2
\* A tab that opens begins with no rows.
<1>4. ASSUME table' = TableFresh, StoresHold PROVE RowsAreOfTheTab'
  <2>1. Shaped(table') /\ Shows(table', Params) /\ Shows(table', Content)
    BY <1>0, <1>4, TableSteps
  <2> QED BY <1>4, <2>1 DEF RowsAreOfTheTab, Shaped, Shows, Holds
<1>5. CASE SelectTab \/ AutoLogout
  BY <1>0, <1>4, <1>5 DEF SelectTab, AutoLogout, TabOpened
<1>6. CASE GateStep \/ SignIn \/ LlmTab \/ AccountTab
  BY <1>0, <1>2, <1>6 DEF GateStep, SignIn, LlmTab, AccountTab, templateVars, profileVars,
     tableVars, tabVars
<1>7. CASE TokenRenewed
  BY <1>0, <1>2, <1>7 DEF TokenRenewed
<1>8. CASE KeysTab
  <2>1. tab' = tab /\ StoresHold
    BY <1>0, <1>8 DEF KeysTab, templateVars, profileVars, tabVars
  <2>2. CASE tab = "apikeys" /\ KeyRows
    BY <1>3, <2>1, <2>2 DEF KeyRows
  <2>3. CASE ~KeyRows
    <3>1. table' = table \/ \E hide : table' = Asked(table, hide)
      BY <1>8, <2>3 DEF KeysTab, KeyStep, OpenKeyForm, NameKey, CancelKey, SubmitKey, CopyKey,
         DismissKey, DeleteKey, KeyFailed, KeyCreated, KeyDeleted
    <3> QED BY <1>2, <2>1, <3>1
  <2>4. CASE tab # "apikeys" /\ KeyRows
    <3>1. (\E c \in creating : KeyFailed(c) \/ \E k \in Keys : KeyCreated(c, k))
          \/ \E d \in deletions, ok \in BOOLEAN : KeyDeleted(d, ok)
      BY <1>8, <2>4 DEF KeysTab
    <3>2. table' = table \/ \E hide : table' = Asked(table, hide)
      BY <3>1 DEF KeyFailed, KeyCreated, KeyDeleted
    <3> QED BY <1>2, <2>1, <3>2
  <2> QED BY <2>2, <2>3, <2>4
<1>9. CASE SummaryTab
  <2>1. tab' = tab /\ profiles' = profiles
    BY <1>9 DEF SummaryTab, profileVars, tabVars
  <2>2. CASE NewTemplate \/ TypeDraft \/ ModelsArrive \/ CancelEditor \/ SaveTemplate
             \/ \E t \in Templates : EditTemplate(t) \/ DeleteTemplate(t)
    <3>1. templates' = templates /\ table' = table
      BY <2>2, Zenon DEF NewTemplate, TypeDraft, ModelsArrive, CancelEditor, SaveTemplate,
         EditTemplate, DeleteTemplate
    <3> QED BY <1>0, <1>2, <2>1, <3>1
  <2>3. CASE tab = "summary" /\ TemplateRows
    <3>1. /\ templates' = templates
          /\ table' \in Read(table, templates) \cup Arrived(table, table.rows)
      BY <2>3 DEF TemplateRows
    <3>2. Holds(table.rows, Content)
      BY <1>0, <2>3 DEF Shows
    <3> QED BY <1>0, <1>3, <2>1, <2>3, <3>1, <3>2
  <2>4. ASSUME NEW ok \in BOOLEAN, SaveAnswered(ok) PROVE RowsAreOfTheTab'
    <3>1. templates' = templates \/ templates' \in Stored(save)
      BY <2>4 DEF SaveAnswered
    <3>2. Holds(templates', Content)
      BY <1>0, <3>1, StoredHas DEF EditorIInv
    <3> QED BY <1>0, <1>2, <2>1, <2>4, <3>2 DEF SaveAnswered
  <2>5. ASSUME NEW d \in deletions, NEW ok \in BOOLEAN, TemplateDeleted(d, ok)
        PROVE  RowsAreOfTheTab'
    <3> DEFINE without(rows) == [t \in DOMAIN rows \ {d.id} |-> rows[t]]
    <3>1. /\ templates' = templates \/ templates' = without(templates)
          /\ table' = table \/ table' = [table EXCEPT !.rows = without(table.rows)]
      BY <2>5 DEF TemplateDeleted
    <3>2. \A rows, values : Holds(rows, values) => Holds(without(rows), values)
      BY DEF Holds
    <3>3. Holds(templates', Content)
      BY <1>0, <3>1, <3>2
    <3>4. CASE table' = table
      BY <1>0, <1>2, <2>1, <3>3, <3>4
    <3>5. CASE table' = [table EXCEPT !.rows = without(table.rows)]
      <4>1. PICK rows : rows = without(table.rows)
        OBVIOUS
      <4>2. table' = [rows |-> rows, loading |-> table.loading, asked |-> table.asked,
                      read |-> table.read]
        BY <1>0, <3>5, <4>1 DEF Shaped
      <4>3. Shaped(table')
        BY <4>2 DEF Shaped
      <4>4. \A values : Shows(table, values) => Shows(table', values)
        BY <3>2, <4>1, <4>2 DEF Shows
      <4> QED BY <1>0, <1>1, <2>1, <3>3, <4>3, <4>4
    <3> QED BY <3>1, <3>4, <3>5
  <2> QED BY <1>9, <2>2, <2>3, <2>4, <2>5 DEF SummaryTab, TemplateStep
<1>10. CASE ProfilesTab
  <2>1. tab' = tab /\ templates' = templates
    BY <1>10 DEF ProfilesTab, templateVars, tabVars
  <2>2. CASE LoadPage \/ LoadSettings \/ ToggleAuto \/ CreateProfile \/ CloseForm \/ EditForm
             \/ SubmitProfile
             \/ \E p \in ProfileIds : ChooseDefault(p) \/ EditProfile(p) \/ DeleteProfile(p)
    <3>1. profiles' = profiles /\ table' = table
      BY <2>2, Zenon DEF LoadPage, LoadSettings, ToggleAuto, CreateProfile, CloseForm, EditForm,
         SubmitProfile, ChooseDefault, EditProfile, DeleteProfile, OpenForm
    <3> QED BY <1>0, <1>2, <2>1, <3>1
  <2>3. CASE tab = "transcription" /\ ProfileRows
    <3>1. /\ profiles' = profiles
          /\ table' \in Read(table, profiles) \cup Arrived(table, table.rows)
      BY <2>3 DEF ProfileRows
    <3>2. Holds(table.rows, Params)
      BY <1>0, <2>3 DEF Shows
    <3> QED BY <1>0, <1>3, <2>1, <2>3, <3>1, <3>2
  <2>4. ASSUME NEW s \in psaves, NEW ok \in BOOLEAN, ProfileAnswered(s, ok)
        PROVE  RowsAreOfTheTab'
    <3>1. profiles' = profiles \/ profiles' \in SavedProfiles(s)
      <4>1. PICK o \in Outcomes(s) \cup (IF ok THEN {} ELSE {<<profiles, user>>}) :
              profiles' = o[1]
        BY <2>4 DEF ProfileAnswered
      <4>2. o = <<profiles, user>> \/ o \in Outcomes(s)
        BY <4>1
      <4> QED BY <4>1, <4>2 DEF Outcomes
    <3>2. s.params \in Params
      BY DEF ChangesFit, FitChange
    <3>3. Holds(profiles', Params)
      BY <1>0, <3>1, <3>2 DEF SavedProfiles, Holds
    <3>4. table' = table \/ \E hide : table' = Asked(table, hide)
      BY <2>4 DEF ProfileAnswered
    <3> QED BY <1>0, <1>2, <2>1, <3>3, <3>4
  <2>5. ASSUME NEW d \in deletions, NEW ok \in BOOLEAN, ProfileDeleted(d, ok)
        PROVE  RowsAreOfTheTab'
    <3>1. Holds(profiles', Params)
      BY <1>0, <2>5 DEF ProfileDeleted, Holds
    <3>2. table' = table \/ \E hide : table' = Asked(table, hide)
      BY <2>5 DEF ProfileDeleted
    <3> QED BY <1>0, <1>2, <2>1, <3>1, <3>2
  <2> QED BY <1>10, <2>2, <2>3, <2>4, <2>5 DEF ProfilesTab, ProfileStep
<1> QED BY <1>5, <1>6, <1>7, <1>8, <1>9, <1>10 DEF SettingsNext, SettingsStep

LEMMA WebStepSettings ==
  SettingsIInv /\ [WebNext]_webVars
    => SettingsIInv' /\ [view = "settings" => ClosesWhenSaved]_webVars
<1> SUFFICES ASSUME SettingsIInv, [WebNext]_webVars
             PROVE  SettingsIInv' /\ [view = "settings" => ClosesWhenSaved]_webVars
  OBVIOUS
<1>1. view' = view /\ (view # "settings" \/ SettingsNext \/ UNCHANGED settingsVars)
  BY DEF WebNext, AddView, SessionView, ListView, SettingsView, ChatView, webVars
<1>2. CASE view = "settings" /\ SettingsNext
  <2>1. RowsAreOfTheTab /\ ChangesFit /\ EditorIInv /\ KeysIInv
    BY <1>2 DEF SettingsIInv
  <2>2. RowsAreOfTheTab' /\ ChangesFit' /\ KeysIInv'
    BY <1>2, <2>1, RowsStep, ChangesStep, KeysStep
  <2>3. EditorIInv' /\ EditorStep
    BY <1>2, <2>1, EditorStays
  <2> QED BY <2>2, <2>3 DEF SettingsIInv, EditorStep, ClosesWhenSaved
<1>3. CASE view = "settings" /\ UNCHANGED settingsVars
  <2>1. UNCHANGED <<table, profiles, templates, tab, config, psaves, editor, save, issued, keyform,
                    createdKey, creating>>
    BY <1>3 DEF settingsVars, templateVars, keyVars, profileVars, tableVars, tabVars
  <2>2. RowsAreOfTheTab => RowsAreOfTheTab'
    BY <2>1 DEF RowsAreOfTheTab, Shaped, Shows, Holds
  <2>3. ChangesFit => ChangesFit'
    BY <2>1 DEF ChangesFit, Fits, FitChange
  <2>4. EditorIInv => EditorIInv' /\ ClosesWhenSaved
    BY <2>1 DEF EditorIInv, DraftKept, ClosesWhenSaved
  <2>5. KeysIInv => KeysIInv'
    BY <2>1 DEF KeysIInv, IssuedKeyShown
  <2> QED BY <1>3, <2>2, <2>3, <2>4, <2>5 DEF SettingsIInv
<1> QED BY <1>1, <1>2, <1>3 DEF SettingsIInv

LEMMA SettingsInitIInv ==
  ASSUME WebInit
  PROVE  SettingsIInv
<1>1. view = "settings" => SettingsInit
  BY DEF WebInit
<1> SUFFICES ASSUME SettingsInit PROVE RowsAreOfTheTab /\ ChangesFit /\ EditorIInv /\ KeysIInv
  BY <1>1 DEF SettingsIInv
<1>2. table = TableFresh /\ templates = <<>> /\ psaves = {} /\ config = ConfigFresh
  BY DEF SettingsInit, TableInit, TemplateInit, ProfileInit, ConfigInit
<1>3. Holds(profiles, Params)
  <2>1. Foreign \in Params /\ DefaultParams \in Params
    <3>1. Foreign = [DefaultParams EXCEPT !.multi = TRUE, !.diarize = TRUE]
      BY DEF Foreign
    <3> QED BY <3>1, DefaultsFit DEF Params
  <2>2. profiles = <<>> \/ \E p \in ProfileIds : profiles \in [{p} -> {DefaultParams, Foreign}]
    BY DEF SettingsInit, ProfileInit
  <2>3. CASE profiles = <<>>
    BY <2>3 DEF Holds
  <2>4. ASSUME NEW p \in ProfileIds, profiles \in [{p} -> {DefaultParams, Foreign}]
        PROVE  Holds(profiles, Params)
    <3>1. \A id \in DOMAIN profiles : profiles[id] \in {DefaultParams, Foreign}
      BY <2>4
    <3> QED BY <2>1, <3>1 DEF Holds
  <2> QED BY <2>2, <2>3, <2>4
<1>4. Shaped(table) /\ Shows(table, Params) /\ Shows(table, Content)
  BY <1>2 DEF TableFresh, NoRows, Shaped, Shows, Holds
<1>5. RowsAreOfTheTab
  BY <1>2, <1>3, <1>4 DEF RowsAreOfTheTab, Holds
<1>6. ChangesFit
  BY <1>2, DefaultsFit DEF ChangesFit
<1>7. EditorIInv
  <2>1. Empty \in Content
    BY DEF Empty, Content
  <2> QED BY <2>1 DEF SettingsInit, TemplateInit, EditorIInv, EditorFresh, NoSave, EditorRecord,
          SaveRecord, DraftKept
<1>8. KeysIInv
  BY DEF SettingsInit, KeyInit, KeysIInv, KeyFormFresh, NotShown, IssuedKeyShown
<1> QED BY <1>5, <1>6, <1>7, <1>8

\* No form asks for tracks and diarization at once, and none is sent that does;
\* an editor holds what was typed, and a new key is shown until it is
\* dismissed: for any number of jobs, profiles, templates and keys.
THEOREM FormsStayTrue == WebSpec => []FormsAreTrue
<1>1. ListIInv /\ SettingsIInv => FormsAreTrue
  BY DEF ListIInv, SettingsIInv, Fits, ChangesFit, FitChange, EditorIInv, KeysIInv, FormsAreTrue,
     ParamsMatchTracks, ProfilesMatchTracks
<1> QED BY <1>1, ListInitIInv, SettingsInitIInv, WebStepList, WebStepSettings, PTL DEF WebSpec

\* No item of a bulk operation is forgotten when it ends, and an editor closes
\* under its save only when what it shows is stored.
THEOREM OperationsStayAccounted == WebSpec => OperationsAreAccounted
<1>1. [view = "list" => BulkAccounted]_webVars /\ [view = "settings" => ClosesWhenSaved]_webVars
        => [/\ view = "list" => BulkAccounted
            /\ view = "settings" => ClosesWhenSaved]_webVars
  OBVIOUS
<1> QED BY <1>1, ListInitIInv, SettingsInitIInv, WebStepList, WebStepSettings, PTL
    DEF WebSpec, OperationsAreAccounted
-----------------------------------------------------------------------------
(***************************************************************************)
(* The chat of a transcript.                                               *)
(***************************************************************************)
ThreadFields ==
  {"mounted", "list", "following", "log", "busy", "models", "lists", "histories"}
SideFields == {"mounted", "asked", "rows", "adding", "editing", "deleting", "generating"}
TitleFields == {"no", "to", "plain", "step"}

\* Nothing is marked in a list that is not there.
SideIInv ==
  /\ DOMAIN side = SideFields /\ \A t \in titles : DOMAIN t = TitleFields
  /\ ~side.mounted => side.generating = {}
  /\ \A c \in side.generating : \E t \in titles : t.to = c /\ t.step # "timer"
ThreadIInv == DOMAIN thread = ThreadFields /\ PostedWhereTyped

ChatIInv == view = "chat" => SideIInv /\ ThreadIInv

\* The effect on the session that is chosen follows it, or none.
LEMMA FollowingFollows ==
  ASSUME NEW t, DOMAIN t = ThreadFields, NEW c
  PROVE  DOMAIN Following(t, c) = ThreadFields /\ Following(t, c).following \in {c, NoChat}
<1> USE DEF ThreadFields
<1>1. CASE t.following = c
  BY <1>1 DEF Following
<1>2. CASE t.following # c /\ c \in t.list
  <2>1. PICK u : u = [t EXCEPT !.following = c]
    OBVIOUS
  <2>2. DOMAIN u = ThreadFields /\ u.following = c
    BY <2>1
  <2>3. PICK h : h = [u.histories EXCEPT ![c] = More(u.histories[c], 1)]
    OBVIOUS
  <2>4. Following(t, c) = [u EXCEPT !.log = <<>>, !.histories = h]
    BY <1>2, <2>1, <2>2, <2>3 DEF Following, Reloading
  <2> QED BY <2>2, <2>4
<1>3. CASE t.following # c /\ c \notin t.list
  <2> DEFINE times == IF t.following = NoChat THEN 1 ELSE 2
  <2>1. PICK h : h = [t.histories EXCEPT ![c] = More(t.histories[c], times)]
    OBVIOUS
  <2>2. PICK l : l = [t.lists EXCEPT ![c] = More(t.lists[c], times)]
    OBVIOUS
  <2>3. Following(t, c) = [t EXCEPT !.following = NoChat, !.log = <<>>,
                                    !.histories = h, !.lists = l]
    BY <1>3, <2>1, <2>2 DEF Following
  <2> QED BY <2>3
<1> QED BY <1>1, <1>2, <1>3

LEMMA ThreadForFollows ==
  ASSUME ThreadIInv, NEW c
  PROVE  DOMAIN ThreadFor(c) = ThreadFields /\ ThreadFor(c).following \in {c, NoChat}
<1>1. DOMAIN NoThread = ThreadFields /\ NoThread.following = NoChat
  BY DEF NoThread, ThreadFields
<1>2. PICK t : t = [NoThread EXCEPT !.mounted = TRUE, !.models = c]
  OBVIOUS
<1>3. DOMAIN t = ThreadFields
  BY <1>1, <1>2
<1>4. Mounted(c) = Following(t, c)
  BY <1>2 DEF Mounted
<1> QED BY <1>1, <1>3, <1>4, FollowingFollows DEF ThreadFor, ThreadIInv

LEMMA ThreadStepIInv ==
  ASSUME ThreadIInv, ChatNext
  PROVE  ThreadIInv'
<1>0. DOMAIN thread = ThreadFields /\ thread.following \in {chosen, NoChat}
  BY DEF ThreadIInv, PostedWhereTyped
<1>1. ASSUME DOMAIN thread' = ThreadFields, thread'.following \in {chosen', NoChat}
      PROVE  ThreadIInv'
  BY <1>1 DEF ThreadIInv, PostedWhereTyped, ThreadFields
<1>2. DOMAIN NoThread = ThreadFields /\ NoThread.following = NoChat
  BY DEF NoThread, ThreadFields
<1>3. CASE OpenPanel \/ ClosePanel \/ SelectSession \/ BackToList \/ CreateStep
  <2>1. thread' = NoThread \/ thread' = ThreadFor(chosen')
    BY <1>3 DEF OpenPanel, ClosePanel, SelectSession, BackToList, CreateStep
  <2> QED BY <1>1, <1>2, <2>1, ThreadForFollows
<1>4. ASSUME chosen' = chosen, thread'.following = thread.following, DOMAIN thread' = ThreadFields
      PROVE  ThreadIInv'
  BY <1>0, <1>1, <1>4
<1>5. CASE TitleServed \/ TitleStep \/ SideStep \/ EditStep
  <2>1. chosen' = chosen /\ thread' = thread
    <3>1. CASE TitleServed
      BY <3>1 DEF TitleServed, TitleRead, TitleWritten, TitleRefused, panelVars
    <3>2. CASE TitleStep
      BY <3>2 DEF TitleStep, TitleBegins, TitleArrives, TitleFailed, panelVars
    <3>3. CASE SideStep \/ EditStep
      BY <3>3 DEF SideStep, EditStep, threadVars, panelVars
    <3> QED BY <1>5, <3>1, <3>2, <3>3
  <2> QED BY <1>0, <1>4, <2>1
<1>6. CASE QuestionStep
  <2>1. PICK q \in questions :
          QuestionStored(q) \/ AnswerBegins(q) \/ AnswerStored(q) \/ AnswerUnstored(q)
          \/ AnswerEnds(q) \/ AskFails(q)
    BY <1>6 DEF QuestionStep
  <2>2. chosen' = chosen
    BY <1>6 DEF QuestionStep, panelVars
  <2>3. DOMAIN thread' = ThreadFields /\ thread'.following = thread.following
    <3>1. CASE QuestionStored(q) \/ AnswerStored(q) \/ AnswerUnstored(q)
      <4>1. thread' = thread
        BY <3>1 DEF QuestionStored, AnswerStored, AnswerUnstored
      <4> QED BY <1>0, <4>1
    <3>2. CASE AnswerBegins(q)
      BY <1>0, <3>2 DEF AnswerBegins, ThreadFields
    <3>3. CASE AnswerEnds(q)
      BY <1>0, <3>3 DEF AnswerEnds, ThreadFields
    <3>4. CASE AskFails(q)
      BY <1>0, <3>4 DEF AskFails, ThreadFields
    <3> QED BY <2>1, <3>1, <3>2, <3>3, <3>4
  <2> QED BY <1>4, <2>2, <2>3
<1>7. CASE ThreadStep
  <2>1. chosen' = chosen
    BY <1>7 DEF ThreadStep, panelVars
  <2>2. ASSUME NEW t, DOMAIN t = ThreadFields, thread' = Following(t, chosen) PROVE ThreadIInv'
    BY <1>1, <2>1, <2>2, FollowingFollows
  <2>3. CASE ModelsAnswered(chosen) \/ Ask \/ \E c \in ChatIds : HistoryAnswered(c)
    <3>1. CASE ModelsAnswered(chosen)
      BY <1>0, <1>4, <2>1, <3>1 DEF ModelsAnswered, ThreadFields
    <3>2. CASE Ask
      BY <1>0, <1>4, <2>1, <3>2 DEF Ask, ThreadFields
    <3>3. ASSUME NEW c \in ChatIds, HistoryAnswered(c) PROVE ThreadIInv'
      <4>1. PICK log : thread' = [thread EXCEPT !.histories[c] = thread.histories[c] - 1, !.log = log]
        BY <3>3, Zenon DEF HistoryAnswered
      <4> QED BY <1>0, <1>4, <2>1, <4>1 DEF ThreadFields
    <3> QED BY <2>3, <3>1, <3>2, <3>3
  <2>4. CASE ModelsRefused(chosen)
    <3>1. PICK t : t = [thread EXCEPT !.models = NoChat, !.list = {}]
      OBVIOUS
    <3>2. DOMAIN t = ThreadFields /\ thread' = Following(t, chosen)
      BY <1>0, <2>4, <3>1 DEF ModelsRefused
    <3> QED BY <2>2, <3>2
  <2>5. ASSUME NEW c \in ChatIds, ListRefused(c, chosen) PROVE ThreadIInv'
    <3>1. PICK t : t = [thread EXCEPT !.lists[c] = thread.lists[c] - 1, !.list = {}]
      OBVIOUS
    <3>2. DOMAIN t = ThreadFields
      BY <1>0, <3>1
    <3>3. thread' = Following(t, chosen)
      BY <2>5, <3>1, Zenon DEF ListRefused
    <3> QED BY <2>2, <3>2, <3>3
  <2>6. ASSUME NEW c \in ChatIds, ListAnswered(c, chosen) PROVE ThreadIInv'
    <3>1. PICK t : t = [thread EXCEPT !.lists[c] = thread.lists[c] - 1, !.list = DOMAIN chats]
      OBVIOUS
    <3>2. PICK u : u = Reloading([t EXCEPT !.following = c], c)
      OBVIOUS
    <3>3. DOMAIN t = ThreadFields /\ DOMAIN u = ThreadFields
      BY <1>0, <3>1, <3>2 DEF Reloading
    <3>4. thread' = Following(t, chosen) \/ thread' = Following(u, chosen)
      BY <2>6, <3>1, <3>2, Zenon DEF ListAnswered
    <3> QED BY <2>2, <3>3, <3>4
  <2> QED BY <1>7, <2>3, <2>4, <2>5, <2>6 DEF ThreadStep
<1> QED BY <1>3, <1>5, <1>6, <1>7 DEF ChatNext

LEMMA SideStepIInv ==
  ASSUME SideIInv, ChatNext
  PROVE  SideIInv'
<1> DEFINE Known(c, ts) == \E t \in ts : t.to = c /\ t.step # "timer"
<1>0. /\ DOMAIN side = SideFields /\ \A t \in titles : DOMAIN t = TitleFields
      /\ ~side.mounted => side.generating = {}
      /\ \A c \in side.generating : Known(c, titles)
  BY DEF SideIInv
<1>1. ASSUME DOMAIN side' = SideFields, \A t \in titles' : DOMAIN t = TitleFields,
             ~side'.mounted => side'.generating = {},
             \A c \in side'.generating : Known(c, titles')
      PROVE  SideIInv'
  BY <1>1 DEF SideIInv, SideFields, TitleFields
<1> HIDE DEF Known
<1>2. ASSUME titles' = titles, DOMAIN side' = SideFields,
             \/ side'.mounted = side.mounted /\ side'.generating = side.generating
             \/ side'.generating = {}
      PROVE  SideIInv'
  BY <1>0, <1>1, <1>2
<1>3. CASE OpenPanel \/ ClosePanel
  <2>1. /\ DOMAIN NoSide = SideFields /\ NoSide.generating = {}
        /\ DOMAIN SideMounted = SideFields /\ SideMounted.generating = {}
    BY DEF NoSide, SideMounted, SideFields
  <2> QED BY <1>2, <1>3, <2>1 DEF OpenPanel, ClosePanel
<1>4. CASE SelectSession \/ BackToList \/ ThreadStep
  <2>1. titles' = titles /\ side' = side
    <3>1. CASE ThreadStep
      BY <3>1, Zenon DEF ThreadStep, ModelsAnswered, ModelsRefused, ListAnswered, ListRefused,
         HistoryAnswered, Ask, sideVars
    <3> QED BY <1>4, <3>1 DEF SelectSession, BackToList, sideVars
  <2> QED BY <1>0, <1>2, <2>1
\* A title that begins or goes on stays known; the marks only follow.
<1>5. ASSUME NEW t \in titles, NEW u, DOMAIN u = TitleFields, u.to = t.to, u.step # "timer",
             titles' = (titles \ {t}) \cup {u}, DOMAIN side' = SideFields,
             ~side'.mounted => side'.generating = {},
             side'.generating \subseteq side.generating \cup {t.to}
      PROVE  SideIInv'
  <2>1. \A c : Known(c, titles) \/ c = t.to => Known(c, titles')
    BY <1>5 DEF Known
  <2> QED BY <1>0, <1>1, <1>5, <2>1
<1>6. ASSUME NEW t \in titles, NEW step, step # "timer", TitleGoes(t, step),
             DOMAIN side' = SideFields,
             ~side'.mounted => side'.generating = {},
             side'.generating \subseteq side.generating \cup {t.to}
      PROVE  SideIInv'
  <2>1. PICK u : u = [t EXCEPT !.step = step]
    OBVIOUS
  <2>2. DOMAIN u = TitleFields /\ u.to = t.to /\ u.step # "timer"
    BY <1>0, <1>6, <2>1 DEF TitleFields
  <2> QED BY <1>5, <1>6, <2>1, <2>2 DEF TitleGoes
<1>7. CASE TitleServed
  <2>1. side' = side
    BY <1>7 DEF TitleServed, sideVars
  <2>2. /\ DOMAIN side' = SideFields /\ side'.generating = side.generating
        /\ ~side'.mounted => side'.generating = {}
    BY <1>0, <2>1
  <2>3. ASSUME NEW t \in titles, TitleRead(t) PROVE SideIInv'
    <3>1. PICK plain : plain = (chats[t.to].title = "plain")
      OBVIOUS
    <3>2. PICK u : u = [t EXCEPT !.plain = plain, !.step = IF plain THEN "writing" ELSE "written"]
      OBVIOUS
    <3>3. DOMAIN u = TitleFields /\ u.to = t.to /\ u.step # "timer"
      BY <1>0, <3>2 DEF TitleFields
    <3>4. titles' = (titles \ {t}) \cup {u}
      BY <2>3, <3>1, <3>2, Zenon DEF TitleRead
    <3> QED BY <1>5, <2>2, <3>3, <3>4
  <2>4. ASSUME NEW t \in titles, TitleWritten(t) \/ TitleRefused(t) PROVE SideIInv'
    <3>1. TitleGoes(t, "written") \/ TitleGoes(t, "failed")
      BY <2>4 DEF TitleWritten, TitleRefused
    <3>2. "written" # "timer" /\ "failed" # "timer"
      OBVIOUS
    <3> QED BY <1>6, <2>2, <3>1, <3>2
  <2> QED BY <1>7, <2>3, <2>4 DEF TitleServed
<1>8. ASSUME NEW t \in titles, TitleBegins(t) PROVE SideIInv'
  <2>1. \/ side' = side
        \/ side.mounted /\ side' = [side EXCEPT !.generating = side.generating \cup {t.to}]
    BY <1>8, Zenon DEF TitleBegins, HearsGenerating
  <2>2. /\ DOMAIN side' = SideFields
        /\ ~side'.mounted => side'.generating = {}
        /\ side'.generating \subseteq side.generating \cup {t.to}
    BY <1>0, <2>1 DEF SideFields
  <2>3. TitleGoes(t, "asked") /\ "asked" # "timer"
    BY <1>8 DEF TitleBegins
  <2> QED BY <1>6, <2>2, <2>3
\* The mark goes with the request.
<1>9. ASSUME NEW t \in titles, TitleArrives(t) \/ TitleFailed(t) PROVE SideIInv'
  <2>1. titles' = titles \ {t} /\ DOMAIN side' = SideFields
    BY <1>0, <1>9 DEF TitleArrives, TitleFailed, HearsGenerating, HearsTitle, SideFields
  <2>2. /\ side'.mounted = side.mounted
        /\ IF side.mounted THEN side'.generating = side.generating \ {t.to}
                           ELSE side'.generating = side.generating
    BY <1>0, <1>9 DEF TitleArrives, TitleFailed, HearsGenerating, HearsTitle, SideFields
  <2>3. \A c : c # t.to /\ Known(c, titles) => Known(c, titles')
    BY <2>1 DEF Known
  <2> QED BY <1>0, <1>1, <2>1, <2>2, <2>3
<1>10. CASE QuestionStep
  <2>1. side' = side
    BY <1>10 DEF QuestionStep, sideVars
  <2>2. \/ titles' = titles
        \/ \E no, to : titles' = titles \cup {[no |-> no, to |-> to, plain |-> FALSE, step |-> "timer"]}
    BY <1>10 DEF QuestionStep, QuestionStored, AnswerBegins, AnswerStored, AnswerUnstored,
       AnswerEnds, AskFails
  <2>3. titles \subseteq titles' /\ \A t \in titles' : DOMAIN t = TitleFields
    BY <1>0, <2>2 DEF TitleFields
  <2>4. \A c : Known(c, titles) => Known(c, titles')
    BY <2>3 DEF Known
  <2> QED BY <1>0, <1>1, <2>1, <2>3, <2>4
<1>11. CASE SideStep
  <2>1. titles' = titles
    BY <1>11 DEF SideStep, threadVars
  <2>2. CASE RowsArrive
    BY <1>0, <1>2, <2>1, <2>2 DEF RowsArrive, SideFields
  <2>3. CASE SideOpens
    BY <1>0, <1>2, <2>1, <2>3 DEF SideOpens, SideFields
  <2>4. CASE SideCancels
    BY <1>0, <1>2, <2>1, <2>4 DEF SideCancels, SideFields
  <2>5. CASE CreateClick \/ RenameClick \/ DeleteClick
    BY <1>0, <1>2, <2>1, <2>5 DEF CreateClick, RenameClick, DeleteClick, SideFields
  <2> QED BY <1>11, <2>2, <2>3, <2>4, <2>5 DEF SideStep
<1>12. CASE EditStep
  <2>1. titles' = titles
    BY <1>12 DEF EditStep, threadVars
  <2>2. PICK e \in edits : Renamed(e) \/ Deleted(e) \/ EditFails(e)
    BY <1>12 DEF EditStep
  <2>3. CASE Renamed(e)
    BY <1>0, <1>2, <2>1, <2>3 DEF Renamed, SideFields
  <2>4. CASE Deleted(e)
    BY <1>0, <1>2, <2>1, <2>4 DEF Deleted, SideFields
  <2>5. CASE EditFails(e)
    BY <1>0, <1>2, <2>1, <2>5 DEF EditFails, SideFields
  <2> QED BY <2>2, <2>3, <2>4, <2>5
<1>13. CASE CreateStep
  <2>1. titles' = titles
    BY <1>13 DEF CreateStep
  <2>2. PICK e \in edits, c \in ChatIds : Created(e, c)
    BY <1>13 DEF CreateStep
  <2>3. DOMAIN side' = SideFields /\ side'.mounted = side.mounted /\ side'.generating = side.generating
    BY <1>0, <2>2 DEF Created, SideFields
  <2> QED BY <1>2, <2>1, <2>3
<1> QED BY <1>3, <1>4, <1>7, <1>8, <1>9, <1>10, <1>11, <1>12, <1>13 DEF ChatNext, TitleStep

LEMMA WebStepChat ==
  ASSUME ChatIInv, [WebNext]_webVars
  PROVE  ChatIInv'
<1>1. view' = view /\ (view # "chat" \/ ChatNext \/ UNCHANGED chatVars)
  BY DEF WebNext, AddView, SessionView, ListView, SettingsView, ChatView, webVars
<1>2. CASE view = "chat" /\ ChatNext
  BY <1>1, <1>2, SideStepIInv, ThreadStepIInv DEF ChatIInv
<1>3. CASE view = "chat" /\ UNCHANGED chatVars
  <2>1. UNCHANGED <<side, titles, thread, chosen>>
    BY <1>3 DEF chatVars, threadVars, sideVars, panelVars
  <2> QED BY <1>1, <1>3, <2>1 DEF ChatIInv, SideIInv, ThreadIInv, PostedWhereTyped
<1> QED BY <1>1, <1>2, <1>3 DEF ChatIInv

LEMMA ChatInitIInv == WebInit => ChatIInv
<1> SUFFICES ASSUME WebInit, view = "chat" PROVE SideIInv /\ ThreadIInv
  BY DEF ChatIInv
<1>1. thread = NoThread /\ titles = {} /\ side = NoSide
  BY DEF WebInit, ChatInit
<1> QED BY <1>1 DEF SideIInv, ThreadIInv, PostedWhereTyped, NoThread, NoSide, ThreadFields, SideFields

\* A question goes to the session that the panel shows, and a row is marked as
\* being given a title only while one is asked for: for any number of sessions,
\* of questions and of loads under way.
THEOREM ChatStaysItsOwn == WebSpec => []ChatIsItsOwn
<1>1. ChatIInv => ChatIsItsOwn
  BY DEF ChatIInv, SideIInv, ThreadIInv, ChatIsItsOwn, ChatShowsItsOwn, SpinnerIsOurs
<1> QED BY <1>1, ChatInitIInv, WebStepChat, PTL DEF WebSpec
-----------------------------------------------------------------------------
(***************************************************************************)
(* The types of the parts, with what keeps the counters in their bounds.   *)
(***************************************************************************)
\* A batch is running, so it has a file left to send; its timer takes the place
\* that it leaves.
Batch == [id: Batches, from: Senders, n: 1..MaxFiles,
          at: 0..MaxFiles, ok: 0..MaxFiles, dash: BOOLEAN]
UpRecord == [dashboard: BOOLEAN, uploading: BOOLEAN, progress: Seq(Statuses),
             hides: 0..Cardinality(Batches), tracksOpen: BOOLEAN, filled: BOOLEAN,
             batches: SUBSET Batch]
UpIInv ==
  /\ up \in UpRecord
  /\ IsFiniteSet(up.batches)
  /\ up.hides + Cardinality(up.batches) <= Cardinality(Batches)
  /\ \A b \in up.batches : b.ok <= b.at /\ b.at < b.n

UpAction ==
  \/ up' = OpenTracks(up) \/ EditTracks \/ CloseTracks \/ HideProgress
  \/ \E d \in BOOLEAN : up' = [up EXCEPT !.dashboard = d,
                                       !.batches = {Unheard(b) : b \in up.batches}]
  \/ up' = UpFresh
  \/ \E from \in Senders, n \in 1..MaxFiles : Send(from, n)
  \/ \E b \in up.batches, ok \in BOOLEAN : FileAnswered(b, ok)

\* A selection has at most MaxFiles files, so has what is taken from it.
LEMMA SelectedFiles ==
  ASSUME NEW files \in Selections, NEW S \in SUBSET files, S # {}
  PROVE  Cardinality(S) \in 1..MaxFiles
<1>1. IsFiniteSet(Kinds)
  <2>1. IsFiniteSet({"audio"})
    BY FS_Singleton
  <2>2. IsFiniteSet({"audio", "video"})
    BY <2>1, FS_AddElement, {"audio", "video"} = {"audio"} \cup {"video"}
  <2>3. IsFiniteSet({"audio", "video", "webm"})
    BY <2>2, FS_AddElement, {"audio", "video", "webm"} = {"audio", "video"} \cup {"webm"}
  <2>4. IsFiniteSet({"audio", "video", "webm", "aup"})
    BY <2>3, FS_AddElement, {"audio", "video", "webm", "aup"} = {"audio", "video", "webm"} \cup {"aup"}
  <2> QED
    BY <2>4, FS_AddElement,
       {"audio", "video", "webm", "aup", "other"} = {"audio", "video", "webm", "aup"} \cup {"other"}
    DEF Kinds
<1>2. IsFiniteSet(files) /\ Cardinality(files) <= MaxFiles
  BY <1>1, FS_Subset DEF Selections
<1>3. IsFiniteSet(S) /\ Cardinality(S) <= Cardinality(files)
  BY <1>2, FS_Subset
<1>4. Cardinality(S) \in Nat /\ Cardinality(files) \in Nat /\ Cardinality(S) # 0
  BY <1>2, <1>3, FS_CardinalityType, FS_EmptySet
<1> QED BY <1>2, <1>3, <1>4 DEF MaxFiles

LEMMA AddStepUp ==
  ASSUME AddNext
  PROVE  UpAction \/ UNCHANGED up
<1>1. ASSUME NEW files \in Selections, PickAudio(files) \/ PickVideo(files) \/ Drop(files)
      PROVE  UpAction
  <2>0. \A S \in SUBSET files : S # {} => Cardinality(S) \in 1..MaxFiles
    BY SelectedFiles
  <2>1. CASE PickAudio(files)
    <3>1. AudioOf(files) \in SUBSET files /\ AudioOf(files) # {}
      BY <2>1 DEF PickAudio, AudioOf
    <3> QED BY <2>0, <2>1, <3>1 DEF PickAudio, UpAction, Senders
  <2>2. CASE PickVideo(files)
    <3>1. PICK videos \in SUBSET files : videos # {} /\ Send("user", Cardinality(videos))
      BY <2>2 DEF PickVideo
    <3> QED BY <2>0, <3>1 DEF UpAction, Senders
  <2>3. CASE Drop(files) /\ Grouped(files).type = "multitrack"
    BY <2>3 DEF Drop, UpAction
  <2>4. CASE Drop(files) /\ Grouped(files).type # "multitrack"
    <3>1. Grouped(files).files \in SUBSET files /\ Grouped(files).files # {}
      BY <2>4 DEF Drop, ValidGroup, Grouped, AudioOf, VideoOf
    <3>2. Send("user", Cardinality(Grouped(files).files))
      BY <2>4 DEF Drop
    <3> QED BY <2>0, <3>1, <3>2 DEF UpAction, Senders
  <2> QED BY <1>1, <2>1, <2>2, <2>3, <2>4
<1>2. CASE AddFiles
  BY <1>1, <1>2 DEF AddFiles
<1>3. 1 \in 1..MaxFiles /\ {"sys", "mic", "multitrack"} \subseteq Senders
  BY DEF MaxFiles, Senders
<1>4. CASE OpenDialog
  BY <1>4 DEF OpenDialog, ClickMultiTrack, UpAction
<1>5. CASE TracksDialog
  BY <1>3, <1>5 DEF TracksDialog, UploadTracks, UpAction
<1>6. CASE SystemDialog \/ MicDialog \/ QuickStep \/ TubeStep
  BY <1>6 DEF SystemDialog, MicDialog, QuickStep, TubeStep
<1>7. CASE UploadRecording
  BY <1>3, <1>7 DEF UploadRecording, UpAction
<1>8. CASE AnswerUpload \/ ProgressTimer \/ Navigate \/ SessionEnds
  BY <1>8 DEF AnswerUpload, ProgressTimer, Navigate, SessionEnds, UpAction
<1> QED BY <1>2, <1>4, <1>5, <1>6, <1>7, <1>8 DEF AddNext

\* A batch sends its next file, and ends with its last.
LEMMA AnsweredUpIInv ==
  ASSUME UpIInv, NEW b \in up.batches, NEW ok \in BOOLEAN, FileAnswered(b, ok)
  PROVE  UpIInv'
<1>0. /\ up \in UpRecord /\ b \in Batch /\ b.ok <= b.at /\ b.at < b.n
      /\ IsFiniteSet(up.batches) /\ IsFiniteSet(Batches)
      /\ Cardinality(up.batches) \in Nat /\ Cardinality(Batches) \in Nat
      /\ up.hides \in Nat /\ up.hides + Cardinality(up.batches) <= Cardinality(Batches)
      /\ \A x \in up.batches : x.ok <= x.at /\ x.at < x.n
  BY UploadsAssumption, FS_CardinalityType DEF UpIInv, UpRecord
<1>1. PICK after : after = [b EXCEPT !.at = b.at + 1, !.ok = IF ok THEN b.ok + 1 ELSE b.ok]
  OBVIOUS
<1>2. /\ after \in Batch /\ after.n = b.n /\ after.at <= after.n /\ after.ok <= after.at
      /\ after.from = b.from /\ after.dash = b.dash
  <2>1. /\ b.at \in 0..MaxFiles /\ b.ok \in 0..MaxFiles /\ b.n \in 1..MaxFiles
        /\ b.at < b.n /\ b.ok <= b.at /\ b.from \in Senders /\ b.dash \in BOOLEAN
    BY <1>0 DEF Batch
  <2>2. PICK k : k = IF ok THEN b.ok + 1 ELSE b.ok
    OBVIOUS
  <2>3. /\ b.at + 1 \in 0..MaxFiles /\ k \in 0..MaxFiles
        /\ b.at + 1 <= b.n /\ k <= b.at + 1
    BY <2>1, <2>2 DEF MaxFiles
  <2>4. after = [b EXCEPT !.at = b.at + 1, !.ok = k]
    BY <1>1, <2>2
  <2>5. /\ after \in Batch /\ after.n = b.n /\ after.at = b.at + 1 /\ after.ok = k
        /\ after.from = b.from /\ after.dash = b.dash
    BY <1>0, <2>3, <2>4 DEF Batch
  <2> QED BY <2>3, <2>5
<1>3. PICK p \in Seq(Statuses) : p = IF b.dash THEN Shown(b, ok) ELSE up.progress
  <2>1. CASE b.from = "multitrack"
    <3>1. PICK s \in Statuses : s = IF ok THEN "success" ELSE "error"
      BY DEF Statuses
    <3>2. <<s>> \in Seq(Statuses)
      OBVIOUS
    <3>3. Shown(b, ok) = <<s>>
      BY <2>1, <3>1 DEF Shown
    <3> QED BY <1>0, <3>2, <3>3 DEF UpRecord
  <2>2. CASE b.from # "multitrack"
    <3>1. DOMAIN up.progress = 1..Len(up.progress) /\ Len(up.progress) \in Nat
      BY <1>0 DEF UpRecord
    <3>2. \A i \in 1..Len(up.progress) : up.progress[i] \in Statuses
      BY <1>0 DEF UpRecord
    <3>3. Shown(b, ok) \in [1..Len(up.progress) -> Statuses]
      BY <2>2, <3>1, <3>2 DEF Shown, Statuses
    <3>4. Shown(b, ok) \in Seq(Statuses)
      BY <3>1, <3>3
    <3> QED BY <1>0, <3>4 DEF UpRecord
  <2> QED BY <2>1, <2>2
<1>4. PICK rest : rest = up.batches \ {b}
  OBVIOUS
<1>5. /\ rest \in SUBSET Batch /\ IsFiniteSet(rest)
      /\ Cardinality(rest) = Cardinality(up.batches) - 1
  BY <1>0, <1>4, FS_RemoveElement DEF UpRecord
<1>6. PICK shown : shown = [up EXCEPT !.progress = p, !.batches = rest \cup {after}]
  OBVIOUS
<1>7. /\ shown \in UpRecord /\ shown.hides = up.hides /\ shown.batches = rest \cup {after}
  BY <1>0, <1>2, <1>5, <1>6 DEF UpRecord
<1>8. up' = IF after.at = b.n THEN Ended(shown, after) ELSE shown
  BY <1>1, <1>3, <1>4, <1>6 DEF FileAnswered
<1>9. CASE after.at # b.n
  <2>1. /\ IsFiniteSet(shown.batches)
        /\ Cardinality(shown.batches) <= Cardinality(rest) + 1
    <3>1. /\ IsFiniteSet(rest \cup {after})
          /\ Cardinality(rest \cup {after}) =
               IF after \in rest THEN Cardinality(rest) ELSE Cardinality(rest) + 1
      BY <1>5, FS_AddElement
    <3>2. Cardinality(rest) \in Nat
      BY <1>5, FS_CardinalityType
    <3> QED BY <1>7, <3>1, <3>2
  <2>2. Cardinality(shown.batches) \in Nat
    BY <2>1, FS_CardinalityType
  <2>3. after.at < after.n
    BY <1>2, <1>9 DEF Batch
  <2>4. \A x \in shown.batches : x.ok <= x.at /\ x.at < x.n
    BY <1>0, <1>2, <1>4, <1>7, <2>3
  <2>5. up' = shown
    BY <1>8, <1>9
  <2>6. shown.hides + Cardinality(shown.batches) <= Cardinality(Batches)
    BY <1>0, <1>5, <1>7, <2>1, <2>2
  <2> QED BY <1>7, <2>1, <2>4, <2>5, <2>6 DEF UpIInv
<1>10. CASE after.at = b.n
  <2>1. PICK left : left = rest \ {after}
    OBVIOUS
  <2>2. /\ left \in SUBSET Batch /\ IsFiniteSet(left) /\ Cardinality(left) \in Nat
        /\ Cardinality(left) <= Cardinality(up.batches) - 1
    BY <1>5, <2>1, FS_Subset, FS_CardinalityType
  <2>3. PICK h : h = IF after.dash /\ after.ok = after.n THEN up.hides + 1 ELSE up.hides
    OBVIOUS
  <2>4. h \in 0..Cardinality(Batches) /\ h + Cardinality(left) <= Cardinality(Batches)
    BY <1>0, <2>2, <2>3
  <2>5. shown.batches \ {after} = left
    BY <1>7, <2>1
  <2>6. PICK v : v = [shown EXCEPT !.uploading = FALSE, !.batches = left, !.hides = h]
    OBVIOUS
  <2>7. v \in UpRecord /\ v.hides = h /\ v.batches = left
    BY <1>7, <2>2, <2>4, <2>6 DEF UpRecord
  <2>8. up' = v \/ up' = TracksClosed(v)
    BY <1>7, <1>8, <1>10, <2>3, <2>5, <2>6 DEF Ended
  <2>9. up' \in UpRecord /\ up'.hides = h /\ up'.batches = left
    BY <2>7, <2>8 DEF UpRecord, TracksClosed
  <2> QED BY <1>0, <1>4, <2>1, <2>2, <2>4, <2>9 DEF UpIInv
<1> QED BY <1>9, <1>10

LEMMA UpFreshIInv ==
  /\ UpFresh \in UpRecord /\ UpFresh.batches = {} /\ UpFresh.hides = 0
  /\ IsFiniteSet({}) /\ Cardinality({}) = 0 /\ Cardinality(Batches) \in Nat
<1>1. <<>> \in Seq(Statuses) /\ IsFiniteSet({}) /\ Cardinality({}) = 0 /\ Cardinality(Batches) \in Nat
  BY EmptySeq, FS_EmptySet, UploadsAssumption, FS_CardinalityType
<1> QED BY <1>1 DEF UpFresh, UpRecord

LEMMA UpStepIInv ==
  ASSUME UpIInv, UpAction
  PROVE  UpIInv'
<1>0. /\ up \in UpRecord /\ IsFiniteSet(up.batches) /\ IsFiniteSet(Batches)
      /\ Cardinality(up.batches) \in Nat /\ Cardinality(Batches) \in Nat
      /\ up.hides \in Nat /\ up.hides + Cardinality(up.batches) <= Cardinality(Batches)
      /\ \A b \in up.batches : b.ok <= b.at /\ b.at < b.n
  BY UploadsAssumption, FS_CardinalityType DEF UpIInv, UpRecord
<1>1. ASSUME up' \in UpRecord, up'.batches = up.batches, up'.hides <= up.hides
      PROVE  UpIInv'
  <2>1. up'.hides \in Nat
    BY <1>0, <1>1 DEF UpRecord
  <2> QED BY <1>0, <1>1, <2>1 DEF UpIInv
<1>2. CASE up' = OpenTracks(up) \/ EditTracks \/ CloseTracks
  <2>2. CASE up' = OpenTracks(up)
    <3>1. up' \in UpRecord /\ up'.batches = up.batches /\ up'.hides = up.hides
      BY <1>0, <2>2 DEF OpenTracks, UpRecord
    <3> QED BY <1>0, <1>1, <3>1
  <2>3. CASE EditTracks
    <3>1. PICK filled \in BOOLEAN : up' = [up EXCEPT !.filled = filled]
      BY <2>3 DEF EditTracks
    <3> QED BY <1>0, <1>1, <3>1 DEF UpRecord
  <2>4. CASE CloseTracks
    <3>1. up' \in UpRecord /\ up'.batches = up.batches /\ up'.hides = up.hides
      BY <1>0, <2>4 DEF CloseTracks, TracksClosed, UpRecord
    <3> QED BY <1>0, <1>1, <3>1
  <2> QED BY <1>2, <2>2, <2>3, <2>4
<1>3. CASE HideProgress
  <2>1. <<>> \in Seq(Statuses)
    BY EmptySeq
  <2>2. PICK h : h = up.hides - 1
    OBVIOUS
  <2>3. h \in 0..Cardinality(Batches) /\ h <= up.hides
    BY <1>0, <1>3, <2>2 DEF HideProgress, UpRecord
  <2>4. up' = [up EXCEPT !.hides = h, !.progress = <<>>]
    BY <1>3, <2>2 DEF HideProgress
  <2> QED BY <1>0, <1>1, <2>1, <2>3, <2>4 DEF UpRecord
<1>4. ASSUME NEW from \in Senders, NEW n \in 1..MaxFiles, Send(from, n)
      PROVE  UpIInv'
  <2>1. PICK id \in Batches : id = CHOOSE i \in FreeIds : TRUE
    BY <1>4 DEF Send, CanSend, FreeIds
  <2>2. PICK batch : batch = [id |-> id, from |-> from, n |-> n, at |-> 0, ok |-> 0,
                              dash |-> up.dashboard]
    OBVIOUS
  <2>3. batch \in Batch /\ batch.ok <= batch.at /\ batch.at < batch.n
    BY <1>0, <2>2 DEF Batch, UpRecord, MaxFiles
  <2>4. PICK p \in Seq(Statuses) :
          p = IF up.dashboard THEN [i \in 1..n |-> "uploading"] ELSE up.progress
    <3>1. [i \in 1..n |-> "uploading"] \in [1..n -> Statuses]
      BY DEF Statuses
    <3>2. n \in Nat
      BY DEF MaxFiles
    <3>3. [i \in 1..n |-> "uploading"] \in Seq(Statuses)
      BY <3>1, <3>2
    <3> QED BY <1>0, <3>3 DEF UpRecord
  <2>5. up' = [up EXCEPT !.batches = up.batches \cup {batch}, !.uploading = TRUE, !.progress = p]
    BY <1>0, <1>4, <2>1, <2>2, <2>4 DEF Send, Started, UpRecord
  <2>6. /\ up' \in UpRecord /\ up'.hides = up.hides /\ up'.batches = up.batches \cup {batch}
    BY <1>0, <2>3, <2>5 DEF UpRecord
  <2>7. /\ IsFiniteSet(up'.batches)
        /\ Cardinality(up'.batches) <= Cardinality(up.batches) + 1
    <3>1. /\ IsFiniteSet(up.batches \cup {batch})
          /\ Cardinality(up.batches \cup {batch}) =
               IF batch \in up.batches THEN Cardinality(up.batches) ELSE Cardinality(up.batches) + 1
      BY <1>0, FS_AddElement
    <3> QED BY <1>0, <2>6, <3>1
  <2>8. Cardinality(up'.batches) \in Nat
    BY <2>7, FS_CardinalityType
  <2>9. up.hides + Cardinality(up.batches) < Cardinality(Batches)
    BY <1>4 DEF Send, CanSend
  <2>10. up'.hides + Cardinality(up'.batches) <= Cardinality(Batches)
    BY <1>0, <2>6, <2>7, <2>8, <2>9
  <2> QED BY <1>0, <2>3, <2>6, <2>7, <2>10 DEF UpIInv
\* The batches nobody waits for any more are as many, and as far.
<1>5. ASSUME NEW d \in BOOLEAN,
             up' = [up EXCEPT !.dashboard = d, !.batches = {Unheard(b) : b \in up.batches}]
      PROVE  UpIInv'
  <2>1. PICK all : all = {Unheard(b) : b \in up.batches}
    OBVIOUS
  <2>2. ASSUME NEW b \in up.batches
        PROVE  Unheard(b) \in Batch /\ Unheard(b).ok <= Unheard(b).at /\ Unheard(b).at < Unheard(b).n
    <3>1. b \in Batch /\ b.ok <= b.at /\ b.at < b.n
      BY <1>0 DEF UpRecord
    <3>2. PICK f \in Senders : f = (IF b.from \in {"sys", "mic"} THEN "user" ELSE b.from)
      BY <3>1 DEF Batch, Senders
    <3>3. Unheard(b) = [b EXCEPT !.from = f]
      BY <3>2 DEF Unheard
    <3> QED BY <3>1, <3>3 DEF Batch
  <2>3. all \in SUBSET Batch /\ \A x \in all : x.ok <= x.at /\ x.at < x.n
    BY <2>1, <2>2
  <2>4. [b \in up.batches |-> Unheard(b)] \in Surjection(up.batches, all)
    BY <2>1 DEF Surjection
  <2>5. IsFiniteSet(all) /\ Cardinality(all) <= Cardinality(up.batches)
    BY <1>0, <2>4, FS_Surjection
  <2>6. up' \in UpRecord /\ up'.batches = all /\ up'.hides = up.hides
    <3>1. up' = [up EXCEPT !.dashboard = d, !.batches = all]
      BY <1>5, <2>1
    <3> QED BY <1>0, <2>3, <3>1 DEF UpRecord
  <2>7. Cardinality(all) \in Nat
    BY <2>5, FS_CardinalityType
  <2> QED BY <1>0, <2>3, <2>5, <2>6, <2>7 DEF UpIInv
<1>6. CASE up' = UpFresh
  BY <1>6, UpFreshIInv DEF UpIInv
<1> QED BY <1>2, <1>3, <1>4, <1>5, <1>6, AnsweredUpIInv DEF UpAction

LEMMA TubeStepType ==
  ASSUME TubeTypeOK, AddNext
  PROVE  TubeTypeOK'
<1>1. UNCHANGED tube \/ TubeOpen \/ TubeNext \/ tube' = TubeFresh
  BY DEF AddNext, OpenDialog, AddFiles, TracksDialog, SystemDialog, MicDialog, QuickStep, TubeStep,
     UploadRecording, AnswerUpload, ProgressTimer, Navigate, SessionEnds, HeaderUnmounts
<1>2. CASE UNCHANGED tube \/ TubeOpen
  BY <1>2 DEF TubeTypeOK, TubeOpen
<1>5. CASE tube' = TubeFresh
  BY <1>5 DEF TubeTypeOK, TubeFresh
<1>3. CASE TubeType \/ TubeSubmit \/ TubeClose \/ TubeTimer
  BY <1>3 DEF TubeTypeOK, TubeType, TubeSubmit, TubeClose, TubeTimer, TubeClosed
<1>4. ASSUME NEW ok \in BOOLEAN, TubeAnswered(ok) PROVE TubeTypeOK'
  BY <1>4 DEF TubeTypeOK, TubeAnswered
<1> QED BY <1>1, <1>2, <1>3, <1>4, <1>5 DEF TubeNext

AddTypeIInv == view = "add" => UpIInv /\ TubeTypeOK

LEMMA AddTypeInit == WebInit => AddTypeIInv
<1> SUFFICES ASSUME UpInit, TubeInit PROVE UpIInv /\ TubeTypeOK
  BY DEF WebInit, AddInit, AddTypeIInv
<1>2. UpIInv
  BY UpFreshIInv DEF UpInit, UpIInv
<1>3. TubeTypeOK
  BY DEF TubeInit, TubeFresh, TubeTypeOK
<1> QED BY <1>2, <1>3

LEMMA AddTypeStep ==
  ASSUME AddTypeIInv, [WebNext]_webVars
  PROVE  AddTypeIInv'
<1>1. view' = view /\ (view # "add" \/ AddNext \/ UNCHANGED addVars)
  BY DEF WebNext, AddView, SessionView, ListView, SettingsView, ChatView, webVars
<1>2. UNCHANGED up /\ UpIInv => UpIInv'
  BY DEF UpIInv
<1>3. UNCHANGED tube /\ TubeTypeOK => TubeTypeOK'
  BY DEF TubeTypeOK
<1> QED BY <1>1, <1>2, <1>3, AddStepUp, UpStepIInv, TubeStepType DEF AddTypeIInv, addVars

-----------------------------------------------------------------------------
\* The rows of the list are some of the jobs, and a form is for one of them.
AllRows == UNION {Rows(jobs) : jobs \in SUBSET Jobs}
RowsType ==
  /\ server \in [Jobs -> States] /\ listed \in AllRows
  /\ list \in [at: {"none", "asked", "read"}, rows: AllRows] /\ search \in Filters
FormsType ==
  /\ picked \in [job: Jobs \cup {NoJob}, file: Jobs \cup {NoJob}] /\ dialog \in Dialogs
  /\ start \in [job: Jobs \cup {NoJob}, multi: BOOLEAN, with: {"none", "config", "profile"}]
  /\ asked \in [delete: SUBSET Jobs, kill: SUBSET Jobs]
BulkType == bulk.left \subseteq bulk.all /\ bulk.failed \subseteq bulk.all \ bulk.left

ListTypeIInv == view = "list" => RowsType /\ FormsType /\ BulkType /\ choice \in ChoiceType

\* Without a place nothing is mapped.
LEMMA EmptyMap ==
  ASSUME NEW S
  PROVE  <<>> \in [{} -> S]
<1>1. DOMAIN <<>> = {}
  OBVIOUS
<1>2. <<>> = [x \in {} |-> x]
  OBVIOUS
<1> QED BY <1>1, <1>2

LEMMA RowsFacts ==
  /\ <<>> \in AllRows
  /\ \A rows \in AllRows : DOMAIN rows \subseteq Jobs
  /\ \A rows \in AllRows, j \in Jobs : [rows EXCEPT ![j] = "idle"] \in AllRows
<1>1. <<>> \in Rows({}) /\ {} \in SUBSET Jobs
  BY EmptyMap DEF Rows
<1>2. <<>> \in AllRows
  BY <1>1, Zenon DEF AllRows
<1>3. ASSUME NEW rows \in AllRows
      PROVE  /\ DOMAIN rows \subseteq Jobs
             /\ \A j \in Jobs : [rows EXCEPT ![j] = "idle"] \in AllRows
  <2>1. PICK jobs \in SUBSET Jobs : rows \in Rows(jobs)
    BY <1>3, Zenon DEF AllRows
  <2>2. DOMAIN rows \subseteq Jobs
    BY <2>1 DEF Rows
  <2>3. ASSUME NEW j \in Jobs PROVE [rows EXCEPT ![j] = "idle"] \in AllRows
    <3>1. [rows EXCEPT ![j] = "idle"] \in Rows(jobs)
      BY <2>1 DEF Rows
    <3> QED BY <3>1, Zenon DEF AllRows
  <2> QED BY <2>2, <2>3
<1> QED BY <1>2, <1>3

\* What a read of the list finds are rows.
LEMMA ReadFindsRows ==
  ASSUME RowsType
  PROVE  [j \in {k \in search : server[k] # "gone"} |-> server[j]] \in AllRows
<1>1. PICK jobs : jobs = {k \in search : server[k] # "gone"}
  OBVIOUS
<1>2. jobs \in SUBSET Jobs /\ \A j \in jobs : server[j] \in {"idle", "active"}
  BY <1>1, JobsAssumption DEF RowsType, States
<1>3. [j \in jobs |-> server[j]] \in Rows(jobs)
  BY <1>2 DEF Rows
<1> QED BY <1>1, <1>2, <1>3, Zenon DEF AllRows

LEMMA ListStepRows ==
  ASSUME RowsType, FormsType, ItemsAccounted, ListNext
  PROVE  RowsType'
<1>0. /\ server \in [Jobs -> States] /\ listed \in AllRows /\ search \in Filters
      /\ list \in [at: {"none", "asked", "read"}, rows: AllRows]
      /\ start.job \in Jobs \cup {NoJob} /\ NoJob \notin Jobs
  BY JobsAssumption DEF RowsType, FormsType
<1>1. ASSUME UNCHANGED <<listed, list, search>>, server' \in [Jobs -> States] PROVE RowsType'
  BY <1>0, <1>1 DEF RowsType
<1>2. CASE FormStep \/ ClearSelection \/ OpenForSelection \/ CloseDialog \/ StartOne \/ StartBulk
           \/ DeleteBulk \/ \E op \in {"delete", "kill"} : Confirm(op)
  BY <1>0, <1>1, <1>2 DEF FormStep, Rest, ClearSelection, OpenForSelection, CloseDialog, StartOne,
     StartBulk, DeleteBulk, Confirm, pageVars
<1>3. [NoList EXCEPT !.at = "asked"] \in [at: {"none", "asked", "read"}, rows: AllRows]
      /\ NoList \in [at: {"none", "asked", "read"}, rows: AllRows]
  BY RowsFacts DEF NoList
<1>4. CASE ListRead
  <2>1. PICK rows \in AllRows : rows = [j \in {k \in search : server[k] # "gone"} |-> server[j]]
    BY ReadFindsRows
  <2>2. list' = [at |-> "read", rows |-> rows]
    BY <1>4, <2>1 DEF ListRead
  <2> QED BY <1>0, <1>4, <2>2 DEF ListRead, RowsType, pageVars
<1>5. CASE ListArrives
  BY <1>0, <1>3, <1>5 DEF ListArrives, RowsType, pageVars
<1>6. CASE ApplySearch
  BY <1>0, <1>3, <1>6, RowsFacts DEF ApplySearch, Refetch, RowsType
<1>7. CASE BulkEnds
  BY <1>0, <1>3, <1>7 DEF BulkEnds, Refetch, RowsType
<1>8. ASSUME NEW j \in Jobs, ToggleSelection(j) \/ OpenForRow(j) PROVE RowsType'
  BY <1>0, <1>1, <1>8 DEF ToggleSelection, OpenForRow
<1>9. ASSUME NEW j \in Jobs, NEW to \in States PROVE [server EXCEPT ![j] = to] \in [Jobs -> States]
  BY <1>0
<1>10. ASSUME NEW j \in Jobs, NEW ok \in BOOLEAN, JobEnds(j, ok) PROVE RowsType'
  <2>1. server' \in [Jobs -> States]
    BY <1>0, <1>9, <1>10 DEF JobEnds, Serves, States
  <2>2. listed' \in AllRows
    BY <1>0, <1>10, RowsFacts DEF JobEnds
  <2> QED BY <1>0, <1>10, <2>1, <2>2 DEF JobEnds, RowsType, pageVars
<1>11. ASSUME NEW j \in Jobs, NEW ok \in BOOLEAN, BulkItem(j, ok) PROVE RowsType'
  <2>1. PICK to \in States : to = IF bulk.kind = "delete" THEN "gone" ELSE "active"
    BY DEF States
  <2>2. server' = IF ok THEN [server EXCEPT ![j] = to] ELSE server
    BY <1>11, <2>1 DEF BulkItem
  <2> QED BY <1>0, <1>1, <1>9, <1>11, <2>2 DEF BulkItem
<1>12. ASSUME NEW j \in Jobs, NEW ok \in BOOLEAN, NEW op \in {"delete", "kill"}, AskAnswered(op, j, ok)
       PROVE RowsType'
  <2>1. PICK to \in States : to = IF op = "delete" THEN "gone" ELSE "idle"
    BY DEF States
  <2>2. server' = IF ok THEN [server EXCEPT ![j] = to] ELSE server
    BY <1>12, <2>1 DEF AskAnswered
  <2>3. server' \in [Jobs -> States]
    BY <1>0, <1>9, <2>2
  <2> QED BY <1>0, <1>3, <1>12, <2>3 DEF AskAnswered, Refetch, RowsType
<1>13. ASSUME NEW ok \in BOOLEAN, StartAnswered(ok) PROVE RowsType'
  <2>1. CASE ~ok
    BY <1>0, <1>1, <1>13, <2>1 DEF StartAnswered
  <2>2. CASE ok
    <3>1. server' = server \/ server' = [server EXCEPT ![start.job] = "active"]
      BY <1>13, <2>2 DEF StartAnswered, Serves
    <3>2. start.job \in Jobs => server' \in [Jobs -> States]
      BY <1>0, <1>9, <3>1 DEF States
    <3>3. start.job \notin Jobs => server' \in [Jobs -> States]
      BY <1>0, <3>1
    <3> QED BY <1>0, <1>3, <1>13, <2>2, <3>2, <3>3 DEF StartAnswered, Refetch, RowsType
  <2> QED BY <2>1, <2>2
<1> QED BY <1>2, <1>4, <1>5, <1>6, <1>7, <1>8, <1>10, <1>11, <1>12, <1>13 DEF ListNext, ListStep

LEMMA ListStepForms ==
  ASSUME RowsType, FormsType, ItemsAccounted, Fits(config), ListNext
  PROVE  FormsType'
<1>0. /\ picked \in [job: Jobs \cup {NoJob}, file: Jobs \cup {NoJob}] /\ dialog \in Dialogs
      /\ start \in [job: Jobs \cup {NoJob}, multi: BOOLEAN, with: {"none", "config", "profile"}]
      /\ asked \in [delete: SUBSET Jobs, kill: SUBSET Jobs]
      /\ "none" \in Dialogs /\ NothingPicked \in [job: Jobs \cup {NoJob}, file: Jobs \cup {NoJob}]
      /\ DOMAIN listed \subseteq Jobs
  BY RowsFacts DEF FormsType, RowsType, Dialogs, NothingPicked
<1>1. ASSUME UNCHANGED <<start, asked>>, dialog' \in Dialogs,
             picked' \in [job: Jobs \cup {NoJob}, file: Jobs \cup {NoJob}]
      PROVE  FormsType'
  BY <1>0, <1>1 DEF FormsType
<1>2. CASE FormStep \/ ListRead \/ ListArrives \/ ApplySearch \/ ClearSelection \/ CloseDialog \/ StartBulk
  BY <1>0, <1>1, <1>2 DEF FormStep, Rest, ListRead, ListArrives, ApplySearch, ClearSelection,
     CloseDialog, StartBulk, pageVars
<1>3. CASE OpenForSelection
  BY <1>0, <1>1, <1>3 DEF OpenForSelection, Dialogs
<1>4. CASE DeleteBulk
  BY <1>0, <1>1, <1>4 DEF DeleteBulk
<1>5. CASE BulkEnds
  BY <1>0, <1>1, <1>5 DEF BulkEnds, DialogClosed
<1>6. CASE StartOne
  <2>1. ParamsMulti \in BOOLEAN
    <3>1. config.params.multi \in BOOLEAN
      BY DEF Fits, ConfigType, Params
    <3>2. ProfileMulti \in BOOLEAN
      BY DEF ProfileMulti
    <3> QED BY <3>1, <3>2, Zenon DEF ParamsMulti
  <2>2. dialog \in {"config", "profile"}
    BY <1>6 DEF StartOne, CanStart
  <2>3. start' \in [job: Jobs \cup {NoJob}, multi: BOOLEAN, with: {"none", "config", "profile"}]
    BY <1>0, <1>6, <2>1, <2>2 DEF StartOne
  <2> QED BY <1>0, <1>6, <2>3 DEF StartOne, FormsType
<1>7. ASSUME NEW op \in {"delete", "kill"}, Confirm(op) PROVE FormsType'
  <2>1. PICK f \in Jobs : f = picked.file
    BY <1>0, <1>7 DEF Confirm
  <2>2. asked' = [asked EXCEPT ![op] = asked[op] \cup {f}]
    BY <1>7, <2>1 DEF Confirm
  <2>3. asked' \in [delete: SUBSET Jobs, kill: SUBSET Jobs]
    <3>1. CASE op = "delete"
      BY <1>0, <2>2, <3>1
    <3>2. CASE op = "kill"
      BY <1>0, <2>2, <3>2
    <3> QED BY <3>1, <3>2
  <2> QED BY <1>0, <1>7, <2>3 DEF Confirm, FormsType
<1>8. ASSUME NEW j \in Jobs, NEW op \in {"delete", "kill"}, NEW ok \in BOOLEAN, AskAnswered(op, j, ok)
      PROVE FormsType'
  <2>1. asked' = [asked EXCEPT ![op] = asked[op] \ {j}]
    BY <1>8 DEF AskAnswered
  <2>2. asked' \in [delete: SUBSET Jobs, kill: SUBSET Jobs]
    <3>1. CASE op = "delete"
      BY <1>0, <2>1, <3>1
    <3>2. CASE op = "kill"
      BY <1>0, <2>1, <3>2
    <3> QED BY <3>1, <3>2
  <2>3. dialog' \in Dialogs /\ picked' \in [job: Jobs \cup {NoJob}, file: Jobs \cup {NoJob}]
    BY <1>0, <1>8 DEF AskAnswered, DialogClosed
  <2> QED BY <1>0, <1>8, <2>2, <2>3 DEF AskAnswered, FormsType
<1>9. ASSUME NEW j \in Jobs, NEW ok \in BOOLEAN, JobEnds(j, ok) \/ BulkItem(j, ok) \/ ToggleSelection(j)
      PROVE FormsType'
  BY <1>0, <1>1, <1>9 DEF JobEnds, BulkItem, ToggleSelection, pageVars
<1>10. ASSUME NEW j \in Jobs, OpenForRow(j) PROVE FormsType'
  <2>1. dialog' \in Dialogs
    BY <1>10 DEF OpenForRow, RowButtons, Dialogs
  <2>2. picked' \in [job: Jobs \cup {NoJob}, file: Jobs \cup {NoJob}]
    BY <1>0, <1>10 DEF OpenForRow
  <2> QED BY <1>1, <1>10, <2>1, <2>2 DEF OpenForRow
<1>11. ASSUME NEW ok \in BOOLEAN, StartAnswered(ok) PROVE FormsType'
  <2>1. dialog' \in Dialogs /\ picked' \in [job: Jobs \cup {NoJob}, file: Jobs \cup {NoJob}]
    BY <1>0, <1>11 DEF StartAnswered, DialogClosed
  <2>2. start' = NoStart /\ asked' = asked
    BY <1>11 DEF StartAnswered
  <2> QED BY <1>0, <2>1, <2>2 DEF FormsType, NoStart
<1> QED BY <1>2, <1>3, <1>4, <1>5, <1>6, <1>7, <1>8, <1>9, <1>10, <1>11 DEF ListNext, ListStep

LEMMA ListStepBulkType ==
  ASSUME ItemsAccounted, BulkType, ListNext
  PROVE  BulkType'
<1>1. UNCHANGED bulk => BulkType'
  BY DEF BulkType
<1>2. CASE StartBulk \/ DeleteBulk \/ BulkEnds
  <2>1. CASE StartBulk
    <3>1. bulk'.all = sel /\ bulk'.left = sel /\ bulk'.failed = {}
      BY <2>1 DEF StartBulk
    <3> QED BY <3>1 DEF BulkType
  <2>2. CASE DeleteBulk
    <3>1. bulk'.all = sel /\ bulk'.left = sel /\ bulk'.failed = {}
      BY <2>2 DEF DeleteBulk, NoBulk
    <3> QED BY <3>1 DEF BulkType
  <2>3. CASE BulkEnds
    <3>1. bulk'.all = {} /\ bulk'.left = {} /\ bulk'.failed = {}
      BY <2>3 DEF BulkEnds, NoBulk
    <3> QED BY <3>1 DEF BulkType
  <2> QED BY <1>2, <2>1, <2>2, <2>3
<1>3. ASSUME NEW j \in Jobs, NEW ok \in BOOLEAN, BulkItem(j, ok) PROVE BulkType'
  BY <1>3 DEF BulkItem, BulkType, ItemsAccounted
<1>4. CASE FormStep \/ ListRead \/ ListArrives \/ ApplySearch \/ ClearSelection \/ OpenForSelection
           \/ CloseDialog \/ StartOne \/ \E op \in {"delete", "kill"} : Confirm(op)
  BY <1>1, <1>4 DEF FormStep, Rest, pageVars, ListRead, ListArrives, ApplySearch, ClearSelection,
     OpenForSelection, CloseDialog, StartOne, Confirm
<1>5. ASSUME NEW j \in Jobs, NEW ok \in BOOLEAN,
             ToggleSelection(j) \/ OpenForRow(j) \/ JobEnds(j, ok) \/ StartAnswered(ok)
             \/ \E op \in {"delete", "kill"} : AskAnswered(op, j, ok)
      PROVE BulkType'
  BY <1>1, <1>5 DEF ToggleSelection, OpenForRow, JobEnds, StartAnswered, AskAnswered, pageVars
<1>6. ASSUME NEW ok \in BOOLEAN, StartAnswered(ok) PROVE BulkType'
  BY <1>1, <1>6 DEF StartAnswered
<1> QED BY <1>2, <1>3, <1>4, <1>5, <1>6 DEF ListNext, ListStep

\* The profiles are asked for where there is room for one more load.
LEMMA ChoiceLoads ==
  ASSUME choice \in ChoiceType, ProfilesLoaded \/ ChooseProfile
  PROVE  choice' \in ChoiceType
<1>1. CASE ProfilesLoaded
  <2>1. PICK known \in BOOLEAN, selected \in Profiles \cup {choice.selected} :
          choice' = [known |-> known \/ choice.known, selected |-> selected,
                     loading |-> FALSE, loads |-> choice.loads - 1]
    BY <1>1 DEF ProfilesLoaded
  <2>2. PICK k \in BOOLEAN : k = (known \/ choice.known)
    OBVIOUS
  <2>3. choice.loads - 1 \in 0..MaxLoads
    BY <1>1, ProfileAssumption DEF ProfilesLoaded, ChoiceType
  <2>4. selected \in Profiles \cup {NoProfile}
    BY DEF ChoiceType
  <2>5. choice' = [known |-> k, selected |-> selected, loading |-> FALSE, loads |-> choice.loads - 1]
    BY <2>1, <2>2
  <2> QED BY <2>3, <2>4, <2>5 DEF ChoiceType
<1>2. CASE ChooseProfile
  BY <1>2 DEF ChooseProfile, ChoiceType
<1> QED BY <1>1, <1>2

LEMMA OpensWhenItCanLoad ==
  ASSUME ListStep, dialog' = "profile", dialog # "profile"
  PROVE  CanLoad
<1>1. CASE \/ ListRead \/ ListArrives \/ ApplySearch \/ ClearSelection \/ CloseDialog \/ StartOne
           \/ StartBulk \/ DeleteBulk \/ BulkEnds
  BY <1>1 DEF ListRead, ListArrives, ApplySearch, ClearSelection, CloseDialog, StartOne, StartBulk,
     DeleteBulk, BulkEnds, DialogClosed, pageVars
<1>2. CASE OpenForSelection
  BY <1>2 DEF OpenForSelection
<1>3. ASSUME NEW j \in Jobs, ToggleSelection(j) \/ OpenForRow(j) PROVE CanLoad
  BY <1>3 DEF ToggleSelection, OpenForRow, RowButtons
<1>4. ASSUME NEW j \in Jobs, NEW ok \in BOOLEAN, JobEnds(j, ok) \/ BulkItem(j, ok) PROVE CanLoad
  BY <1>4 DEF JobEnds, BulkItem, pageVars
<1>5. ASSUME NEW j \in Jobs, NEW ok \in BOOLEAN, NEW op \in {"delete", "kill"}, AskAnswered(op, j, ok)
      PROVE CanLoad
  BY <1>5 DEF AskAnswered, DialogClosed
<1>6. ASSUME NEW ok \in BOOLEAN, StartAnswered(ok) PROVE CanLoad
  BY <1>6 DEF StartAnswered, DialogClosed
<1>7. ASSUME NEW op \in {"delete", "kill"}, Confirm(op) PROVE CanLoad
  BY <1>7 DEF Confirm
<1> QED BY <1>1, <1>2, <1>3, <1>4, <1>5, <1>6, <1>7 DEF ListStep

LEMMA ListStepChoice ==
  ASSUME choice \in ChoiceType, ListNext
  PROVE  choice' \in ChoiceType
<1>1. CASE ListStep /\ DialogEffects
  <2>1. CASE dialog' = "profile" /\ dialog # "profile"
    <3>1. choice' = [choice EXCEPT !.loading = TRUE, !.loads = choice.loads + 1]
      BY <1>1, <2>1 DEF DialogEffects, ChoiceOpened
    <3>2. CanLoad
      BY <1>1, <2>1, OpensWhenItCanLoad
    <3>3. choice.loads + 1 \in 0..MaxLoads
      BY <3>2, ProfileAssumption DEF CanLoad, ChoiceType
    <3> QED BY <3>1, <3>3 DEF ChoiceType
  <2>2. CASE ~(dialog' = "profile" /\ dialog # "profile")
    BY <1>1, <2>2 DEF DialogEffects
  <2> QED BY <2>1, <2>2
<1>2. CASE FormStep
  BY <1>2, ChoiceLoads DEF FormStep
<1> QED BY <1>1, <1>2 DEF ListNext

LEMMA ListTypeInit == WebInit => ListTypeIInv
<1> SUFFICES ASSUME ListInit PROVE RowsType /\ FormsType /\ BulkType /\ choice \in ChoiceType
  BY DEF WebInit, ListTypeIInv
<1>1. RowsType
  BY RowsFacts, JobsAssumption DEF ListInit, RowsType, States, NoList
<1>2. FormsType /\ BulkType
  BY DEF ListInit, FormsType, BulkType, NothingPicked, NoStart, NoBulk, Dialogs
<1>3. choice \in ChoiceType
  BY ProfileAssumption DEF ListInit, ChoiceInit, ChoiceFresh, ChoiceType
<1> QED BY <1>1, <1>2, <1>3

LEMMA ListTypeStep ==
  ASSUME ListIInv, ListTypeIInv, [WebNext]_webVars
  PROVE  ListTypeIInv'
<1>1. view' = view /\ (view # "list" \/ ListNext \/ UNCHANGED listVars)
  BY DEF WebNext, AddView, SessionView, ListView, SettingsView, ChatView, webVars
<1>2. CASE view = "list" /\ ListNext
  BY <1>1, <1>2, ListStepRows, ListStepForms, ListStepBulkType, ListStepChoice
     DEF ListIInv, ListTypeIInv
<1>3. CASE view = "list" /\ UNCHANGED listVars
  BY <1>1, <1>3 DEF listVars, ListTypeIInv, RowsType, FormsType, BulkType
<1> QED BY <1>1, <1>2, <1>3 DEF ListTypeIInv

LEMMA ListTypeHolds == ListIInv /\ ListTypeIInv => (view = "list" => ListType)
<1> SUFFICES ASSUME ListIInv, ListTypeIInv, view = "list" PROVE ListType
  OBVIOUS
<1>1. config \in ConfigType /\ ItemsAccounted /\ sel \subseteq Jobs
  BY DEF ListIInv, Fits
<1>2. DOMAIN list.rows \subseteq Jobs /\ list.at \in {"none", "asked", "read"}
  BY RowsFacts DEF ListTypeIInv, RowsType
<1>3. RowsType /\ FormsType /\ BulkType /\ choice \in ChoiceType
  BY DEF ListTypeIInv
<1> QED BY <1>1, <1>2, <1>3 DEF ListType, RowsType, FormsType, BulkType, ItemsAccounted, AllRows

-----------------------------------------------------------------------------
\* What the chat speaks of are sessions that were made; a title can be stored
\* for one that is gone.
Conversation == [title: Titles, log: Seq(ChatRoles)]
TitleMaps == UNION {[cs -> Titles] : cs \in SUBSET ChatIds}
ThreadRecord ==
  [mounted: BOOLEAN, list: SUBSET ChatIds, following: ChatIds \cup {NoChat}, log: Seq(ChatRoles),
   busy: BOOLEAN, models: ChatIds \cup {NoChat},
   lists: [ChatIds -> 0..MaxAsked], histories: [ChatIds -> 0..MaxAsked]]
Question ==
  [no: 1..MaxQuestions, to: ChatIds, second: BOOLEAN, here: BOOLEAN, read: Titles,
   step: {"asked", "stored", "streaming", "kept"}]
TitleRequest ==
  [no: 1..MaxQuestions, to: ChatIds, plain: BOOLEAN,
   step: {"timer", "asked", "writing", "written", "failed"}]
SideRecord ==
  [mounted: BOOLEAN, asked: BOOLEAN, rows: TitleMaps, adding: BOOLEAN,
   editing: ChatIds \cup {NoChat}, deleting: ChatIds \cup {NoChat}, generating: SUBSET ChatIds]
Edit ==
  [no: 1..MaxEdits, kind: {"create", "rename", "delete"}, id: ChatIds \cup {NoChat},
   rows: TitleMaps, here: BOOLEAN]

ServerIInv ==
  /\ made \subseteq ChatIds /\ DOMAIN chats \subseteq made
  /\ \A c \in DOMAIN chats : chats[c] \in Conversation
ConversationIInv ==
  /\ thread \in ThreadRecord /\ thread.mounted = (opened /\ chosen # NoChat)
  /\ opened \in BOOLEAN /\ chosen \in made \cup {NoChat}
RequestsIInv ==
  /\ questions \subseteq Question /\ titles \subseteq TitleRequest /\ sent \in 0..MaxQuestions
  /\ \A q \in questions : q.to \in made
  /\ \A t \in titles : t.to \in made
  /\ thread.busy => \E q \in questions : q.here
SidebarIInv ==
  /\ side \in SideRecord /\ side.mounted = opened /\ DOMAIN side.rows \subseteq made
  /\ edits \subseteq Edit /\ edited \in 0..MaxEdits
  /\ \A e \in edits : DOMAIN e.rows \subseteq made

ChatTypeIInv ==
  view = "chat" => ServerIInv /\ ConversationIInv /\ RequestsIInv /\ SidebarIInv

-----------------------------------------------------------------------------
\* The service: ids are only added, and a session stays one.
LEMMA ServerStep ==
  ASSUME ServerIInv, RequestsIInv, ChatNext
  PROVE  ServerIInv' /\ made \subseteq made'
<1>0. /\ made \subseteq ChatIds /\ DOMAIN chats \subseteq made
      /\ \A c \in DOMAIN chats : chats[c] \in Conversation
  BY DEF ServerIInv
<1>1. ASSUME chats' = chats, made' = made PROVE ServerIInv' /\ made \subseteq made'
  BY <1>1 DEF ServerIInv
<1>2. ASSUME NEW c \in DOMAIN chats, NEW title \in Titles, NEW log \in Seq(ChatRoles),
             chats' = [chats EXCEPT ![c] = [title |-> title, log |-> log]], made' = made
      PROVE  ServerIInv' /\ made \subseteq made'
  <2>1. DOMAIN chats' = DOMAIN chats
    BY <1>2
  <2>2. \A d \in DOMAIN chats' : chats'[d] \in Conversation
    BY <1>0, <1>2 DEF Conversation
  <2> QED BY <1>0, <1>2, <2>1, <2>2 DEF ServerIInv
<1>3. CASE OpenPanel \/ ClosePanel \/ SelectSession \/ BackToList \/ SideStep
  <2>1. CASE SideStep
    BY <1>1, <2>1 DEF SideStep, RowsArrive, SideOpens, SideCancels, CreateClick, RenameClick,
       DeleteClick, Begin
  <2> QED BY <1>1, <1>3, <2>1 DEF OpenPanel, ClosePanel, SelectSession, BackToList, serverVars
<1>4. CASE ThreadStep
  <2>1. CASE Ask \/ ModelsAnswered(chosen) \/ ModelsRefused(chosen)
    BY <1>1, <2>1 DEF Ask, ModelsAnswered, ModelsRefused
  <2>2. ASSUME NEW c \in ChatIds, ListAnswered(c, chosen) \/ ListRefused(c, chosen) \/ HistoryAnswered(c)
        PROVE ServerIInv' /\ made \subseteq made'
    BY <1>1, <2>2, Zenon DEF ListAnswered, ListRefused, HistoryAnswered
  <2> QED BY <1>4, <2>1, <2>2 DEF ThreadStep
<1>5. ASSUME NEW q \in questions, QuestionStored(q) PROVE ServerIInv' /\ made \subseteq made'
  <2>1. q.to \in DOMAIN chats
    BY <1>5 DEF QuestionStored
  <2>2. PICK log : log = Append(chats[q.to].log, "user")
    OBVIOUS
  <2>3. log \in Seq(ChatRoles)
    BY <1>0, <2>1, <2>2 DEF Conversation, ChatRoles
  <2>4. PICK title \in Titles :
          title = IF CountOf(log, "user") = 1 THEN "plain" ELSE chats[q.to].title
    BY <1>0, <2>1 DEF Conversation, Titles
  <2>5. chats' = [chats EXCEPT ![q.to] = [title |-> title, log |-> log]] /\ made' = made
    BY <1>5, <2>2, <2>4, Zenon DEF QuestionStored, QuestionKept
  <2> QED BY <1>2, <2>1, <2>3, <2>5
<1>6. ASSUME NEW q \in questions, AnswerStored(q) PROVE ServerIInv' /\ made \subseteq made'
  <2>1. q.to \in DOMAIN chats /\ q.read \in Titles
    BY <1>6 DEF AnswerStored, RequestsIInv, Question
  <2>2. PICK log : log = Append(chats[q.to].log, "assistant")
    OBVIOUS
  <2>3. log \in Seq(ChatRoles)
    BY <1>0, <2>1, <2>2 DEF Conversation, ChatRoles
  <2>4. chats' = [chats EXCEPT ![q.to] = [title |-> q.read, log |-> log]] /\ made' = made
    BY <1>6, <2>2, Zenon DEF AnswerStored, AnswerKept
  <2> QED BY <1>2, <2>1, <2>3, <2>4
<1>7. CASE QuestionStep
  BY <1>1, <1>5, <1>6, <1>7 DEF QuestionStep, AnswerBegins, AnswerUnstored, AnswerEnds, AskFails
<1>8. ASSUME NEW t \in titles, TitleWritten(t) PROVE ServerIInv' /\ made \subseteq made'
  <2>1. t.to \in made
    BY DEF RequestsIInv
  <2>2. PICK log \in Seq(ChatRoles) : log = IF t.to \in DOMAIN chats THEN chats[t.to].log ELSE <<>>
    BY <1>0, EmptySeq DEF Conversation
  <2>3. /\ chats' = [x \in DOMAIN chats \cup {t.to} |->
                      IF x # t.to THEN chats[x] ELSE [title |-> "auto", log |-> log]]
        /\ made' = made
    BY <1>8, <2>2 DEF TitleWritten, TitleKept
  <2>4. DOMAIN chats' = DOMAIN chats \cup {t.to}
    BY <2>3
  <2>5. \A d \in DOMAIN chats' : chats'[d] \in Conversation
    BY <1>0, <2>3 DEF Conversation, Titles
  <2> QED BY <1>0, <2>1, <2>3, <2>4, <2>5 DEF ServerIInv
<1>9. CASE TitleServed \/ TitleStep
  BY <1>1, <1>8, <1>9 DEF TitleServed, TitleRead, TitleRefused, TitleStep, TitleBegins, TitleArrives,
     TitleFailed, serverVars
<1>10. ASSUME NEW e \in edits, Renamed(e) PROVE ServerIInv' /\ made \subseteq made'
  <2>1. e.id \in DOMAIN chats /\ chats[e.id] \in Conversation
    BY <1>0, <1>10 DEF Renamed
  <2>2. chats' = [chats EXCEPT ![e.id] = [title |-> "own", log |-> chats[e.id].log]] /\ made' = made
    <3>1. [chats[e.id] EXCEPT !.title = "own"] = [title |-> "own", log |-> chats[e.id].log]
      BY <2>1 DEF Conversation
    <3>2. chats' = [chats EXCEPT ![e.id] = [chats[e.id] EXCEPT !.title = "own"]] /\ made' = made
      BY <1>10 DEF Renamed
    <3> QED BY <3>1, <3>2
  <2> QED BY <1>2, <2>1, <2>2 DEF Conversation, Titles
<1>11. ASSUME NEW e \in edits, Deleted(e) PROVE ServerIInv' /\ made \subseteq made'
  <2>1. chats' = [x \in DOMAIN chats \ {e.id} |-> chats[x]] /\ made' = made
    BY <1>11 DEF Deleted
  <2>2. DOMAIN chats' = DOMAIN chats \ {e.id} /\ \A d \in DOMAIN chats' : chats'[d] = chats[d]
    BY <2>1
  <2> QED BY <1>0, <2>1, <2>2 DEF ServerIInv
<1>12. CASE EditStep
  BY <1>1, <1>10, <1>11, <1>12 DEF EditStep, EditFails
<1>13. ASSUME NEW e \in edits, NEW c \in ChatIds, Created(e, c) PROVE ServerIInv' /\ made \subseteq made'
  <2>1. PICK title \in {"plain", "own"} :
          /\ made' = made \cup {c}
          /\ chats' = [x \in DOMAIN chats \cup {c} |->
                         IF x = c THEN [title |-> title, log |-> <<>>] ELSE chats[x]]
    BY <1>13, Zenon DEF Created
  <2>2. DOMAIN chats' = DOMAIN chats \cup {c} /\ <<>> \in Seq(ChatRoles)
    BY <2>1, EmptySeq
  <2>3. \A d \in DOMAIN chats' : chats'[d] \in Conversation
    BY <1>0, <2>1, <2>2 DEF Conversation, Titles
  <2> QED BY <1>0, <2>1, <2>2, <2>3 DEF ServerIInv
<1> QED BY <1>3, <1>4, <1>7, <1>9, <1>12, <1>13 DEF ChatNext, CreateStep

\* The loads stay in their bound, and the conversation a conversation.
LEMMA FollowingType ==
  ASSUME NEW t \in ThreadRecord, NEW c \in ChatIds
  PROVE  /\ Reloading(t, c) \in ThreadRecord /\ Following(t, c) \in ThreadRecord
         /\ Reloading(t, c).mounted = t.mounted /\ Following(t, c).mounted = t.mounted
         /\ Reloading(t, c).busy = t.busy /\ Following(t, c).busy = t.busy
<1>0. <<>> \in Seq(ChatRoles)
  BY EmptySeq
<1>1. \A n \in {1, 2} : /\ More(t.histories[c], n) \in 0..MaxAsked
                        /\ More(t.lists[c], n) \in 0..MaxAsked
  <2>1. t.histories[c] \in 0..MaxAsked /\ t.lists[c] \in 0..MaxAsked
    BY DEF ThreadRecord
  <2> QED BY <2>1, ThreadAssumption DEF More
<1>2. ASSUME NEW u \in ThreadRecord, u.histories = t.histories
      PROVE  /\ Reloading(u, c) \in ThreadRecord /\ Reloading(u, c).mounted = u.mounted
             /\ Reloading(u, c).busy = u.busy
  <2>1. PICK h : h = [u.histories EXCEPT ![c] = More(u.histories[c], 1)]
    OBVIOUS
  <2>2. h \in [ChatIds -> 0..MaxAsked]
    BY <1>1, <1>2, <2>1 DEF ThreadRecord
  <2>3. Reloading(u, c) = [u EXCEPT !.log = <<>>, !.histories = h]
    BY <2>1 DEF Reloading, ThreadRecord
  <2> QED BY <1>0, <2>2, <2>3 DEF ThreadRecord
<1>3. CASE t.following # c /\ c \in t.list
  <2>1. PICK u : u = [t EXCEPT !.following = c]
    OBVIOUS
  <2>2. u \in ThreadRecord /\ u.histories = t.histories /\ u.mounted = t.mounted /\ u.busy = t.busy
    BY <2>1 DEF ThreadRecord
  <2>3. Following(t, c) = Reloading(u, c)
    BY <1>3, <2>1 DEF Following
  <2> QED BY <1>2, <2>2, <2>3
<1>4. CASE t.following # c /\ c \notin t.list
  <2> DEFINE times == IF t.following = NoChat THEN 1 ELSE 2
  <2>1. PICK h : h = [t.histories EXCEPT ![c] = More(t.histories[c], times)]
    OBVIOUS
  <2>2. PICK l : l = [t.lists EXCEPT ![c] = More(t.lists[c], times)]
    OBVIOUS
  <2>3. h \in [ChatIds -> 0..MaxAsked] /\ l \in [ChatIds -> 0..MaxAsked]
    BY <1>1, <2>1, <2>2 DEF ThreadRecord
  <2>4. Following(t, c) = [t EXCEPT !.following = NoChat, !.log = <<>>, !.histories = h, !.lists = l]
    BY <1>4, <2>1, <2>2 DEF Following, ThreadRecord
  <2> QED BY <1>0, <1>2, <2>3, <2>4 DEF ThreadRecord
<1>5. CASE t.following = c
  BY <1>2, <1>5 DEF Following
<1> QED BY <1>3, <1>4, <1>5

LEMMA NoThreadType ==
  NoThread \in ThreadRecord /\ NoThread.mounted = FALSE /\ NoThread.busy = FALSE
BY EmptySeq, ThreadAssumption DEF NoThread, ThreadRecord

LEMMA ThreadForType ==
  ASSUME thread \in ThreadRecord, NEW c \in ChatIds \cup {NoChat}
  PROVE  /\ ThreadFor(c) \in ThreadRecord /\ ThreadFor(c).mounted = (c # NoChat)
         /\ ThreadFor(c).busy => thread.mounted /\ thread.busy
<1>1. CASE c = NoChat
  BY <1>1, NoThreadType DEF ThreadFor
<1>2. CASE c # NoChat /\ thread.mounted
  <2>1. c \in ChatIds /\ ThreadFor(c) = Following(thread, c)
    BY <1>2 DEF ThreadFor
  <2> QED BY <1>2, <2>1, FollowingType
<1>3. CASE c # NoChat /\ ~thread.mounted
  <2>1. PICK t : t = [NoThread EXCEPT !.mounted = TRUE, !.models = c]
    OBVIOUS
  <2>2. t \in ThreadRecord /\ t.mounted /\ ~t.busy
    BY <2>1, NoThreadType DEF ThreadRecord
  <2>3. c \in ChatIds /\ ThreadFor(c) = Following(t, c)
    BY <1>3, <2>1 DEF ThreadFor, Mounted
  <2>4. Following(t, c) \in ThreadRecord /\ Following(t, c).mounted = t.mounted
        /\ Following(t, c).busy = t.busy
    BY <2>2, <2>3, FollowingType
  <2> QED BY <1>3, <2>2, <2>3, <2>4
<1> QED BY <1>1, <1>2, <1>3

LEMMA ConversationStep ==
  ASSUME ServerIInv, ConversationIInv, RequestsIInv, SidebarIInv, ChatNext
  PROVE  ConversationIInv' /\ (thread'.busy => thread.busy \/ Ask)
<1>0. /\ thread \in ThreadRecord /\ thread.mounted = (opened /\ chosen # NoChat)
      /\ opened \in BOOLEAN /\ chosen \in made \cup {NoChat} /\ made \subseteq ChatIds
      /\ made \subseteq made'
      /\ \A c \in DOMAIN chats : c \in ChatIds /\ chats[c] \in Conversation
  BY ServerStep DEF ConversationIInv, ServerIInv
<1>1. ASSUME thread' \in ThreadRecord, opened' \in BOOLEAN, chosen' \in made' \cup {NoChat},
             thread'.mounted = (opened' /\ chosen' # NoChat)
      PROVE  ConversationIInv'
  BY <1>1, Zenon DEF ConversationIInv, ThreadRecord
<1>2. ASSUME thread' \in ThreadRecord, opened' = opened, chosen' = chosen,
             thread'.mounted = thread.mounted
      PROVE  ConversationIInv'
  BY <1>0, <1>1, <1>2
<1>3. CASE OpenPanel \/ ClosePanel \/ SelectSession \/ BackToList \/ CreateStep
  <2>1. chosen' \in made' \cup {NoChat} /\ opened' \in BOOLEAN
    <3>1. CASE OpenPanel \/ ClosePanel \/ BackToList
      BY <1>0, <3>1 DEF OpenPanel, ClosePanel, BackToList
    <3>2. CASE SelectSession
      BY <1>0, <3>2 DEF SelectSession, SidebarIInv
    <3>3. CASE CreateStep
      BY <1>0, <3>3 DEF CreateStep, Created
    <3> QED BY <1>3, <3>1, <3>2, <3>3
  <2>2. made' \subseteq ChatIds
    BY ServerStep DEF ServerIInv
  <2>3. /\ ThreadFor(chosen') \in ThreadRecord
        /\ ThreadFor(chosen').mounted = (chosen' # NoChat)
        /\ ThreadFor(chosen').busy => thread.mounted /\ thread.busy
    BY <1>0, <2>1, <2>2, ThreadForType
  <2>4. \/ thread' = NoThread /\ ~(opened' /\ chosen' # NoChat)
        \/ thread' = ThreadFor(chosen') /\ opened'
    BY <1>3 DEF OpenPanel, ClosePanel, SelectSession, BackToList, CreateStep
  <2> QED BY <1>1, <2>1, <2>3, <2>4, NoThreadType
<1>4. CASE TitleServed \/ TitleStep \/ SideStep \/ EditStep
  <2>1. chosen' = chosen /\ thread' = thread /\ opened' = opened
    <3>1. CASE TitleServed
      BY <3>1 DEF TitleServed, TitleRead, TitleWritten, TitleRefused, panelVars
    <3>2. CASE TitleStep
      BY <3>2 DEF TitleStep, TitleBegins, TitleArrives, TitleFailed, panelVars
    <3>3. CASE SideStep \/ EditStep
      BY <3>3 DEF SideStep, EditStep, threadVars, panelVars
    <3> QED BY <1>4, <3>1, <3>2, <3>3
  <2> QED BY <1>0, <1>2, <2>1
\* An answer goes to the end of what is shown, a failure takes the last away.
<1>5. CASE QuestionStep
  <2>1. PICK q \in questions :
          QuestionStored(q) \/ AnswerBegins(q) \/ AnswerStored(q) \/ AnswerUnstored(q)
          \/ AnswerEnds(q) \/ AskFails(q)
    BY <1>5 DEF QuestionStep
  <2>2. chosen' = chosen /\ opened' = opened
    BY <1>5 DEF QuestionStep, panelVars
  <2>3. thread.log \in Seq(ChatRoles)
    BY <1>0 DEF ThreadRecord
  <2>4. CASE QuestionStored(q) \/ AnswerStored(q) \/ AnswerUnstored(q)
    BY <1>0, <1>2, <2>2, <2>4 DEF QuestionStored, AnswerStored, AnswerUnstored
  <2>5. CASE AnswerBegins(q)
    <3>1. PICK log \in Seq(ChatRoles) : log = Append(thread.log, "assistant")
      <4>1. "assistant" \in ChatRoles
        BY DEF ChatRoles
      <4>2. Append(thread.log, "assistant") \in Seq(ChatRoles)
        BY <2>3, <4>1
      <4> QED BY <4>2
    <3>2. thread' = IF q.here THEN [thread EXCEPT !.log = log] ELSE thread
      BY <2>5, <3>1 DEF AnswerBegins
    <3>3. thread' \in ThreadRecord /\ thread'.mounted = thread.mounted /\ thread'.busy = thread.busy
      BY <1>0, <3>2 DEF ThreadRecord
    <3> QED BY <1>2, <2>2, <3>3
  <2>6. CASE AnswerEnds(q)
    <3>1. /\ thread' \in ThreadRecord /\ thread'.mounted = thread.mounted
          /\ thread'.busy => thread.busy
      BY <1>0, <2>6 DEF AnswerEnds, ThreadRecord
    <3> QED BY <1>2, <2>2, <3>1
  <2>7. CASE AskFails(q)
    <3>1. PICK log : log = IF thread.log = <<>> THEN thread.log
                           ELSE SubSeq(thread.log, 1, Len(thread.log) - 1)
      OBVIOUS
    <3>2. log \in Seq(ChatRoles)
      <4>1. CASE thread.log = <<>>
        BY <2>3, <3>1, <4>1
      <4>2. CASE thread.log # <<>>
        <5>1. Len(thread.log) \in Nat /\ Len(thread.log) > 0
          BY <2>3, <4>2, EmptySeq
        <5>2. SubSeq(thread.log, 1, Len(thread.log) - 1) \in Seq(ChatRoles)
          BY <2>3, <5>1, SubSeqProperties
        <5> QED BY <3>1, <4>2, <5>2
      <4> QED BY <4>1, <4>2
    <3>3. thread' = IF q.here THEN [thread EXCEPT !.busy = FALSE, !.log = log] ELSE thread
      BY <1>0, <2>7, <3>1 DEF AskFails, ThreadRecord
    <3>4. /\ thread' \in ThreadRecord /\ thread'.mounted = thread.mounted
          /\ thread'.busy => thread.busy
      BY <1>0, <3>2, <3>3 DEF ThreadRecord
    <3> QED BY <1>2, <2>2, <3>4
  <2> QED BY <2>1, <2>4, <2>5, <2>6, <2>7
<1>6. CASE ThreadStep
  <2>1. chosen' = chosen /\ opened' = opened /\ chosen \in ChatIds
    BY <1>0, <1>6 DEF ThreadStep, panelVars
  <2>2. ASSUME NEW t \in ThreadRecord, thread' = Following(t, chosen),
               t.mounted = thread.mounted, t.busy = thread.busy
        PROVE  ConversationIInv' /\ (thread'.busy => thread.busy)
    BY <1>2, <2>1, <2>2, FollowingType
  <2>3. CASE ModelsAnswered(chosen)
    <3>1. thread.models \in ChatIds
      BY <1>0, <2>3 DEF ModelsAnswered, ThreadRecord
    <3>2. PICK l : l = [thread.lists EXCEPT ![thread.models] = More(thread.lists[thread.models], 1)]
      OBVIOUS
    <3>3. l \in [ChatIds -> 0..MaxAsked]
      <4>1. thread.lists \in [ChatIds -> 0..MaxAsked]
        BY <1>0 DEF ThreadRecord
      <4>2. More(thread.lists[thread.models], 1) \in 0..MaxAsked
        BY <3>1, <4>1, ThreadAssumption DEF More
      <4> QED BY <3>2, <4>1, <4>2
    <3>4. thread' = [thread EXCEPT !.models = NoChat, !.lists = l]
      BY <1>0, <2>3, <3>2 DEF ModelsAnswered, ThreadRecord
    <3>5. thread' \in ThreadRecord /\ thread'.mounted = thread.mounted /\ thread'.busy = thread.busy
      BY <1>0, <3>3, <3>4 DEF ThreadRecord
    <3> QED BY <1>2, <2>1, <3>5
  <2>4. CASE Ask
    <3>1. PICK log \in Seq(ChatRoles) : log = Append(thread.log, "user")
      <4>1. "user" \in ChatRoles /\ thread.log \in Seq(ChatRoles)
        BY <1>0 DEF ChatRoles, ThreadRecord
      <4>2. Append(thread.log, "user") \in Seq(ChatRoles)
        BY <4>1
      <4> QED BY <4>2
    <3>2. thread' = [thread EXCEPT !.log = log, !.busy = TRUE]
      BY <2>4, <3>1 DEF Ask
    <3>3. thread' \in ThreadRecord /\ thread'.mounted = thread.mounted
      BY <1>0, <3>2 DEF ThreadRecord
    <3> QED BY <1>2, <2>1, <2>4, <3>3
  <2>5. CASE ModelsRefused(chosen)
    <3>1. PICK t : t = [thread EXCEPT !.models = NoChat, !.list = {}]
      OBVIOUS
    <3>2. t \in ThreadRecord /\ t.mounted = thread.mounted /\ t.busy = thread.busy
      BY <1>0, <3>1 DEF ThreadRecord
    <3>3. thread' = Following(t, chosen)
      BY <2>5, <3>1 DEF ModelsRefused
    <3> QED BY <2>2, <3>2, <3>3
  <2>6. ASSUME NEW c \in ChatIds, thread.lists[c] > 0, NEW ids \in SUBSET ChatIds
        PROVE  /\ [thread EXCEPT !.lists[c] = thread.lists[c] - 1, !.list = ids] \in ThreadRecord
               /\ [thread EXCEPT !.lists[c] = thread.lists[c] - 1, !.list = ids].mounted = thread.mounted
               /\ [thread EXCEPT !.lists[c] = thread.lists[c] - 1, !.list = ids].busy = thread.busy
    <3>1. thread.lists \in [ChatIds -> 0..MaxAsked] /\ thread.lists[c] \in 0..MaxAsked
      BY <1>0 DEF ThreadRecord
    <3>2. thread.lists[c] - 1 \in 0..MaxAsked
      BY <2>6, <3>1, ThreadAssumption
    <3>3. PICK l : l = [thread.lists EXCEPT ![c] = thread.lists[c] - 1]
      OBVIOUS
    <3>4. l \in [ChatIds -> 0..MaxAsked]
      BY <3>1, <3>2, <3>3
    <3>5. [thread EXCEPT !.lists[c] = thread.lists[c] - 1, !.list = ids]
            = [thread EXCEPT !.lists = l, !.list = ids]
      BY <3>3
    <3> QED BY <1>0, <3>4, <3>5 DEF ThreadRecord
  <2>7. ASSUME NEW c \in ChatIds, ListRefused(c, chosen)
        PROVE  ConversationIInv' /\ (thread'.busy => thread.busy)
    <3>1. PICK t : t = [thread EXCEPT !.lists[c] = thread.lists[c] - 1, !.list = {}]
      OBVIOUS
    <3>2. thread.lists[c] > 0 /\ thread' = Following(t, chosen)
      BY <2>7, <3>1, Zenon DEF ListRefused
    <3>3. t \in ThreadRecord /\ t.mounted = thread.mounted /\ t.busy = thread.busy
      BY <2>6, <3>1, <3>2
    <3> QED BY <2>2, <3>2, <3>3
  <2>8. ASSUME NEW c \in ChatIds, ListAnswered(c, chosen)
        PROVE  ConversationIInv' /\ (thread'.busy => thread.busy)
    <3>1. PICK t : t = [thread EXCEPT !.lists[c] = thread.lists[c] - 1, !.list = DOMAIN chats]
      OBVIOUS
    <3>2. PICK v : v = [t EXCEPT !.following = c]
      OBVIOUS
    <3>3. PICK u : u = Reloading(v, c)
      OBVIOUS
    <3>4. thread.lists[c] > 0 /\ (thread' = Following(t, chosen) \/ thread' = Following(u, chosen))
      BY <2>8, <3>1, <3>2, <3>3, Zenon DEF ListAnswered
    <3>5. t \in ThreadRecord /\ t.mounted = thread.mounted /\ t.busy = thread.busy
      BY <1>0, <2>6, <3>1, <3>4
    <3>6. v \in ThreadRecord /\ v.mounted = thread.mounted /\ v.busy = thread.busy
      BY <3>2, <3>5 DEF ThreadRecord
    <3>7. u \in ThreadRecord /\ u.mounted = thread.mounted /\ u.busy = thread.busy
      BY <3>3, <3>6, FollowingType
    <3> QED BY <2>2, <3>4, <3>5, <3>7
  <2>9. ASSUME NEW c \in ChatIds, HistoryAnswered(c)
        PROVE  ConversationIInv' /\ (thread'.busy => thread.busy)
    <3>1. PICK log \in {<<>>} \cup {chats[x].log : x \in DOMAIN chats \cap {c}} :
            thread' = [thread EXCEPT !.histories[c] = thread.histories[c] - 1, !.log = log]
      BY <2>9, Zenon DEF HistoryAnswered
    <3>2. log \in Seq(ChatRoles)
      BY <1>0, EmptySeq DEF Conversation
    <3>3. thread.histories \in [ChatIds -> 0..MaxAsked] /\ thread.histories[c] \in 0..MaxAsked
          /\ thread.histories[c] > 0
      BY <1>0, <2>9 DEF ThreadRecord, HistoryAnswered
    <3>4. thread.histories[c] - 1 \in 0..MaxAsked
      BY <3>3, ThreadAssumption
    <3>5. PICK h : h = [thread.histories EXCEPT ![c] = thread.histories[c] - 1]
      OBVIOUS
    <3>6. h \in [ChatIds -> 0..MaxAsked]
      BY <3>3, <3>4, <3>5
    <3>7. thread' = [thread EXCEPT !.histories = h, !.log = log]
      BY <3>1, <3>5
    <3>8. thread' \in ThreadRecord /\ thread'.mounted = thread.mounted /\ thread'.busy = thread.busy
      BY <1>0, <3>2, <3>6, <3>7 DEF ThreadRecord
    <3> QED BY <1>2, <2>1, <3>8
  <2> QED BY <1>6, <2>3, <2>4, <2>5, <2>7, <2>8, <2>9 DEF ThreadStep
<1> QED BY <1>3, <1>4, <1>5, <1>6 DEF ChatNext

\* A question or a title that is asked for is for a session that was made; the
\* component that is busy has a question under way.
LEMMA RequestsStep ==
  ASSUME ServerIInv, ConversationIInv, RequestsIInv, SidebarIInv, ThreadIInv, ChatNext
  PROVE  RequestsIInv'
<1>0. /\ questions \subseteq Question /\ titles \subseteq TitleRequest /\ sent \in 0..MaxQuestions
      /\ \A q \in questions : q.to \in made
      /\ \A t \in titles : t.to \in made
      /\ thread.busy => \E q \in questions : q.here
      /\ made \subseteq made' /\ MaxQuestions \in Nat
  BY ServerStep, ThreadAssumption DEF RequestsIInv
<1>1. ASSUME UNCHANGED <<questions, titles, sent>>, thread'.busy => thread.busy PROVE RequestsIInv'
  BY <1>0, <1>1 DEF RequestsIInv
<1>2. sent' = sent => ~Ask
  BY <1>0 DEF Ask
<1>3. CASE OpenPanel \/ SelectSession \/ CreateStep \/ SideStep \/ EditStep
  <2>1. UNCHANGED <<questions, titles, sent>>
    BY <1>3 DEF OpenPanel, SelectSession, CreateStep, SideStep, EditStep, threadVars
  <2> QED BY <1>1, <1>2, <2>1, ConversationStep
\* Leaving the conversation leaves nothing busy.
<1>4. CASE ClosePanel \/ BackToList
  <2>1. /\ thread' = NoThread /\ questions' = Away(questions) /\ titles' = titles /\ sent' = sent
    BY <1>4 DEF ClosePanel, BackToList
  <2>2. ASSUME NEW q \in questions' PROVE q \in Question /\ q.to \in made
    <3>1. PICK p \in questions : q = [p EXCEPT !.here = FALSE]
      BY <2>1 DEF Away
    <3> QED BY <1>0, <3>1 DEF Question
  <2> QED BY <1>0, <2>1, <2>2, NoThreadType DEF RequestsIInv
<1>5. CASE ThreadStep /\ ~Ask
  <2>1. UNCHANGED <<questions, titles, sent>>
    <3>1. CASE ModelsAnswered(chosen) \/ ModelsRefused(chosen)
      BY <3>1 DEF ModelsAnswered, ModelsRefused
    <3>2. ASSUME NEW c \in ChatIds, ListAnswered(c, chosen) \/ ListRefused(c, chosen) \/ HistoryAnswered(c)
          PROVE UNCHANGED <<questions, titles, sent>>
      BY <3>2, Zenon DEF ListAnswered, ListRefused, HistoryAnswered
    <3> QED BY <1>5, <3>1, <3>2 DEF ThreadStep
  <2> QED BY <1>1, <1>2, <2>1, ConversationStep
<1>6. CASE ThreadStep /\ Ask
  <2>1. PICK second \in BOOLEAN : second = (\A role \in ChatRoles : CountOf(thread.log, role) = 1)
    OBVIOUS
  <2>2. PICK new : new = [no |-> sent', to |-> thread.following, here |-> TRUE, read |-> "plain",
                          step |-> "asked", second |-> second]
    OBVIOUS
  <2>3. questions' = questions \cup {new}
    BY <1>6, <2>1, <2>2, Zenon DEF Ask
  <2>4. /\ thread.following \in made /\ thread.following \in ChatIds
        /\ sent' = sent + 1 /\ sent < MaxQuestions /\ titles' = titles
    BY <1>6 DEF Ask, ThreadIInv, PostedWhereTyped, ConversationIInv, ServerIInv
  <2>5. sent' \in 1..MaxQuestions /\ sent' \in 0..MaxQuestions
    BY <1>0, <2>4
  <2>6. new \in Question /\ new.to \in made /\ new.here
    BY <2>1, <2>2, <2>4, <2>5 DEF Question, Titles
  <2> QED BY <1>0, <2>3, <2>4, <2>5, <2>6 DEF RequestsIInv
\* One question goes on: with it goes what it is for.
<1>7. ASSUME NEW q \in questions, NEW p \in Question, p.to = q.to, p.here = q.here,
             questions' = (questions \ {q}) \cup {p}, titles' = titles, sent' = sent,
             thread'.busy => thread.busy
      PROVE  RequestsIInv'
  BY <1>0, <1>7 DEF RequestsIInv
<1>8. ASSUME NEW q \in questions, NEW step \in {"asked", "stored", "streaming", "kept"}, NEW r \in Titles
      PROVE  /\ [q EXCEPT !.step = step] \in Question /\ [q EXCEPT !.step = step].to = q.to
             /\ [q EXCEPT !.step = step].here = q.here
             /\ [q EXCEPT !.step = step, !.read = r] \in Question
             /\ [q EXCEPT !.step = step, !.read = r].to = q.to
             /\ [q EXCEPT !.step = step, !.read = r].here = q.here
  BY <1>0 DEF Question
<1>9. CASE QuestionStep
  <2>1. PICK q \in questions :
          QuestionStored(q) \/ AnswerBegins(q) \/ AnswerStored(q) \/ AnswerUnstored(q)
          \/ AnswerEnds(q) \/ AskFails(q)
    BY <1>9 DEF QuestionStep
  <2>2. sent' = sent
    BY <2>1 DEF QuestionStored, AnswerBegins, AnswerStored, AnswerUnstored, AnswerEnds, AskFails
  <2>3. thread'.busy => thread.busy
    BY <1>2, <2>2, ConversationStep
  <2>4. CASE QuestionStored(q)
    <3>1. PICK r : r = chats'[q.to].title
      OBVIOUS
    <3>2. r \in Titles
      <4>1. q.to \in DOMAIN chats'
        BY <2>4 DEF QuestionStored, QuestionKept
      <4> QED BY <3>1, <4>1, ServerStep DEF ServerIInv, Conversation
    <3>3. PICK p : p = [q EXCEPT !.step = "stored", !.read = r]
      OBVIOUS
    <3>4. questions' = (questions \ {q}) \cup {p} /\ titles' = titles
      BY <2>4, <3>1, <3>3, Zenon DEF QuestionStored
    <3>5. p \in Question /\ p.to = q.to /\ p.here = q.here
      BY <1>8, <3>2, <3>3
    <3> QED BY <1>7, <2>2, <2>3, <3>4, <3>5
  <2>5. CASE AnswerBegins(q) \/ AnswerStored(q) \/ AnswerUnstored(q)
    <3>1. titles' = titles
      BY <2>5 DEF AnswerBegins, AnswerStored, AnswerUnstored
    <3>2. PICK step \in {"asked", "stored", "streaming", "kept"} :
            questions' = (questions \ {q}) \cup {[q EXCEPT !.step = step]}
      BY <2>5 DEF AnswerBegins, AnswerStored, AnswerUnstored, QuestionGoes
    <3>3. PICK p : p = [q EXCEPT !.step = step]
      OBVIOUS
    <3>4. p \in Question /\ p.to = q.to /\ p.here = q.here
      BY <1>0, <3>2, <3>3 DEF Question
    <3>5. questions' = (questions \ {q}) \cup {p}
      BY <3>2, <3>3
    <3> QED BY <1>7, <2>2, <2>3, <3>1, <3>4, <3>5
  <2>6. ASSUME questions' = questions \ {q}, titles' \subseteq TitleRequest,
               \A t \in titles' : t.to \in made,
               thread'.busy => thread.busy /\ ~q.here
        PROVE  RequestsIInv'
    BY <1>0, <2>2, <2>6 DEF RequestsIInv
  <2>7. CASE AnswerEnds(q)
    <3>1. thread'.busy => ~q.here
      BY <2>7 DEF AnswerEnds, ConversationIInv, ThreadRecord
    <3>2. PICK t : t = [no |-> q.no, to |-> q.to, plain |-> FALSE, step |-> "timer"]
      OBVIOUS
    <3>3. t \in TitleRequest /\ t.to \in made
      BY <1>0, <3>2 DEF TitleRequest, Question
    <3>4. questions' = questions \ {q} /\ (titles' = titles \/ titles' = titles \cup {t})
      BY <2>7, <3>2 DEF AnswerEnds
    <3> QED BY <1>0, <2>3, <2>6, <3>1, <3>3, <3>4
  <2>8. CASE AskFails(q)
    <3>1. thread'.busy => ~q.here
      <4>1. CASE q.here
        <5>1. PICK log : thread' = [thread EXCEPT !.busy = FALSE, !.log = log]
          BY <2>8, <4>1 DEF AskFails
        <5> QED BY <5>1 DEF ConversationIInv, ThreadRecord
      <4> QED BY <4>1
    <3>2. questions' = questions \ {q} /\ titles' = titles
      BY <2>8 DEF AskFails
    <3> QED BY <1>0, <2>3, <2>6, <3>1, <3>2
  <2> QED BY <2>1, <2>4, <2>5, <2>7, <2>8
<1>10. CASE TitleServed \/ TitleStep
  <2>1. questions' = questions /\ sent' = sent /\ thread' = thread
    BY <1>10 DEF TitleServed, TitleRead, TitleWritten, TitleRefused, TitleStep, TitleBegins,
       TitleArrives, TitleFailed
  <2>2. ASSUME titles' \subseteq TitleRequest, \A t \in titles' : t.to \in made PROVE RequestsIInv'
    BY <1>0, <2>1, <2>2 DEF RequestsIInv
  <2>3. ASSUME NEW t \in titles, NEW step \in {"asked", "written", "failed"}, TitleGoes(t, step)
        PROVE  RequestsIInv'
    <3>1. PICK u : u = [t EXCEPT !.step = step]
      OBVIOUS
    <3>2. u \in TitleRequest /\ u.to \in made
      BY <1>0, <3>1 DEF TitleRequest
    <3> QED BY <1>0, <2>2, <2>3, <3>1, <3>2 DEF TitleGoes
  <2>4. ASSUME NEW t \in titles, TitleRead(t) PROVE RequestsIInv'
    <3>1. PICK plain \in BOOLEAN : plain = (chats[t.to].title = "plain")
      OBVIOUS
    <3>2. PICK u : u = [t EXCEPT !.plain = plain, !.step = IF plain THEN "writing" ELSE "written"]
      OBVIOUS
    <3>3. u \in TitleRequest /\ u.to \in made
      BY <1>0, <3>2 DEF TitleRequest
    <3>4. titles' = (titles \ {t}) \cup {u}
      BY <2>4, <3>1, <3>2, Zenon DEF TitleRead
    <3> QED BY <1>0, <2>2, <3>3, <3>4
  <2>5. ASSUME NEW t \in titles, TitleWritten(t) \/ TitleRefused(t) \/ TitleBegins(t) PROVE RequestsIInv'
    BY <2>3, <2>5 DEF TitleWritten, TitleRefused, TitleBegins
  <2>6. ASSUME NEW t \in titles, TitleArrives(t) \/ TitleFailed(t) PROVE RequestsIInv'
    BY <1>0, <2>2, <2>6 DEF TitleArrives, TitleFailed
  <2> QED BY <1>10, <2>4, <2>5, <2>6 DEF TitleServed, TitleStep
<1> QED BY <1>3, <1>4, <1>5, <1>6, <1>9, <1>10 DEF ChatNext

\* The rows are those of sessions, in the list and in what was begun with it.
LEMMA TitleMapFacts ==
  /\ <<>> \in TitleMaps
  /\ \A cs \in SUBSET ChatIds : \A m : m \in [cs -> Titles] => m \in TitleMaps
  /\ \A m \in TitleMaps : DOMAIN m \subseteq ChatIds /\ m = [c \in DOMAIN m |-> m[c]]
                          /\ \A c \in DOMAIN m : m[c] \in Titles
<1>1. <<>> \in [{} -> Titles] /\ {} \in SUBSET ChatIds
  BY EmptyMap
<1>2. \A cs \in SUBSET ChatIds : \A m : m \in [cs -> Titles] => m \in TitleMaps
  BY Zenon DEF TitleMaps
<1>3. ASSUME NEW m \in TitleMaps
      PROVE  DOMAIN m \subseteq ChatIds /\ m = [c \in DOMAIN m |-> m[c]]
             /\ \A c \in DOMAIN m : m[c] \in Titles
  <2>1. PICK cs \in SUBSET ChatIds : m \in [cs -> Titles]
    BY <1>3, Zenon DEF TitleMaps
  <2> QED BY <2>1
<1> QED BY <1>1, <1>2, <1>3

LEMMA NoSideType ==
  /\ NoSide \in SideRecord /\ NoSide.mounted = FALSE /\ DOMAIN NoSide.rows = {}
  /\ SideMounted \in SideRecord /\ SideMounted.mounted = TRUE /\ DOMAIN SideMounted.rows = {}
<1>1. NoSide \in SideRecord
  BY TitleMapFacts DEF NoSide, SideRecord
<1>2. NoSide.mounted = FALSE /\ NoSide.rows = <<>> /\ DOMAIN <<>> = {}
  BY DEF NoSide
<1>3. SideMounted \in SideRecord /\ SideMounted.mounted = TRUE /\ SideMounted.rows = NoSide.rows
  BY <1>1 DEF SideMounted, SideRecord
<1> QED BY <1>1, <1>2, <1>3

LEMMA SidebarStep ==
  ASSUME ServerIInv, ConversationIInv, RequestsIInv, SidebarIInv, ChatNext
  PROVE  SidebarIInv'
<1>0. /\ side \in SideRecord /\ side.mounted = opened /\ DOMAIN side.rows \subseteq made
      /\ edits \subseteq Edit /\ edited \in 0..MaxEdits
      /\ \A e \in edits : DOMAIN e.rows \subseteq made
      /\ made \subseteq made' /\ made' \subseteq ChatIds /\ MaxEdits \in Nat
      /\ made \subseteq ChatIds /\ DOMAIN chats \subseteq made /\ DOMAIN chats' \subseteq made'
      /\ \A c \in DOMAIN chats : chats[c].title \in Titles
  BY ServerStep, EditsAssumption DEF SidebarIInv, ServerIInv, Conversation
<1>1. side.rows \in TitleMaps
  BY <1>0 DEF SideRecord
<1>2. ASSUME side' \in SideRecord, side'.mounted = opened', DOMAIN side'.rows \subseteq made',
             edits' \subseteq edits, edited' = edited
      PROVE  SidebarIInv'
  BY <1>0, <1>2 DEF SidebarIInv
\* The list is another one, the dialogs are what they become.
<1>3. ASSUME NEW rows \in TitleMaps, DOMAIN rows \subseteq made', NEW s \in SideRecord,
             side' = [s EXCEPT !.rows = rows], s.mounted = side.mounted, opened' = opened,
             edits' \subseteq edits, edited' = edited
      PROVE  SidebarIInv'
  <2>1. side' \in SideRecord /\ side'.mounted = side.mounted /\ side'.rows = rows
    BY <1>3 DEF SideRecord
  <2> QED BY <1>0, <1>2, <1>3, <2>1
<1>4. ASSUME side' \in SideRecord, side'.mounted = side.mounted, side'.rows = side.rows,
             opened' = opened, edits' \subseteq edits, edited' = edited
      PROVE  SidebarIInv'
  BY <1>0, <1>2, <1>4
<1>6. CASE OpenPanel
  BY <1>0, <1>2, <1>6, NoSideType DEF OpenPanel
<1>7. CASE ClosePanel
  <2>1. side' = NoSide /\ edits' = Left(edits) /\ edited' = edited /\ opened' = FALSE
    BY <1>7 DEF ClosePanel
  <2>2. ASSUME NEW e \in edits' PROVE e \in Edit /\ DOMAIN e.rows \subseteq made
    <3>1. PICK d \in edits : e = [d EXCEPT !.here = FALSE]
      BY <2>1 DEF Left
    <3> QED BY <1>0, <3>1 DEF Edit
  <2> QED BY <1>0, <2>1, <2>2, NoSideType DEF SidebarIInv
<1>8. CASE SelectSession \/ BackToList \/ ThreadStep \/ QuestionStep \/ TitleServed
  <2>1. UNCHANGED <<side, edits, edited, opened>>
    BY <1>8 DEF SelectSession, BackToList, ThreadStep, QuestionStep, TitleServed, sideVars, panelVars
  <2> QED BY <1>0, <1>4, <2>1
<1>9. ASSUME NEW t \in titles, NEW on \in BOOLEAN, HearsGenerating(t.to, on),
             opened' = opened, edits' = edits, edited' = edited
      PROVE  SidebarIInv'
  <2>1. t.to \in ChatIds
    BY DEF RequestsIInv, TitleRequest
  <2>2. PICK g : g = IF on THEN side.generating \cup {t.to} ELSE side.generating \ {t.to}
    OBVIOUS
  <2>3. side' = IF side.mounted THEN [side EXCEPT !.generating = g] ELSE side
    BY <1>9, <2>2 DEF HearsGenerating
  <2>4. side' \in SideRecord /\ side'.mounted = side.mounted /\ side'.rows = side.rows
    BY <1>0, <2>1, <2>2, <2>3 DEF SideRecord
  <2> QED BY <1>4, <1>9, <2>4
<1>10. ASSUME NEW t \in titles, TitleArrives(t) PROVE SidebarIInv'
  <2>1. edits' = edits /\ edited' = edited /\ opened' = opened
    BY <1>10 DEF TitleArrives, panelVars
  <2>2. CASE ~side.mounted
    BY <1>0, <1>4, <1>10, <2>1, <2>2 DEF TitleArrives, HearsTitle
  <2>3. CASE side.mounted
    <3>1. PICK rows : rows = IF t.to \in DOMAIN chats
                             THEN Retitled(side.rows, t.to, chats[t.to].title) ELSE side.rows
      OBVIOUS
    <3>2. rows \in TitleMaps /\ DOMAIN rows = DOMAIN side.rows
      <4>1. t.to \in DOMAIN chats => rows \in [DOMAIN side.rows -> Titles]
        BY <1>0, <1>1, <3>1, TitleMapFacts DEF Retitled
      <4> QED BY <1>0, <1>1, <3>1, <4>1, TitleMapFacts
    <3>3. PICK s : s = [side EXCEPT !.generating = side.generating \ {t.to}]
      OBVIOUS
    <3>4. s \in SideRecord /\ s.mounted = side.mounted
      BY <1>0, <3>3 DEF SideRecord
    <3>5. side' = [s EXCEPT !.rows = rows]
      BY <1>0, <1>10, <2>3, <3>1, <3>3 DEF TitleArrives, HearsTitle, SideRecord
    <3> QED BY <1>0, <1>3, <2>1, <3>2, <3>4, <3>5
  <2> QED BY <2>2, <2>3
<1>11. CASE TitleStep
  BY <1>9, <1>10, <1>11 DEF TitleStep, TitleBegins, TitleFailed, panelVars
<1>12. CASE RowsArrive /\ opened' = opened
  <2>1. TitlesOf(DOMAIN chats) \in TitleMaps /\ DOMAIN TitlesOf(DOMAIN chats) = DOMAIN chats
    <3>1. TitlesOf(DOMAIN chats) \in [DOMAIN chats -> Titles]
      BY <1>0 DEF TitlesOf
    <3> QED BY <1>0, <3>1, TitleMapFacts
  <2>2. PICK rows \in {side.rows, TitlesOf(DOMAIN chats)} :
          side' = [side EXCEPT !.asked = FALSE, !.rows = rows]
    BY <1>12 DEF RowsArrive
  <2>3. rows \in TitleMaps /\ DOMAIN rows \subseteq made'
    BY <1>0, <1>1, <2>1, <2>2
  <2>4. side' \in SideRecord /\ side'.mounted = side.mounted /\ side'.rows = rows
    BY <1>0, <2>2, <2>3 DEF SideRecord
  <2> QED BY <1>0, <1>2, <1>12, <2>3, <2>4 DEF RowsArrive
<1>13. ASSUME NEW kind \in {"create", "rename", "delete"}, NEW c \in ChatIds \cup {NoChat},
              Begin(kind, c), side' \in SideRecord, side'.mounted = side.mounted,
              side'.rows = side.rows, opened' = opened
       PROVE  SidebarIInv'
  <2>1. PICK e : e = [no |-> edited', kind |-> kind, id |-> c, rows |-> side.rows, here |-> TRUE]
    OBVIOUS
  <2>2. edits' = edits \cup {e} /\ edited' = edited + 1 /\ edited < MaxEdits
    BY <1>13, <2>1 DEF Begin
  <2>3. edited' \in 1..MaxEdits /\ edited' \in 0..MaxEdits
    BY <1>0, <2>2
  <2>4. e \in Edit /\ DOMAIN e.rows \subseteq made
    BY <1>0, <1>1, <2>1, <2>3 DEF Edit
  <2> QED BY <1>0, <1>13, <2>2, <2>3, <2>4 DEF SidebarIInv
<1>14. CASE SideStep
  <2>0. opened' = opened
    BY <1>14 DEF SideStep, panelVars
  <2>1. \A c \in DOMAIN side.rows : c \in ChatIds
    BY <1>0
  <2>2. CASE SideOpens \/ SideCancels
    <3>1. side' \in SideRecord /\ side'.mounted = side.mounted /\ side'.rows = side.rows
      <4>1. ASSUME NEW c \in DOMAIN side.rows,
                   side' = [side EXCEPT !.editing = c] \/ side' = [side EXCEPT !.deleting = c]
            PROVE  side' \in SideRecord /\ side'.mounted = side.mounted /\ side'.rows = side.rows
        BY <1>0, <2>1, <4>1 DEF SideRecord
      <4>2. ASSUME \/ side' = [side EXCEPT !.adding = TRUE] \/ side' = [side EXCEPT !.adding = FALSE]
                   \/ side' = [side EXCEPT !.editing = NoChat] \/ side' = [side EXCEPT !.deleting = NoChat]
            PROVE  side' \in SideRecord /\ side'.mounted = side.mounted /\ side'.rows = side.rows
        BY <1>0, <4>2 DEF SideRecord
      <4> QED BY <2>2, <4>1, <4>2 DEF SideOpens, SideCancels
    <3>2. edits' = edits /\ edited' = edited
      BY <2>2 DEF SideOpens, SideCancels
    <3> QED BY <1>4, <2>0, <3>1, <3>2
  <2>3. CASE CreateClick \/ RenameClick
    <3>1. side' = side
      BY <2>3 DEF CreateClick, RenameClick
    <3>2. Begin("create", NoChat) \/ Begin("rename", side.editing)
      BY <2>3 DEF CreateClick, RenameClick
    <3>3. side.editing \in ChatIds \cup {NoChat}
      BY <1>0 DEF SideRecord
    <3> QED BY <1>0, <1>13, <2>0, <3>1, <3>2, <3>3
  <2>4. CASE DeleteClick
    <3>1. side' = [side EXCEPT !.deleting = NoChat] /\ Begin("delete", side.deleting)
      BY <2>4 DEF DeleteClick
    <3>2. side' \in SideRecord /\ side'.mounted = side.mounted /\ side'.rows = side.rows
          /\ side.deleting \in ChatIds \cup {NoChat}
      BY <1>0, <3>1 DEF SideRecord
    <3> QED BY <1>13, <2>0, <3>1, <3>2
  <2> QED BY <1>12, <1>14, <2>0, <2>2, <2>3, <2>4 DEF SideStep
<1>15. CASE EditStep
  <2>0. opened' = opened
    BY <1>15 DEF EditStep, panelVars
  <2>1. PICK e \in edits : Renamed(e) \/ Deleted(e) \/ EditFails(e)
    BY <1>15 DEF EditStep
  <2>2. edits' \subseteq edits /\ edited' = edited
    BY <2>1 DEF Renamed, Deleted, EditFails
  <2>3. CASE side' = side \/ side' = [side EXCEPT !.deleting = NoChat]
    <3>1. side' \in SideRecord /\ side'.mounted = side.mounted /\ side'.rows = side.rows
      BY <1>0, <2>3 DEF SideRecord
    <3> QED BY <1>4, <2>0, <2>2, <3>1
  <2>4. CASE Renamed(e) /\ e.here
    <3>1. PICK rows : rows = Retitled(side.rows, e.id, "own")
      OBVIOUS
    <3>2. rows \in [DOMAIN side.rows -> Titles]
      BY <1>1, <3>1, TitleMapFacts DEF Retitled, Titles
    <3>3. rows \in TitleMaps /\ DOMAIN rows = DOMAIN side.rows
      BY <1>1, <3>2, TitleMapFacts
    <3>4. PICK s : s = [side EXCEPT !.editing = NoChat]
      OBVIOUS
    <3>5. s \in SideRecord /\ s.mounted = side.mounted /\ side' = [s EXCEPT !.rows = rows]
      BY <1>0, <2>4, <3>1, <3>4 DEF Renamed, SideRecord
    <3> QED BY <1>0, <1>3, <2>0, <2>2, <3>3, <3>5
  <2>5. CASE Deleted(e) /\ e.here
    <3>1. PICK rows : rows = [x \in DOMAIN e.rows \ {e.id} |-> e.rows[x]]
      OBVIOUS
    <3>2. e.rows \in TitleMaps
      BY <1>0 DEF Edit
    <3>3. rows \in [DOMAIN e.rows \ {e.id} -> Titles] /\ DOMAIN e.rows \subseteq ChatIds
      BY <3>1, <3>2, TitleMapFacts
    <3>4. rows \in TitleMaps /\ DOMAIN rows \subseteq made
      BY <1>0, <3>3, TitleMapFacts
    <3>5. PICK s : s = [side EXCEPT !.deleting = NoChat]
      OBVIOUS
    <3>6. s \in SideRecord /\ s.mounted = side.mounted /\ side' = [s EXCEPT !.rows = rows]
      BY <1>0, <2>5, <3>1, <3>5 DEF Deleted, SideRecord
    <3> QED BY <1>0, <1>3, <2>0, <2>2, <3>4, <3>6
  <2> QED BY <2>1, <2>3, <2>4, <2>5 DEF Renamed, Deleted, EditFails
<1>16. CASE CreateStep
  <2>1. PICK e \in edits, c \in ChatIds : Created(e, c)
    BY <1>16 DEF CreateStep
  <2>2. opened' = opened
    BY <1>16 DEF CreateStep
  <2>3. PICK title \in {"plain", "own"} :
          /\ made' = made \cup {c}
          /\ side' = IF e.here
                     THEN [side EXCEPT !.adding = FALSE,
                             !.rows = [x \in DOMAIN side.rows \cup {c} |->
                                         IF x = c THEN title ELSE side.rows[x]]]
                     ELSE side
    BY <2>1, Zenon DEF Created
  <2>4. edits' \subseteq edits /\ edited' = edited
    BY <2>1 DEF Created
  <2>5. CASE ~e.here
    BY <1>0, <1>4, <2>2, <2>3, <2>4, <2>5
  <2>6. CASE e.here
    <3>1. PICK rows : rows = [x \in DOMAIN side.rows \cup {c} |-> IF x = c THEN title ELSE side.rows[x]]
      OBVIOUS
    <3>2. rows \in [DOMAIN side.rows \cup {c} -> Titles]
      BY <1>1, <3>1, TitleMapFacts DEF Titles
    <3>3. rows \in TitleMaps /\ DOMAIN rows \subseteq made'
      BY <1>0, <2>3, <3>2, TitleMapFacts
    <3>4. PICK s : s = [side EXCEPT !.adding = FALSE]
      OBVIOUS
    <3>5. s \in SideRecord /\ s.mounted = side.mounted
      BY <1>0, <3>4 DEF SideRecord
    <3>6. side' = [s EXCEPT !.rows = rows]
      <4>1. side' = [side EXCEPT !.adding = FALSE, !.rows = rows]
        BY <2>3, <2>6, <3>1
      <4> QED BY <3>4, <4>1
    <3> QED BY <1>3, <2>2, <2>4, <3>3, <3>5, <3>6
  <2> QED BY <2>5, <2>6
<1> QED BY <1>6, <1>7, <1>8, <1>11, <1>14, <1>15, <1>16 DEF ChatNext

LEMMA ChatTypeInit == WebInit => ChatTypeIInv
<1> SUFFICES ASSUME ChatInit PROVE ServerIInv /\ ConversationIInv /\ RequestsIInv /\ SidebarIInv
  BY DEF WebInit, ChatTypeIInv
<1>1. made \subseteq ChatIds
  BY ChatAssumption DEF ChatInit
<1>2. PICK log \in {<<>>, <<"user", "assistant">>}, title \in {"plain", "own"} :
        chats = [c \in made |-> [title |-> title, log |-> log]]
  BY DEF ChatInit
<1>3. log \in Seq(ChatRoles)
  <2>1. <<>> \in Seq(ChatRoles)
    BY EmptySeq
  <2>2. "user" \in ChatRoles /\ "assistant" \in ChatRoles
    BY DEF ChatRoles
  <2>3. <<"user", "assistant">> \in Seq(ChatRoles)
    BY <2>2
  <2> QED BY <1>2, <2>1, <2>3
<1>4. ServerIInv
  BY <1>1, <1>2, <1>3 DEF ServerIInv, Conversation, Titles
<1>5. ConversationIInv
  BY NoThreadType DEF ChatInit, ConversationIInv
<1>6. RequestsIInv
  BY NoThreadType, ThreadAssumption DEF ChatInit, RequestsIInv
<1>7. SidebarIInv
  <2>1. side = NoSide /\ opened = FALSE /\ edits = {} /\ edited = 0
    BY DEF ChatInit
  <2>2. side \in SideRecord /\ side.mounted = opened /\ DOMAIN side.rows \subseteq made
    BY <2>1, NoSideType
  <2> QED BY <2>1, <2>2, EditsAssumption DEF SidebarIInv
<1> QED BY <1>4, <1>5, <1>6, <1>7

LEMMA ChatTypeStep ==
  ASSUME ChatIInv, ChatTypeIInv, [WebNext]_webVars
  PROVE  ChatTypeIInv'
<1>1. view' = view /\ (view # "chat" \/ ChatNext \/ UNCHANGED chatVars)
  BY DEF WebNext, AddView, SessionView, ListView, SettingsView, ChatView, webVars
<1>2. CASE view = "chat" /\ ChatNext
  BY <1>1, <1>2, ServerStep, ConversationStep, RequestsStep, SidebarStep DEF ChatIInv, ChatTypeIInv
<1>3. CASE view = "chat" /\ UNCHANGED chatVars
  <2>1. UNCHANGED <<chats, made, thread, questions, titles, sent, side, edits, edited, opened, chosen>>
    BY <1>3 DEF chatVars, serverVars, threadVars, sideVars, panelVars
  <2> QED BY <1>1, <1>3, <2>1
          DEF ChatTypeIInv, ServerIInv, ConversationIInv, RequestsIInv, SidebarIInv
<1> QED BY <1>1, <1>2, <1>3 DEF ChatTypeIInv

LEMMA ChatTypeHolds == ChatTypeIInv => (view = "chat" => ChatType)
<1> SUFFICES ASSUME ChatTypeIInv, view = "chat" PROVE ChatType
  OBVIOUS
<1>1. ServerIInv /\ ConversationIInv /\ RequestsIInv /\ SidebarIInv
  BY DEF ChatTypeIInv
<1>2. ServerType
  BY <1>1 DEF ServerIInv, Conversation, ServerType
<1>3. ThreadType
  BY <1>1 DEF ConversationIInv, RequestsIInv, ThreadType, ThreadRecord, Question, TitleRequest
<1>4. SideType
  <2>1. side.rows \in TitleMaps /\ side \in SideRecord
    BY <1>1 DEF SidebarIInv, SideRecord
  <2>2. [side EXCEPT !.rows = <<>>] \in
          [mounted: BOOLEAN, asked: BOOLEAN, rows: {<<>>}, adding: BOOLEAN,
           editing: ChatIds \cup {NoChat}, deleting: ChatIds \cup {NoChat}, generating: SUBSET ChatIds]
    BY <2>1 DEF SideRecord
  <2>3. DOMAIN side.rows \subseteq ChatIds /\ \A c \in DOMAIN side.rows : side.rows[c] \in Titles
    BY <2>1, TitleMapFacts
  <2>4. edited \in 0..MaxEdits
        /\ \A e \in edits : /\ e.no \in 1..MaxEdits /\ e.here \in BOOLEAN
                            /\ e.kind \in {"create", "rename", "delete"} /\ e.id \in ChatIds \cup {NoChat}
    BY <1>1 DEF SidebarIInv, Edit
  <2> QED BY <2>2, <2>3, <2>4 DEF SideType
<1>5. opened \in BOOLEAN /\ chosen \in ChatIds \cup {NoChat} /\ side.mounted = opened
      /\ thread.mounted = (opened /\ chosen # NoChat)
  BY <1>1 DEF ServerIInv, ConversationIInv, SidebarIInv
<1> QED BY <1>2, <1>3, <1>4, <1>5, Zenon DEF ChatType

-----------------------------------------------------------------------------
\* What the settings keep: stores of what is known by an id, the forms, and
\* requests for the rows within their bound.
PageRecord ==
  [open: BOOLEAN, of: Default, named: BOOLEAN, known: SUBSET ProfileIds, default: Default,
   loading: BOOLEAN, asked: Nat, auto: BOOLEAN, settings: BOOLEAN]
ProfileChange ==
  [kind: {"profile", "default", "auto"}, of: Default, params: Params, auto: BOOLEAN, here: BOOLEAN]

TemplatesIInv ==
  /\ templates \in Stores /\ configured \in BOOLEAN
  /\ editor.saving => editor.open /\ save.own /\ save.of = editor.of
StoredKeysIInv == keys \in [live: SUBSET Keys, created: SUBSET Keys]
ProfilesIInv ==
  /\ profiles \in StoredProfiles /\ user \in [default: Default, auto: BOOLEAN]
  /\ page \in PageRecord /\ psaves \subseteq ProfileChange
TabIInv ==
  tab \in Tabs /\ visits \in 0..MaxVisits /\ work \in 0..MaxWork /\ gate \in BOOLEAN
LoadsBounded(t) == t.asked \in Nat /\ IsFiniteSet(t.read) /\ Loads(t) <= MaxReads

SettingsTypeIInv ==
  view = "settings" =>
    /\ TemplatesIInv /\ StoredKeysIInv /\ LlmType /\ ProfilesIInv /\ AccountType
    /\ TabIInv /\ LoadsBounded(table)

\* What is known by an id: added, replaced and removed.
AreMaps(maps, ids, S) == maps = UNION {[xs -> S] : xs \in SUBSET ids}
LEMMA MapFacts ==
  ASSUME NEW ids, NEW S, NEW maps, AreMaps(maps, ids, S)
  PROVE  /\ <<>> \in maps
         /\ \A m \in maps : DOMAIN m \subseteq ids /\ \A x \in DOMAIN m : m[x] \in S
         /\ \A m \in maps : \A x : [y \in DOMAIN m \ {x} |-> m[y]] \in maps
         /\ \A m \in maps, x \in ids, v \in S :
              [y \in DOMAIN m \cup {x} |-> IF y = x THEN v ELSE m[y]] \in maps
<1>1. \A xs \in SUBSET ids : \A m : m \in [xs -> S] => m \in maps
  BY Zenon DEF AreMaps
<1>2. <<>> \in maps
  BY <1>1, EmptyMap
<1>3. ASSUME NEW m \in maps PROVE DOMAIN m \subseteq ids /\ \A x \in DOMAIN m : m[x] \in S
  <2>1. PICK xs \in SUBSET ids : m \in [xs -> S]
    BY <1>3, Zenon DEF AreMaps
  <2> QED BY <2>1
<1>4. ASSUME NEW m \in maps, NEW x PROVE [y \in DOMAIN m \ {x} |-> m[y]] \in maps
  <2>1. [y \in DOMAIN m \ {x} |-> m[y]] \in [DOMAIN m \ {x} -> S]
    BY <1>3
  <2> QED BY <1>1, <1>3, <2>1
<1>5. ASSUME NEW m \in maps, NEW x \in ids, NEW v \in S
      PROVE  [y \in DOMAIN m \cup {x} |-> IF y = x THEN v ELSE m[y]] \in maps
  <2>1. [y \in DOMAIN m \cup {x} |-> IF y = x THEN v ELSE m[y]] \in [DOMAIN m \cup {x} -> S]
    BY <1>3
  <2> QED BY <1>1, <1>3, <2>1
<1> QED BY <1>2, <1>3, <1>4, <1>5

LEMMA StoresFacts ==
  /\ <<>> \in Stores
  /\ \A m \in Stores : DOMAIN m \subseteq Templates /\ \A x \in DOMAIN m : m[x] \in Content
  /\ \A m \in Stores : \A x : [y \in DOMAIN m \ {x} |-> m[y]] \in Stores
  /\ \A m \in Stores, x \in Templates, v \in Content :
       [y \in DOMAIN m \cup {x} |-> IF y = x THEN v ELSE m[y]] \in Stores
<1>1. AreMaps(Stores, Templates, Content)
  BY Zenon DEF AreMaps, Stores
<1> QED BY <1>1, MapFacts

LEMMA StoredProfilesFacts ==
  /\ <<>> \in StoredProfiles
  /\ \A m \in StoredProfiles : DOMAIN m \subseteq ProfileIds /\ \A x \in DOMAIN m : m[x] \in Params
  /\ \A m \in StoredProfiles : \A x : [y \in DOMAIN m \ {x} |-> m[y]] \in StoredProfiles
  /\ \A m \in StoredProfiles, x \in ProfileIds, v \in Params :
       [y \in DOMAIN m \cup {x} |-> IF y = x THEN v ELSE m[y]] \in StoredProfiles
<1>1. AreMaps(StoredProfiles, ProfileIds, Params)
  BY Zenon DEF AreMaps, StoredProfiles
<1> QED BY <1>1, MapFacts

LEMMA TemplatesStep ==
  ASSUME TemplatesIInv, EditorIInv, SettingsNext
  PROVE  TemplatesIInv'
<1>0. /\ templates \in Stores /\ configured \in BOOLEAN
      /\ editor \in EditorRecord /\ save \in SaveRecord
      /\ editor.saving => editor.open /\ save.own /\ save.of = editor.of
  BY DEF TemplatesIInv, EditorIInv
<1>1. ASSUME templates' \in Stores, configured' \in BOOLEAN,
             editor'.saving => editor'.open /\ save'.own /\ save'.of = editor'.of
      PROVE  TemplatesIInv'
  BY <1>1 DEF TemplatesIInv
<1>2. ~EditorFresh.saving
  BY DEF EditorFresh
<1>3. ASSUME UNCHANGED <<templates, editor, save>>, configured' \in BOOLEAN PROVE TemplatesIInv'
  BY <1>0, <1>3 DEF TemplatesIInv
<1>4. CASE SelectTab \/ SignIn \/ KeysTab \/ LlmTab \/ ProfilesTab \/ AccountTab
  BY <1>0, <1>3, <1>4 DEF SelectTab, TabOpened, SignIn, KeysTab, LlmTab, ProfilesTab, AccountTab,
     templateVars
<1>5. CASE GateStep
  <2>1. configured' \in BOOLEAN
    BY <1>5 DEF GateStep
  <2> QED BY <1>3, <1>5, <2>1 DEF GateStep, templateVars
<1>6. CASE TokenRenewed
  <2>1. UNCHANGED <<templates, save, configured>>
        /\ (editor' = editor \/ editor' = EditorTokenRenewed(editor))
    BY <1>6 DEF TokenRenewed
  <2>2. /\ EditorTokenRenewed(editor).saving = editor.saving
        /\ EditorTokenRenewed(editor).open = editor.open
        /\ EditorTokenRenewed(editor).of = editor.of
    BY <1>0 DEF EditorTokenRenewed, EditorRecord
  <2> QED BY <1>0, <1>1, <2>1, <2>2
<1>7. CASE AutoLogout
  <2>1. editor' = EditorFresh /\ templates' = templates /\ configured' = FALSE
    BY <1>7 DEF AutoLogout, TabOpened, EditorClosed
  <2> QED BY <1>0, <1>1, <1>2, <2>1
<1>8. ASSUME UNCHANGED <<templates, configured>>, ~editor'.saving PROVE TemplatesIInv'
  BY <1>0, <1>1, <1>8
<1>9. \A of, content : Opened(of, content) => ~editor'.saving
  BY DEF Opened, EditorFresh
<1>10. CASE NewTemplate \/ CancelEditor \/ \E t \in Templates : EditTemplate(t)
  BY <1>2, <1>8, <1>9, <1>10 DEF NewTemplate, CancelEditor, EditTemplate, EditorClosed
<1>11. CASE TypeDraft
  <2>1. PICK draft : editor' = [editor EXCEPT !.draft = draft, !.typed = draft]
    BY <1>11, Zenon DEF TypeDraft
  <2>2. ~editor'.saving
    BY <1>0, <1>11, <2>1 DEF TypeDraft, EditorRecord
  <2> QED BY <1>8, <1>11, <2>2 DEF TypeDraft
<1>12. CASE ModelsArrive
  <2>1. PICK model : editor' = [editor EXCEPT !.models = FALSE,
                                  !.draft.model = IF @ = NoModel THEN model ELSE @]
    BY <1>12, Zenon DEF ModelsArrive
  <2>2. editor'.saving = editor.saving /\ editor'.open = editor.open /\ editor'.of = editor.of
    BY <1>0, <2>1 DEF EditorRecord
  <2> QED BY <1>0, <1>1, <1>12, <2>2 DEF ModelsArrive
<1>13. CASE SaveTemplate
  BY <1>0, <1>1, <1>13 DEF SaveTemplate, EditorRecord
<1>14. CASE TemplateRows \/ \E t \in Templates : DeleteTemplate(t)
  BY <1>0, <1>3, <1>14 DEF TemplateRows, DeleteTemplate
<1>15. ASSUME NEW ok \in BOOLEAN, SaveAnswered(ok) PROVE TemplatesIInv'
  <2>1. templates' \in Stores
    <3>1. CASE templates' = templates
      BY <1>0, <3>1
    <3>2. CASE templates' \in Stored(save)
      <4>1. PICK id \in Templates :
              templates' = [t \in DOMAIN templates \cup {id} |->
                              IF t = id THEN save.content ELSE templates[t]]
        BY <1>0, <3>2 DEF Stored, SaveRecord
      <4>2. save.content \in Content
        BY <1>0 DEF SaveRecord
      <4>3. \A m \in Stores, x \in Templates, v \in Content :
              [y \in DOMAIN m \cup {x} |-> IF y = x THEN v ELSE m[y]] \in Stores
        BY StoresFacts, Zenon
      <4> QED BY <1>0, <4>1, <4>2, <4>3
    <3> QED BY <1>15, <3>1, <3>2 DEF SaveAnswered
  <2>2. ~editor'.saving
    <3>1. CASE save.own /\ ~ok
      <4>1. editor' = [editor EXCEPT !.saving = FALSE, !.error = TRUE]
        BY <1>15, <3>1 DEF SaveAnswered
      <4> QED BY <1>0, <4>1 DEF EditorRecord
    <3>2. CASE ~save.own \/ ok
      BY <1>0, <1>2, <1>15, <3>2 DEF SaveAnswered
    <3> QED BY <3>1, <3>2
  <2> QED BY <1>0, <1>1, <1>15, <2>1, <2>2 DEF SaveAnswered
<1>16. ASSUME NEW d \in deletions, NEW ok \in BOOLEAN, TemplateDeleted(d, ok) PROVE TemplatesIInv'
  <2>1. templates' = templates \/ templates' = [t \in DOMAIN templates \ {d.id} |-> templates[t]]
    BY <1>16 DEF TemplateDeleted
  <2>2. templates' \in Stores
    BY <1>0, <2>1, StoresFacts
  <2> QED BY <1>0, <1>1, <1>16, <2>2 DEF TemplateDeleted
<1> QED BY <1>4, <1>5, <1>6, <1>7, <1>10, <1>11, <1>12, <1>13, <1>14, <1>15, <1>16
    DEF SettingsNext, SettingsStep, SummaryTab, TemplateStep

LEMMA StoredKeysStep ==
  ASSUME StoredKeysIInv, SettingsNext
  PROVE  StoredKeysIInv'
<1>1. UNCHANGED keys => StoredKeysIInv'
  BY DEF StoredKeysIInv
<1>2. CASE SelectTab \/ GateStep \/ TokenRenewed \/ AutoLogout \/ SignIn \/ SummaryTab \/ LlmTab
           \/ ProfilesTab \/ AccountTab
  BY <1>1, <1>2 DEF SelectTab, GateStep, TokenRenewed, AutoLogout, SignIn, SummaryTab, LlmTab,
     ProfilesTab, AccountTab, TabOpened, keyVars
<1>3. CASE KeyStep
  BY <1>1, <1>3 DEF KeyStep, OpenKeyForm, NameKey, CancelKey, SubmitKey, CopyKey, DismissKey,
     KeyRows, DeleteKey
<1>4. ASSUME NEW k \in Keys, keys' = [live |-> keys.live \cup {k}, created |-> keys.created \cup {k}]
      PROVE  StoredKeysIInv'
  BY <1>4 DEF StoredKeysIInv
<1>5. ASSUME NEW c \in creating, KeyFailed(c) \/ \E k \in Keys : KeyCreated(c, k)
      PROVE  StoredKeysIInv'
  BY <1>1, <1>4, <1>5 DEF KeyFailed, KeyCreated
<1>6. ASSUME NEW d \in deletions, NEW ok \in BOOLEAN, KeyDeleted(d, ok) PROVE StoredKeysIInv'
  BY <1>6 DEF KeyDeleted, StoredKeysIInv
<1> QED BY <1>2, <1>3, <1>5, <1>6 DEF SettingsNext, SettingsStep, KeysTab

LEMMA LlmTypeStep ==
  ASSUME LlmType, SettingsNext
  PROVE  LlmType'
<1> DEFINE FormRecord ==
      [provider: Providers, hasKey: BOOLEAN, url: BOOLEAN, key: BOOLEAN, loading: BOOLEAN,
       saving: BOOLEAN, asked: BOOLEAN, read: SUBSET (Configs \cup {NoConfig})]
<1> DEFINE Saves == [provider: Providers, key: BOOLEAN, here: BOOLEAN]
<1>0. llm \in Configs \cup {NoConfig} /\ llmform \in FormRecord /\ llmsaves \subseteq Saves
  BY DEF LlmType
<1>1. ASSUME llm' \in Configs \cup {NoConfig}, llmform' \in FormRecord, llmsaves' \subseteq Saves
      PROVE  LlmType'
  BY <1>1 DEF LlmType
<1>2. LlmFormFresh \in FormRecord
  BY DEF LlmFormFresh, Providers
<1>3. CASE SelectTab \/ AutoLogout
  <2>1. /\ llm' = llm /\ llmform' = LlmFormFresh
        /\ llmsaves' = {[s EXCEPT !.here = FALSE] : s \in llmsaves}
    BY <1>3 DEF SelectTab, AutoLogout, TabOpened
  <2> QED BY <1>0, <1>1, <1>2, <2>1
<1>4. CASE GateStep \/ SignIn \/ SummaryTab \/ KeysTab \/ ProfilesTab \/ AccountTab
  BY <1>0, <1>1, <1>4 DEF GateStep, SignIn, SummaryTab, KeysTab, ProfilesTab, AccountTab, llmVars
<1>5. CASE TokenRenewed
  <2>1. LlmTokenRenewed(llmform) \in FormRecord
    BY <1>0 DEF LlmTokenRenewed
  <2> QED BY <1>0, <1>1, <1>5, <2>1 DEF TokenRenewed
<1>6. CASE LlmRead
  BY <1>0, <1>1, <1>6 DEF LlmRead
<1>7. CASE LlmArrives
  <2>1. PICK c \in llmform.read :
          llmform' \in {Loaded(llmform, c),
                        [llmform EXCEPT !.loading = FALSE, !.read = llmform.read \ {c}]}
    BY <1>7 DEF LlmArrives
  <2>2. c \in Configs \cup {NoConfig}
    BY <1>0
  <2>3. PICK url \in BOOLEAN : url = IF c = NoConfig THEN llmform.url ELSE c.provider = "ollama"
    BY <1>0
  <2>4. PICK provider \in Providers : provider = IF c = NoConfig THEN llmform.provider ELSE c.provider
    BY <1>0, <2>2 DEF Configs
  <2>5. PICK hasKey \in BOOLEAN : hasKey = IF c = NoConfig THEN llmform.hasKey ELSE c.key
    BY <1>0, <2>2 DEF Configs
  <2>6. Loaded(llmform, c) = [llmform EXCEPT !.provider = provider, !.hasKey = hasKey, !.url = url,
                                             !.loading = FALSE, !.read = llmform.read \ {c}]
    BY <2>3, <2>4, <2>5 DEF Loaded
  <2>7. llmform' \in FormRecord
    BY <1>0, <2>1, <2>6
  <2> QED BY <1>0, <1>1, <1>7, <2>7 DEF LlmArrives
<1>8. CASE EditLlm
  <2>1. PICK provider \in Providers, url \in BOOLEAN, key \in BOOLEAN :
          llmform' = [llmform EXCEPT !.provider = provider,
                        !.url = IF provider = "ollama" THEN url ELSE llmform.url,
                        !.key = IF provider = "openai" THEN key ELSE llmform.key]
    BY <1>8 DEF EditLlm
  <2>2. llmform' \in FormRecord
    BY <1>0, <2>1
  <2> QED BY <1>0, <1>1, <1>8, <2>2 DEF EditLlm
<1>9. CASE SaveLlm
  <2>1. PICK key \in BOOLEAN : key = (llmform.provider = "openai" /\ llmform.key)
    OBVIOUS
  <2>2. PICK s : s = [provider |-> llmform.provider, here |-> TRUE, key |-> key]
    OBVIOUS
  <2>3. s \in Saves
    BY <1>0, <2>2
  <2>4. llmsaves' = llmsaves \cup {s} /\ llm' = llm /\ llmform' = [llmform EXCEPT !.saving = TRUE]
    BY <1>9, <2>1, <2>2 DEF SaveLlm
  <2> QED BY <1>0, <1>1, <2>3, <2>4
<1>10. ASSUME NEW s \in llmsaves, NEW ok \in BOOLEAN, LlmSaved(s, ok) PROVE LlmType'
  <2>1. s \in Saves
    BY <1>0
  <2>2. PICK own \in BOOLEAN : own = (s.provider = "openai")
    OBVIOUS
  <2>3. Kept(s) \in Configs
    BY <2>1, <2>2 DEF Kept, Configs
  <2>4. llm' \in Configs \cup {NoConfig}
    BY <1>0, <1>10, <2>3 DEF LlmSaved
  <2>5. PICK key \in BOOLEAN : key = (llmform.key /\ s.provider # "openai")
    OBVIOUS
  <2>6. llmform' = IF ~s.here THEN llmform
                   ELSE IF ~ok THEN [llmform EXCEPT !.saving = FALSE]
                   ELSE [llmform EXCEPT !.saving = FALSE, !.provider = s.provider,
                                        !.hasKey = own, !.key = key]
    BY <1>10, <2>2, <2>5 DEF LlmSaved
  <2>7. llmform' \in FormRecord
    BY <1>0, <2>1, <2>6
  <2>8. llmsaves' \subseteq Saves
    BY <1>0, <1>10 DEF LlmSaved
  <2> QED BY <1>1, <2>4, <2>7, <2>8
<1> QED BY <1>3, <1>4, <1>5, <1>6, <1>7, <1>8, <1>9, <1>10 DEF SettingsNext, SettingsStep, LlmTab, LlmStep

LEMMA SavedProfilesStored ==
  ASSUME profiles \in StoredProfiles, NEW s \in ProfileChange, NEW stored \in SavedProfiles(s)
  PROVE  stored \in StoredProfiles
<1>1. PICK id \in ProfileIds :
        stored = [p \in DOMAIN profiles \cup {id} |-> IF p = id THEN s.params ELSE profiles[p]]
  BY DEF SavedProfiles, ProfileChange, Default
<1>2. \A m \in StoredProfiles, x \in ProfileIds, v \in Params :
        [y \in DOMAIN m \cup {x} |-> IF y = x THEN v ELSE m[y]] \in StoredProfiles
  BY StoredProfilesFacts, Zenon
<1> QED BY <1>1, <1>2 DEF ProfileChange

LEMMA ProfilesStep ==
  ASSUME ProfilesIInv, RowsAreOfTheTab, ChangesFit, SettingsNext
  PROVE  ProfilesIInv'
<1>0. /\ profiles \in StoredProfiles /\ user \in [default: Default, auto: BOOLEAN]
      /\ page \in PageRecord /\ psaves \subseteq ProfileChange
      /\ NewProfile \in Default /\ ProfileIds \subseteq Default
      /\ DOMAIN profiles \subseteq ProfileIds
      /\ config.params \in Params /\ DefaultParams \in Params
  <2>1. DOMAIN profiles \subseteq ProfileIds
    BY StoredProfilesFacts DEF ProfilesIInv
  <2> QED BY <2>1, DefaultsFit DEF ProfilesIInv, Default, ChangesFit, Fits, ConfigType
<1>1. ASSUME profiles' \in StoredProfiles, user' \in [default: Default, auto: BOOLEAN],
             page' \in PageRecord, psaves' \subseteq ProfileChange
      PROVE  ProfilesIInv'
  BY <1>1 DEF ProfilesIInv, PageRecord, ProfileChange
<1>2. PageFresh \in PageRecord
  BY <1>0 DEF PageFresh, PageRecord
<1>3. PageAsked(page) \in PageRecord
  <2>1. page.asked \in Nat
    BY <1>0 DEF PageRecord
  <2>2. PICK n \in Nat : n = page.asked + 1
    BY <2>1
  <2>3. PageAsked(page) = [page EXCEPT !.asked = n, !.loading = TRUE]
    BY <2>2 DEF PageAsked
  <2> QED BY <1>0, <2>3 DEF PageRecord
<1>4. ASSUME UNCHANGED <<profiles, user, psaves>>, page' \in PageRecord PROVE ProfilesIInv'
  BY <1>0, <1>1, <1>4
<1>5. CASE SelectTab \/ AutoLogout
  <2>1. /\ profiles' = profiles /\ user' = user /\ page' = PageFresh
        /\ psaves' = {[s EXCEPT !.here = FALSE] : s \in psaves}
    BY <1>5 DEF SelectTab, AutoLogout, TabOpened
  <2>2. psaves' \subseteq ProfileChange
    BY <1>0, <2>1 DEF ProfileChange
  <2> QED BY <1>0, <1>1, <1>2, <2>1, <2>2
<1>6. CASE GateStep \/ SignIn \/ SummaryTab \/ KeysTab \/ LlmTab \/ AccountTab
  BY <1>0, <1>4, <1>6 DEF GateStep, SignIn, SummaryTab, KeysTab, LlmTab, AccountTab, profileVars
<1>7. CASE TokenRenewed
  BY <1>0, <1>3, <1>4, <1>7 DEF TokenRenewed, ProfileTokenRenewed
<1>8. CASE LoadPage
  <2>1. page.asked - 1 \in Nat
    <3>1. page.asked \in Nat
      BY <1>0 DEF PageRecord
    <3>2. page.asked > 0
      BY <1>8 DEF LoadPage
    <3> QED BY <3>1, <3>2
  <2>2. \A d \in UserDefault : d \in Default
    BY <1>0 DEF UserDefault
  <2>3. page' \in PageRecord
    <3>1. CASE page' = [page EXCEPT !.asked = page.asked - 1, !.loading = FALSE]
      BY <1>0, <2>1, <3>1 DEF PageRecord
    <3>2. ASSUME NEW d \in UserDefault,
                 page' = [page EXCEPT !.asked = page.asked - 1, !.loading = FALSE,
                                      !.known = DOMAIN profiles, !.default = d]
          PROVE  page' \in PageRecord
      BY <1>0, <2>1, <2>2, <3>2 DEF PageRecord
    <3> QED BY <1>8, <3>1, <3>2 DEF LoadPage
  <2> QED BY <1>4, <1>8, <2>3 DEF LoadPage
<1>9. CASE LoadSettings
  <2>1. PICK auto \in {user.auto, page.auto} : page' = [page EXCEPT !.settings = TRUE, !.auto = auto]
    BY <1>9 DEF LoadSettings
  <2>2. auto \in BOOLEAN
    BY <1>0, <2>1 DEF PageRecord
  <2>3. page' \in PageRecord
    BY <1>0, <2>1, <2>2 DEF PageRecord
  <2> QED BY <1>4, <1>9, <2>3 DEF LoadSettings
<1>10. ASSUME NEW kind \in {"profile", "default", "auto"}, NEW of \in Default, NEW params \in Params,
              NEW auto \in BOOLEAN, SendProfile(kind, of, params, auto),
              UNCHANGED <<profiles, user, page>>
       PROVE  ProfilesIInv'
  <2>1. PICK s : s = [kind |-> kind, of |-> of, params |-> params, auto |-> auto, here |-> TRUE]
    OBVIOUS
  <2>2. s \in ProfileChange /\ psaves' = psaves \cup {s}
    BY <1>10, <2>1 DEF ProfileChange, SendProfile
  <2> QED BY <1>0, <1>1, <1>10, <2>2
<1>11. CASE ToggleAuto
  <2>1. PICK auto \in BOOLEAN : auto = ~page.auto
    OBVIOUS
  <2>2. SendProfile("auto", NewProfile, DefaultParams, auto) /\ UNCHANGED <<profiles, user, page>>
    BY <1>11, <2>1 DEF ToggleAuto
  <2> QED BY <1>0, <1>10, <2>2
<1>12. ASSUME NEW p \in ProfileIds, ChooseDefault(p) PROVE ProfilesIInv'
  <2>1. SendProfile("default", p, DefaultParams, FALSE) /\ UNCHANGED <<profiles, user, page>>
    BY <1>12 DEF ChooseDefault
  <2> QED BY <1>0, <1>10, <2>1
<1>13. CASE SubmitProfile
  <2>1. SendProfile("profile", page.of, config.params, FALSE) /\ UNCHANGED <<profiles, user, page>>
    BY <1>13 DEF SubmitProfile
  <2>2. page.of \in Default
    BY <1>0 DEF PageRecord
  <2> QED BY <1>0, <1>10, <2>1, <2>2
<1>14. ASSUME NEW of \in Default, NEW params, NEW named \in BOOLEAN, OpenForm(of, params, named)
       PROVE  ProfilesIInv'
  <2>1. page' = [page EXCEPT !.open = TRUE, !.of = of, !.named = named]
    BY <1>14 DEF OpenForm
  <2>2. page' \in PageRecord
    BY <1>0, <2>1 DEF PageRecord
  <2> QED BY <1>4, <1>14, <2>2 DEF OpenForm
<1>15. CASE CreateProfile \/ \E p \in ProfileIds : EditProfile(p)
  BY <1>0, <1>14, <1>15 DEF CreateProfile, EditProfile
<1>16. CASE CloseForm
  <2>1. page' = [page EXCEPT !.open = FALSE, !.of = NewProfile, !.named = FALSE]
    BY <1>16 DEF CloseForm, FormClosed
  <2>2. page' \in PageRecord
    BY <1>0, <2>1 DEF PageRecord
  <2> QED BY <1>4, <1>16, <2>2 DEF CloseForm
<1>17. CASE EditForm
  <2>1. PICK named \in BOOLEAN : named = ~page.named
    OBVIOUS
  <2>2. page' = page \/ page' = [page EXCEPT !.named = named]
    BY <1>17, <2>1 DEF EditForm
  <2>3. page' \in PageRecord
    BY <1>0, <2>2 DEF PageRecord
  <2> QED BY <1>4, <1>17, <2>3 DEF EditForm
<1>18. CASE ProfileRows \/ \E p \in ProfileIds : DeleteProfile(p)
  BY <1>0, <1>4, <1>18 DEF ProfileRows, DeleteProfile
<1>19. ASSUME NEW d \in deletions, NEW ok \in BOOLEAN, ProfileDeleted(d, ok) PROVE ProfilesIInv'
  <2>1. [p \in DOMAIN profiles \ {d.id} |-> profiles[p]] \in StoredProfiles
    BY <1>0, StoredProfilesFacts, Zenon
  <2> QED BY <1>0, <1>1, <1>3, <1>19, <2>1 DEF ProfileDeleted
<1>20. ASSUME NEW s \in psaves, NEW ok \in BOOLEAN, ProfileAnswered(s, ok) PROVE ProfilesIInv'
  <2>1. s \in ProfileChange /\ psaves' \subseteq ProfileChange
    BY <1>0, <1>20 DEF ProfileAnswered
  <2>2. /\ [user EXCEPT !.default = s.of] \in [default: Default, auto: BOOLEAN]
        /\ [user EXCEPT !.auto = s.auto] \in [default: Default, auto: BOOLEAN]
    BY <1>0, <2>1 DEF ProfileChange
  <2>3. profiles' \in StoredProfiles /\ user' \in [default: Default, auto: BOOLEAN]
    <3>1. PICK o \in Outcomes(s) \cup (IF ok THEN {} ELSE {<<profiles, user>>}) :
            profiles' = o[1] /\ user' = o[2]
      BY <1>20 DEF ProfileAnswered
    <3>2. CASE o = <<profiles, user>>
      BY <1>0, <3>1, <3>2
    <3>3. CASE s.kind = "profile" /\ o \in Outcomes(s)
      <4>1. PICK ps \in SavedProfiles(s) : o = <<ps, user>>
        BY <3>3 DEF Outcomes
      <4>2. ps \in StoredProfiles
        BY <1>0, <2>1, SavedProfilesStored
      <4> QED BY <1>0, <3>1, <4>1, <4>2
    <3>4. CASE s.kind = "default" /\ o \in Outcomes(s)
      <4>1. o = <<profiles, [user EXCEPT !.default = s.of]>>
        BY <3>4 DEF Outcomes
      <4> QED BY <1>0, <2>2, <3>1, <4>1
    <3>5. CASE s.kind \notin {"profile", "default"} /\ o \in Outcomes(s)
      <4>1. o = <<profiles, [user EXCEPT !.auto = s.auto]>>
        BY <3>5 DEF Outcomes
      <4> QED BY <1>0, <2>2, <3>1, <4>1
    <3> QED BY <3>1, <3>2, <3>3, <3>4, <3>5
  <2>4. page' \in PageRecord
    <3>1. CASE ~ok \/ ~s.here
      BY <1>0, <1>20, <3>1 DEF ProfileAnswered
    <3>2. CASE ok /\ s.here /\ s.kind = "profile"
      <4>1. page' = [PageAsked(page) EXCEPT !.open = FALSE, !.of = NewProfile, !.named = FALSE]
        BY <1>20, <3>2 DEF ProfileAnswered
      <4> QED BY <1>0, <1>3, <4>1 DEF PageRecord
    <3>3. CASE ok /\ s.here /\ s.kind = "default"
      <4>1. page' = [page EXCEPT !.default = s.of]
        BY <1>20, <3>3 DEF ProfileAnswered
      <4> QED BY <1>0, <2>1, <4>1 DEF PageRecord, ProfileChange
    <3>4. CASE ok /\ s.here /\ s.kind = "auto"
      <4>1. page' = [page EXCEPT !.auto = s.auto]
        BY <1>20, <3>4 DEF ProfileAnswered
      <4> QED BY <1>0, <2>1, <4>1 DEF PageRecord, ProfileChange
    <3> QED BY <2>1, <3>1, <3>2, <3>3, <3>4 DEF ProfileChange
  <2> QED BY <1>1, <2>1, <2>3, <2>4
<1> QED BY <1>5, <1>6, <1>7, <1>8, <1>9, <1>11, <1>12, <1>13, <1>15, <1>16, <1>17, <1>18, <1>19, <1>20
    DEF SettingsNext, SettingsStep, ProfilesTab, ProfileStep

LEMMA AccountTypeStep ==
  ASSUME AccountType, SettingsNext
  PROVE  AccountType'
<1>0. /\ account \in [complete: SUBSET Forms, locked: BOOLEAN]
      /\ changes \subseteq [form: Forms, here: BOOLEAN] /\ signed \in BOOLEAN /\ signout \in BOOLEAN
  BY DEF AccountType
<1>1. ASSUME account' \in [complete: SUBSET Forms, locked: BOOLEAN],
             changes' \subseteq [form: Forms, here: BOOLEAN], signed' \in BOOLEAN, signout' \in BOOLEAN
      PROVE  AccountType'
  BY <1>1 DEF AccountType
<1>2. CASE SelectTab \/ AutoLogout
  <2>1. /\ account' = AccountFresh /\ changes' = {[c EXCEPT !.here = FALSE] : c \in changes}
        /\ signed' \in BOOLEAN /\ signout' \in BOOLEAN
    BY <1>0, <1>2 DEF SelectTab, AutoLogout, TabOpened
  <2> QED BY <1>0, <1>1, <2>1 DEF AccountFresh
<1>3. CASE GateStep \/ TokenRenewed \/ SignIn \/ SummaryTab \/ KeysTab \/ LlmTab \/ ProfilesTab
  BY <1>0, <1>1, <1>3 DEF GateStep, TokenRenewed, SignIn, SummaryTab, KeysTab, LlmTab, ProfilesTab,
     accountVars
<1>4. ASSUME NEW f \in Forms, FillForm(f) \/ SendForm(f) PROVE AccountType'
  <2>1. CASE FillForm(f)
    BY <1>0, <1>1, <2>1 DEF FillForm
  <2>2. CASE SendForm(f)
    <3>1. PICK c : c = [form |-> f, here |-> TRUE]
      OBVIOUS
    <3>2. c \in [form: Forms, here: BOOLEAN] /\ changes' = changes \cup {c}
      BY <2>2, <3>1 DEF SendForm
    <3> QED BY <1>0, <1>1, <2>2, <3>2 DEF SendForm
  <2> QED BY <1>4, <2>1, <2>2
<1>5. ASSUME NEW c \in changes, NEW ok \in BOOLEAN, AccountAnswered(c, ok) PROVE AccountType'
  <2>1. account' \in [complete: SUBSET Forms, locked: BOOLEAN]
    <3>1. PICK complete \in SUBSET Forms :
            complete = IF ok THEN account.complete \ {c.form} ELSE account.complete
      BY <1>0
    <3>2. account' = account \/ account' = [account EXCEPT !.locked = FALSE, !.complete = complete]
      BY <1>5, <3>1 DEF AccountAnswered
    <3> QED BY <1>0, <3>2
  <2>2. signout' \in BOOLEAN
    BY <1>5 DEF AccountAnswered
  <2> QED BY <1>0, <1>1, <1>5, <2>1, <2>2 DEF AccountAnswered
<1> QED BY <1>2, <1>3, <1>4, <1>5 DEF SettingsNext, SettingsStep, AccountTab, AccountStep

LEMMA TabStep ==
  ASSUME TabIInv, SettingsNext
  PROVE  TabIInv'
<1>0. /\ tab \in Tabs /\ visits \in 0..MaxVisits /\ work \in 0..MaxWork /\ gate \in BOOLEAN
      /\ MaxVisits \in Nat /\ MaxWork \in Nat
  BY SettingsAssumption DEF TabIInv
<1>1. work' \in 0..MaxWork
  BY <1>0 DEF SettingsNext, Counted
<1>2. ASSUME tab' \in Tabs, visits' \in 0..MaxVisits, gate' \in BOOLEAN PROVE TabIInv'
  BY <1>1, <1>2 DEF TabIInv
<1>3. CASE SelectTab
  <2>1. visits' \in 0..MaxVisits
    BY <1>0, <1>3 DEF SelectTab
  <2> QED BY <1>2, <1>3, <2>1 DEF SelectTab, TabOpened
<1>4. CASE GateStep \/ TokenRenewed \/ AutoLogout
  BY <1>0, <1>2, <1>4 DEF GateStep, TokenRenewed, AutoLogout, TabOpened
<1>5. CASE SignIn \/ SummaryTab \/ KeysTab \/ LlmTab \/ ProfilesTab \/ AccountTab
  BY <1>0, <1>2, <1>5 DEF SignIn, SummaryTab, KeysTab, LlmTab, ProfilesTab, AccountTab, tabVars
<1> QED BY <1>3, <1>4, <1>5 DEF SettingsNext, SettingsStep

\* A request is sent where there is room for one more; it counts as one until
\* its answer has arrived.
LEMMA LoadsStayBounded ==
  ASSUME NEW t, Shaped(t), LoadsBounded(t)
  PROVE  /\ \A hide : CanAsk(t) => LoadsBounded(Asked(t, hide))
         /\ \A store : \A u \in Read(t, store) : LoadsBounded(u)
         /\ \A other : \A u \in Arrived(t, other) : LoadsBounded(u)
         /\ LoadsBounded(TableFresh)
<1>0. /\ t.asked \in Nat /\ IsFiniteSet(t.read) /\ Cardinality(t.read) \in Nat
      /\ t.asked + Cardinality(t.read) <= MaxReads /\ MaxReads \in Nat /\ MaxReads >= 1
  BY FS_CardinalityType, TableAssumption DEF LoadsBounded, Loads
<1>1. ASSUME NEW hide, CanAsk(t) PROVE LoadsBounded(Asked(t, hide))
  <2>1. PICK u : u = Asked(t, hide)
    OBVIOUS
  <2>2. u = [rows |-> t.rows, loading |-> (t.loading \/ hide), asked |-> t.asked + 1, read |-> t.read]
    BY <2>1 DEF Asked, Shaped
  <2>3. u.asked = t.asked + 1 /\ u.read = t.read
    BY <2>2
  <2> QED BY <1>0, <1>1, <2>1, <2>3 DEF LoadsBounded, Loads, CanAsk
<1>2. ASSUME NEW store, NEW u \in Read(t, store) PROVE LoadsBounded(u)
  <2>1. /\ u = [rows |-> t.rows, loading |-> t.loading, asked |-> t.asked - 1,
                read |-> t.read \cup {store}]
        /\ 1 <= t.asked
    <3>1. PICK i \in 1..t.asked : u = [t EXCEPT !.asked = t.asked - 1, !.read = t.read \cup {store}]
      BY <1>2, Zenon DEF Read
    <3>2. 1 <= t.asked
      BY <1>0, <3>1
    <3>3. u = [rows |-> t.rows, loading |-> t.loading, asked |-> t.asked - 1,
               read |-> t.read \cup {store}]
      BY <3>1 DEF Shaped
    <3> QED BY <3>2, <3>3
  <2>2. u.asked = t.asked - 1 /\ u.read = t.read \cup {store}
    BY <2>1
  <2>3. /\ IsFiniteSet(t.read \cup {store})
        /\ Cardinality(t.read \cup {store}) =
             IF store \in t.read THEN Cardinality(t.read) ELSE Cardinality(t.read) + 1
    BY <1>0, FS_AddElement
  <2> QED BY <1>0, <2>1, <2>2, <2>3 DEF LoadsBounded, Loads
<1>3. ASSUME NEW other, NEW u \in Arrived(t, other) PROVE LoadsBounded(u)
  <2>1. CASE \E rows \in t.read :
               u = [t EXCEPT !.rows = rows, !.read = t.read \ {rows}, !.loading = FALSE]
    <3>1. PICK rows \in t.read :
            u = [t EXCEPT !.rows = rows, !.read = t.read \ {rows}, !.loading = FALSE]
      BY <2>1, Zenon
    <3>2. u = [rows |-> rows, loading |-> FALSE, asked |-> t.asked, read |-> t.read \ {rows}]
      BY <3>1 DEF Shaped
    <3>3. u.asked = t.asked /\ u.read = t.read \ {rows}
      BY <3>2
    <3>4. IsFiniteSet(t.read \ {rows}) /\ Cardinality(t.read \ {rows}) = Cardinality(t.read) - 1
      BY <1>0, FS_RemoveElement
    <3> QED BY <1>0, <3>3, <3>4 DEF LoadsBounded, Loads
  <2>2. CASE \E i \in 1..t.asked :
               u = [t EXCEPT !.rows = other, !.asked = t.asked - 1, !.loading = FALSE]
    <3>1. u = [rows |-> other, loading |-> FALSE, asked |-> t.asked - 1, read |-> t.read]
          /\ 1 <= t.asked
      <4>1. PICK i \in 1..t.asked :
              u = [t EXCEPT !.rows = other, !.asked = t.asked - 1, !.loading = FALSE]
        BY <2>2, Zenon
      <4>2. 1 <= t.asked
        BY <1>0, <4>1
      <4>3. u = [rows |-> other, loading |-> FALSE, asked |-> t.asked - 1, read |-> t.read]
        BY <4>1 DEF Shaped
      <4> QED BY <4>2, <4>3
    <3>2. u.asked = t.asked - 1 /\ u.read = t.read
      BY <3>1
    <3> QED BY <1>0, <3>1, <3>2 DEF LoadsBounded, Loads
  <2> QED BY <1>3, <2>1, <2>2, Zenon DEF Arrived
<1>4. LoadsBounded(TableFresh)
  BY <1>0, FS_EmptySet DEF LoadsBounded, Loads, TableFresh
<1> QED BY <1>1, <1>2, <1>3, <1>4

LEMMA LoadsStep ==
  ASSUME RowsAreOfTheTab, LoadsBounded(table), SettingsNext
  PROVE  LoadsBounded(table')
<1>0. Shaped(table)
  BY DEF RowsAreOfTheTab
<1>1. ASSUME \/ table' = table \/ table' = TableFresh
             \/ \E store, other : table' \in Read(table, store) \cup Arrived(table, other)
             \/ CanAsk(table) /\ \E hide : table' = Asked(table, hide)
      PROVE  LoadsBounded(table')
  BY <1>0, <1>1, LoadsStayBounded
<1>2. CASE SelectTab \/ AutoLogout
  BY <1>1, <1>2 DEF SelectTab, AutoLogout, TabOpened
<1>3. CASE GateStep \/ SignIn \/ LlmTab \/ AccountTab
  BY <1>1, <1>3 DEF GateStep, SignIn, LlmTab, AccountTab, tableVars
<1>4. CASE TokenRenewed
  BY <1>1, <1>4 DEF TokenRenewed
<1>5. CASE NewTemplate \/ TypeDraft \/ ModelsArrive \/ CancelEditor \/ SaveTemplate
           \/ \E t \in Templates : EditTemplate(t) \/ DeleteTemplate(t)
  <2>1. table' = table
    BY <1>5, Zenon DEF NewTemplate, TypeDraft, ModelsArrive, CancelEditor, SaveTemplate,
       EditTemplate, DeleteTemplate
  <2> QED BY <1>1, <2>1
<1>6. CASE TemplateRows \/ KeyRows \/ ProfileRows
  BY <1>1, <1>6 DEF TemplateRows, KeyRows, ProfileRows
<1>7. ASSUME NEW ok \in BOOLEAN, SaveAnswered(ok) PROVE LoadsBounded(table')
  BY <1>1, <1>7 DEF SaveAnswered
<1>8. ASSUME NEW d \in deletions, NEW ok \in BOOLEAN, TemplateDeleted(d, ok)
      PROVE  LoadsBounded(table')
  <2>1. PICK rows : table' = table \/ table' = [table EXCEPT !.rows = rows]
    BY <1>8 DEF TemplateDeleted
  <2>2. table'.asked = table.asked /\ table'.read = table.read
    <3>1. CASE table' = [table EXCEPT !.rows = rows]
      <4>1. table' = [rows |-> rows, loading |-> table.loading, asked |-> table.asked,
                      read |-> table.read]
        BY <1>0, <3>1 DEF Shaped
      <4> QED BY <4>1
    <3> QED BY <2>1, <3>1
  <2> QED BY <2>2 DEF LoadsBounded, Loads
<1>9. CASE SummaryTab
  BY <1>5, <1>6, <1>7, <1>8, <1>9 DEF SummaryTab, TemplateStep
<1>10. ASSUME NEW d \in deletions, NEW ok \in BOOLEAN, KeyDeleted(d, ok) \/ ProfileDeleted(d, ok)
       PROVE  LoadsBounded(table')
  BY <1>1, <1>10 DEF KeyDeleted, ProfileDeleted, PageCanAsk
<1>11. ASSUME NEW c \in creating, KeyFailed(c) \/ \E k \in Keys : KeyCreated(c, k)
       PROVE  LoadsBounded(table')
  BY <1>1, <1>11 DEF KeyFailed, KeyCreated
<1>12. CASE KeysTab
  <2>1. CASE KeyStep /\ ~KeyRows
    <3>1. table' = table
      BY <2>1 DEF KeyStep, OpenKeyForm, NameKey, CancelKey, SubmitKey, CopyKey, DismissKey, DeleteKey
    <3> QED BY <1>1, <3>1
  <2> QED BY <1>6, <1>10, <1>11, <1>12, <2>1 DEF KeysTab
<1>13. CASE LoadPage \/ LoadSettings \/ ToggleAuto \/ CreateProfile \/ CloseForm \/ EditForm
            \/ SubmitProfile
            \/ \E p \in ProfileIds : ChooseDefault(p) \/ EditProfile(p) \/ DeleteProfile(p)
  <2>1. table' = table
    BY <1>13, Zenon DEF LoadPage, LoadSettings, ToggleAuto, CreateProfile, CloseForm, EditForm,
       SubmitProfile, ChooseDefault, EditProfile, DeleteProfile, OpenForm
  <2> QED BY <1>1, <2>1
<1>14. ASSUME NEW s \in psaves, NEW ok \in BOOLEAN, ProfileAnswered(s, ok) PROVE LoadsBounded(table')
  <2>1. CASE s.kind = "profile" /\ s.here /\ ok
    BY <1>1, <1>14, <2>1 DEF ProfileAnswered, PageCanAsk
  <2>2. CASE ~(s.kind = "profile" /\ s.here /\ ok)
    BY <1>1, <1>14, <2>2 DEF ProfileAnswered
  <2> QED BY <2>1, <2>2
<1>15. CASE ProfilesTab
  BY <1>6, <1>10, <1>13, <1>14, <1>15 DEF ProfilesTab, ProfileStep
<1> QED BY <1>2, <1>3, <1>4, <1>9, <1>12, <1>15 DEF SettingsNext, SettingsStep

LEMMA SettingsTypeInit ==
  ASSUME WebInit
  PROVE  SettingsTypeIInv
<1>1. view = "settings" => SettingsInit
  BY DEF WebInit
<1> SUFFICES ASSUME SettingsInit
             PROVE  /\ TemplatesIInv /\ StoredKeysIInv /\ LlmType /\ ProfilesIInv /\ AccountType
                    /\ TabIInv /\ LoadsBounded(table)
  BY <1>1 DEF SettingsTypeIInv
<1>2. TemplatesIInv
  BY StoresFacts DEF SettingsInit, TemplateInit, TemplatesIInv, EditorFresh
<1>3. StoredKeysIInv
  BY DEF SettingsInit, KeyInit, StoredKeysIInv
<1>4. LlmType
  BY DEF SettingsInit, LlmInit, LlmType, LlmFormFresh, Providers
<1>5. profiles \in StoredProfiles
  <2>1. Foreign \in Params /\ DefaultParams \in Params
    <3>1. Foreign = [DefaultParams EXCEPT !.multi = TRUE, !.diarize = TRUE]
      BY DEF Foreign
    <3> QED BY <3>1, DefaultsFit DEF Params
  <2>2. profiles = <<>> \/ \E p \in ProfileIds : profiles \in [{p} -> {DefaultParams, Foreign}]
    BY DEF SettingsInit, ProfileInit
  <2>3. ASSUME NEW p \in ProfileIds, profiles \in [{p} -> {DefaultParams, Foreign}]
        PROVE  profiles \in StoredProfiles
    <3>1. profiles \in [{p} -> Params]
      BY <2>1, <2>3
    <3>2. {p} \in SUBSET ProfileIds
      OBVIOUS
    <3> QED BY <3>1, <3>2, Zenon DEF StoredProfiles
  <2> QED BY <2>2, <2>3, StoredProfilesFacts
<1>6. ProfilesIInv
  BY <1>5 DEF SettingsInit, ProfileInit, ProfilesIInv, Default, PageFresh, PageRecord
<1>7. AccountType
  BY DEF SettingsInit, AccountInit, AccountType, AccountFresh
<1>8. TabIInv
  BY SettingsAssumption DEF SettingsInit, TabIInv, Tabs
<1>9. LoadsBounded(table)
  <2>1. table = [rows |-> NoRows, loading |-> TRUE, asked |-> 1, read |-> {}]
    BY DEF SettingsInit, TableInit, TableFresh
  <2>2. table.asked = 1 /\ table.read = {}
    BY <2>1
  <2> QED BY <2>2, FS_EmptySet, TableAssumption DEF LoadsBounded, Loads
<1> QED BY <1>2, <1>3, <1>4, <1>6, <1>7, <1>8, <1>9

LEMMA SettingsTypeStep ==
  ASSUME SettingsIInv, SettingsTypeIInv, [WebNext]_webVars
  PROVE  SettingsTypeIInv'
<1>1. view' = view /\ (view # "settings" \/ SettingsNext \/ UNCHANGED settingsVars)
  BY DEF WebNext, AddView, SessionView, ListView, SettingsView, ChatView, webVars
<1>2. CASE view = "settings" /\ SettingsNext
  <2>1. RowsAreOfTheTab /\ ChangesFit /\ EditorIInv
    BY <1>2 DEF SettingsIInv
  <2>2. /\ TemplatesIInv /\ StoredKeysIInv /\ LlmType /\ ProfilesIInv /\ AccountType
        /\ TabIInv /\ LoadsBounded(table)
    BY <1>2 DEF SettingsTypeIInv
  <2>3. /\ TemplatesIInv' /\ StoredKeysIInv' /\ LlmType' /\ ProfilesIInv' /\ AccountType' /\ TabIInv'
    BY <1>2, <2>1, <2>2, TemplatesStep, StoredKeysStep, LlmTypeStep, ProfilesStep, AccountTypeStep,
       TabStep
  <2>4. LoadsBounded(table')
    BY <1>2, <2>1, <2>2, LoadsStep
  <2> QED BY <2>3, <2>4 DEF SettingsTypeIInv
<1>3. CASE view = "settings" /\ UNCHANGED settingsVars
  <2>1. UNCHANGED <<templateVars, configured, keys, llmVars, profiles, user, page, psaves,
                    accountVars, table, tabVars, work>>
    BY <1>3 DEF settingsVars, keyVars, profileVars, tableVars
  <2>2. (TemplatesIInv => TemplatesIInv') /\ (StoredKeysIInv => StoredKeysIInv')
    BY <2>1 DEF TemplatesIInv, StoredKeysIInv, templateVars
  <2>3. (LlmType => LlmType') /\ (AccountType => AccountType')
    BY <2>1 DEF LlmType, AccountType, llmVars, accountVars
  <2>4. (ProfilesIInv => ProfilesIInv') /\ (TabIInv => TabIInv')
    BY <2>1 DEF ProfilesIInv, TabIInv, tabVars
  <2>5. table' = table
    BY <2>1
  <2> QED BY <1>3, <2>2, <2>3, <2>4, <2>5 DEF SettingsTypeIInv
<1> QED BY <1>1, <1>2, <1>3 DEF SettingsTypeIInv

LEMMA SettingsTypeHolds == SettingsIInv /\ SettingsTypeIInv => (view = "settings" => SettingsType)
<1> SUFFICES ASSUME SettingsIInv, SettingsTypeIInv, view = "settings" PROVE SettingsType
  OBVIOUS
<1>1. EditorIInv /\ KeysIInv /\ ChangesFit
  BY DEF SettingsIInv
<1>2. /\ TemplatesIInv /\ StoredKeysIInv /\ LlmType /\ ProfilesIInv /\ AccountType
      /\ TabIInv /\ LoadsBounded(table)
  BY DEF SettingsTypeIInv
<1>3. TemplateType
  BY <1>1, <1>2 DEF TemplatesIInv, EditorIInv, EditorRecord, SaveRecord, TemplateType
<1>4. KeyType
  BY <1>1, <1>2 DEF StoredKeysIInv, KeysIInv, KeyType
<1>5. ProfileType
  <2>1. page.of \in Default /\ page.known \subseteq ProfileIds /\ page.default \in Default
    BY <1>2 DEF ProfilesIInv, PageRecord
  <2>2. \A s \in psaves : s.kind \in {"profile", "default", "auto"} /\ s.of \in Default
    BY <1>2 DEF ProfilesIInv, ProfileChange
  <2> QED BY <1>1, <1>2, <2>1, <2>2 DEF ProfilesIInv, ProfileType, ChangesFit, Fits
<1> QED BY <1>2, <1>3, <1>4, <1>5 DEF SettingsType, TabIInv, LoadsBounded
-----------------------------------------------------------------------------
(***************************************************************************)
(* The parts together.                                                     *)
(***************************************************************************)
Views == {"add", "session", "list", "settings", "chat"}

LEMMA ViewStays ==
  /\ WebInit => view \in Views
  /\ view \in Views /\ [WebNext]_webVars => (view \in Views)'
<1>1. WebInit => view \in Views
  BY DEF WebInit, Views
<1>2. [WebNext]_webVars => view' = view
  BY DEF WebNext, AddView, SessionView, ListView, SettingsView, ChatView, webVars
<1> QED BY <1>1, <1>2

LEMMA AddTypeHolds == AddIInv /\ AddTypeIInv => (view = "add" => AddType)
<1>1. UpIInv => UpTypeOK
  BY DEF UpIInv, UpTypeOK, UpRecord, Batch
<1> QED BY <1>1 DEF AddIInv, AddTypeIInv, AddType, SysIInv, MicIInv, QuickIInv

\* Every part keeps the shape its components give its state, for any number of
\* batches, jobs, profiles, templates, keys, chats and requests.
THEOREM TypeCorrect == WebSpec => []WebType
<1> DEFINE Inv == /\ AddIInv /\ SessIInv /\ ListIInv /\ SettingsIInv /\ ChatIInv
                  /\ AddTypeIInv /\ ListTypeIInv /\ SettingsTypeIInv /\ ChatTypeIInv
                  /\ view \in Views
<1>1. WebInit => Inv
  <2> SUFFICES ASSUME WebInit PROVE Inv
    OBVIOUS
  <2>1. AddIInv /\ SessIInv
    BY SysInitIInv, MicInitIInv, QuickInitIInv, SessionInitIInv DEF WebInit, AddInit, AddIInv
  <2>2. ListIInv /\ SettingsIInv /\ ChatIInv
    BY ListInitIInv, SettingsInitIInv, ChatInitIInv
  <2>3. AddTypeIInv /\ ListTypeIInv /\ SettingsTypeIInv /\ ChatTypeIInv
    BY AddTypeInit, ListTypeInit, SettingsTypeInit, ChatTypeInit
  <2> QED BY <2>1, <2>2, <2>3, ViewStays
<1>2. Inv /\ [WebNext]_webVars => Inv'
  <2> SUFFICES ASSUME Inv, [WebNext]_webVars PROVE Inv'
    OBVIOUS
  <2>1. AddIInv' /\ SessIInv'
    BY WebStepAdd, WebStepSession
  <2>2. ListIInv' /\ SettingsIInv' /\ ChatIInv'
    BY WebStepList, WebStepSettings, WebStepChat
  <2>3. AddTypeIInv' /\ ListTypeIInv' /\ SettingsTypeIInv' /\ ChatTypeIInv'
    BY AddTypeStep, ListTypeStep, SettingsTypeStep, ChatTypeStep
  <2> QED BY <2>1, <2>2, <2>3, ViewStays
<1>3. Inv => WebType
  <2> SUFFICES ASSUME Inv PROVE WebType
    OBVIOUS
  <2>1. view = "session" => SessionType
    BY DEF SessIInv
  <2>2. /\ view = "add" => AddType
        /\ view = "list" => ListType
        /\ view = "settings" => SettingsType
        /\ view = "chat" => ChatType
    BY AddTypeHolds, ListTypeHolds, SettingsTypeHolds, ChatTypeHolds
  <2> QED BY <2>1, <2>2 DEF WebType, Views
<1> QED BY <1>1, <1>2, <1>3, PTL DEF WebSpec
=============================================================================
