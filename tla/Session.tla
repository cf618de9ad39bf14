------------------------------ MODULE Session ------------------------------
(***************************************************************************)
(* The browser's session with the retained service: the store of the token *)
(* (authStore.ts), the refresh that concurrent failures share and the      *)
(* timer that asks for it ahead of time (authHelpers.ts), the wrapper of   *)
(* fetch (authInterceptor.ts), the route guard and the sign-in forms.      *)
(* A version counts every change of the token; whatever was awaited checks *)
(* it before it touches the session.                                       *)
(***************************************************************************)
EXTENDS Naturals, FiniteSets

CONSTANTS Requests,     \* fetches of the pages under way at one time
          Timer,        \* checkExpiry(), which waits for a refresh like them
          MaxVersion    \* bound: changes of the token

ASSUME SessionAssumption == Timer \notin Requests /\ MaxVersion \in Nat

VARIABLES
  auth,       \* the store: whether there is a token, its version, ...
  given,      \* the tokens that the pages of the tab were rendered with
  req,        \* the fetches and the timer
  flight,     \* the refresh under way, with the version it was begun at
  form,       \* the sign-in or registration form
  login,      \* history: logins so far, the session of the token
  spent       \* history: versions whose requests began a refresh

sessionVars == <<auth, given, req, flight, form, login, spent>>

NoFlight == MaxVersion + 1
Versions == 0..MaxVersion
Callers == Requests \cup {Timer}
EmptyForm == [complete |-> FALSE, busy |-> FALSE, error |-> FALSE]
\* A token is known by the version that it began, and its login.
Tokens == [version: Versions, login: Versions]
Idle == [at |-> "idle", token |-> [version |-> 0, login |-> 0], version |-> 0, login |-> 0]

SessionType ==
  /\ auth \in [token: BOOLEAN, version: Versions, register: BOOLEAN,
               initialized: BOOLEAN, stored: BOOLEAN, storage: BOOLEAN]
  /\ given \subseteq Tokens
  /\ req \in [Callers -> [at: {"idle", "sent", "waiting", "retried"}, token: Tokens,
                          version: Versions, login: Versions]]
  /\ flight \in Versions \cup {NoFlight}
  /\ form \in [complete: BOOLEAN, busy: BOOLEAN, error: BOOLEAN]
  /\ login \in Versions /\ spent \subseteq Versions

\* storage: whether the browser lets the tab keep the token (safeStorage()).
SessionInit ==
  /\ auth \in {[token |-> FALSE, version |-> 0, register |-> FALSE,
                initialized |-> FALSE, stored |-> FALSE, storage |-> kept] :
                  kept \in BOOLEAN}
  /\ req = [c \in Callers |-> Idle]
  /\ flight = NoFlight
  /\ form = EmptyForm
  /\ given = {} /\ login = 0 /\ spent = {}

----------------------------------------------------------------------------
\* The store: setToken() and logout() with what the tab's storage keeps.
WithToken(a, token) ==
  [a EXCEPT !.token = token, !.version = @ + 1,
            !.stored = token /\ a.storage]
SetToken(a) == [WithToken(a, TRUE) EXCEPT !.register = FALSE]
LogoutLeavesStorage(a) == [a EXCEPT !.token = FALSE, !.version = @ + 1]
LoggedOut(a) == WithToken(a, FALSE)
CanChange == auth.version < MaxVersion
TokenOf(a) == [version |-> a.version, login |-> login]

\* What ProtectedRoute shows.
LoadingScreen == ~auth.initialized
RegisterScreen == auth.initialized /\ auth.register
LoginScreen == auth.initialized /\ ~auth.register /\ ~auth.token
AppScreen == auth.initialized /\ ~auth.register /\ auth.token

\* initializeAuth(): the registration status, or nothing when it fails.
Initialized(register) ==
  /\ ~auth.initialized
  /\ auth' = [auth EXCEPT !.initialized = TRUE, !.register = register]
  /\ UNCHANGED <<given, req, flight, form, login, spent>>

\* The two forms are locked while their request is under way; what is typed
\* satisfies the form, with the password rules of the registration, or not.
LoginForm == LoginScreen /\ ~form.busy
RegisterForm == RegisterScreen /\ ~form.busy

TypeForm ==
  /\ LoginForm \/ RegisterForm
  /\ \E complete \in BOOLEAN : form' = [form EXCEPT !.complete = complete]
  /\ UNCHANGED <<auth, given, req, flight, login, spent>>

SubmitLogin ==
  /\ (LoginForm \/ RegisterForm) /\ form.complete
  /\ form' = [form EXCEPT !.busy = TRUE, !.error = FALSE]
  /\ UNCHANGED <<auth, given, req, flight, login, spent>>

LoginAnswered(ok) ==
  /\ form.busy /\ CanChange
  /\ form' = [form EXCEPT !.busy = FALSE, !.error = ~ok]
  /\ auth' = IF ok THEN SetToken(auth) ELSE auth
  /\ login' = IF ok THEN login + 1 ELSE login
  /\ given' = IF ok THEN given \cup {[version |-> auth.version + 1, login |-> login + 1]}
              ELSE given
  /\ UNCHANGED <<req, flight, spent>>

Logout ==
  /\ AppScreen /\ CanChange
  /\ auth' = LoggedOut(auth)
  /\ UNCHANGED <<given, req, flight, form, login, spent>>

----------------------------------------------------------------------------
\* What the wrapper knows of a fetch: the token in its header, and the version
\* and login of the store when it was sent.
Call(at, token, a) == [at |-> at, token |-> token, version |-> a.version, login |-> login]

\* A page fetches with a token that it was rendered with: a loop over the
\* selected rows goes on with that of its first render, even when the page is
\* gone or the user is.
Fetch(r) ==
  /\ req[r] = Idle
  /\ \E token \in given :
       /\ AppScreen \/ token.version < auth.version
       /\ req' = [req EXCEPT ![r] = Call("sent", token, auth)]
  /\ UNCHANGED <<auth, given, flight, form, login, spent>>

FetchAnswered(r) ==
  /\ req[r].at \in {"sent", "retried"}
  /\ req' = [req EXCEPT ![r] = Idle]
  /\ UNCHANGED <<auth, given, flight, form, login, spent>>

\* logoutIfCurrent(version).
LogoutIfCurrent(a, version) == IF a.version = version THEN LoggedOut(a) ELSE a

\* refreshToken(): join the refresh under way or begin one.
AwaitRefresh(c, entry) ==
  /\ req' = [req EXCEPT ![c] = [entry EXCEPT !.at = "waiting"]]
  /\ flight' = IF flight = NoFlight THEN auth.version ELSE flight
  /\ spent' = IF flight = NoFlight THEN spent \cup {entry.version} ELSE spent

RefreshAnyway(r) ==
  /\ req[r].at = "sent" /\ AwaitRefresh(r, req[r])
  /\ UNCHANGED <<auth, given, form, login>>

\* A 401: with another token in the store by now, try that one; otherwise
\* wait for a refresh.
Unauthorized(r) ==
  /\ req[r].at = "sent"
  /\ IF auth.version = req[r].version THEN AwaitRefresh(r, req[r])
     ELSE /\ req' = [req EXCEPT ![r] =
               IF ~auth.token THEN Idle
               ELSE Call("retried", TokenOf(auth), auth)]
          /\ UNCHANGED <<flight, spent>>
  /\ UNCHANGED <<auth, given, form, login>>

\* checkExpiry(): every minute, for a token about to expire.
CheckExpiry ==
  /\ auth.token /\ req[Timer] = Idle
  /\ AwaitRefresh(Timer, Call("idle", TokenOf(auth), auth))
  /\ UNCHANGED <<auth, given, form, login>>

Waiting == {c \in Callers : req[c].at = "waiting"}

\* The refresh is answered: a login or logout in the meantime owns the
\* session.  Everyone who waited goes on in the same turn, with a token to
\* retry or with the end of the session whose request it was.
RefreshAnswered(ok) ==
  LET own == auth.version = flight
      a == IF own /\ ok THEN SetToken(auth) ELSE auth
      none == ~a.token \/ (own /\ ~ok)
      refused == none /\ \E c \in Waiting : req[c].version = a.version
  IN  /\ flight # NoFlight /\ CanChange
      /\ flight' = NoFlight
      /\ auth' = IF refused THEN LoggedOut(a) ELSE a
      /\ req' = [c \in Callers |->
           IF c \notin Waiting THEN req[c]
           ELSE IF none \/ c = Timer THEN Idle
           ELSE Call("retried", TokenOf(a), a)]
      /\ given' = IF own /\ ok THEN given \cup {TokenOf(a)} ELSE given
      /\ UNCHANGED <<form, login, spent>>

RetryRefusedAlways(r) ==
  /\ req[r].at = "retried" /\ CanChange
  /\ auth' = IF auth.token THEN LoggedOut(auth) ELSE auth
  /\ req' = [req EXCEPT ![r] = Idle]
  /\ UNCHANGED <<given, flight, form, login, spent>>

\* The retry is a 401 too.
RetryRefused(r) ==
  /\ req[r].at = "retried" /\ CanChange
  /\ auth' = LogoutIfCurrent(auth, req[r].version)
  /\ req' = [req EXCEPT ![r] = Idle]
  /\ UNCHANGED <<given, flight, form, login, spent>>

\* The tab is reloaded: the token comes back from its storage.  (The version
\* starts again from 0 in the code; nothing that knew the old one is left.)
Reload ==
  /\ auth' = [auth EXCEPT !.token = auth.stored, !.initialized = FALSE,
                          !.register = FALSE]
  /\ given' = IF auth.stored THEN {TokenOf(auth)} ELSE {}
  /\ req' = [c \in Callers |-> Idle]
  /\ flight' = NoFlight
  /\ form' = EmptyForm
  /\ spent' = {}
  /\ UNCHANGED login

SessionNext ==
  \/ \E register \in BOOLEAN : Initialized(register)
  \/ TypeForm \/ SubmitLogin \/ Logout \/ CheckExpiry \/ Reload
  \/ \E ok \in BOOLEAN : LoginAnswered(ok) \/ RefreshAnswered(ok)
  \/ \E r \in Requests :
       Fetch(r) \/ FetchAnswered(r) \/ Unauthorized(r) \/ RetryRefused(r)

SessionSpec == SessionInit /\ [][SessionNext]_sessionVars

----------------------------------------------------------------------------
\* The token of the fetch was replaced before it was sent.
Outdated(c) == req[c].token.version < req[c].version

\* "Stale failures cannot erase a newer login" (R035): a session ends without
\* its user's wish only when a request with a token of that very session was
\* refused, or one sent during it with a token already replaced, for which the
\* wrapper notes the version of the store and not that of its token.
NewerLoginSurvives ==
  [][auth.token /\ ~auth'.token /\ ~Logout /\ ~Reload =>
       \E c \in Callers :
         /\ req[c].at # "idle" /\ req'[c] = Idle
         /\ req[c].token.login = login \/ (Outdated(c) /\ req[c].login = login)]_sessionVars

\* "Concurrent 401s rotate once": the requests sent under one version of the
\* store never begin two refreshes, whatever tokens they carry and however
\* their failures are spread over time.
RotatesOnce ==
  [][flight = NoFlight /\ flight' # NoFlight =>
       \E c \in Callers : req'[c].at = "waiting" /\ req'[c].version \notin spent]_sessionVars

\* "Logout reliable": a session that has ended does not come back from the
\* storage of the tab.
LogoutLasts == auth.initialized /\ ~auth.token => ~auth.stored

\* And no answer brings it back, unless a loop that outlived it sent its old
\* token to a service that still renews.
EndedForGood ==
  [][~auth.token /\ auth'.token =>
       login' # login \/ \E c \in Callers : req[c].at = "waiting" /\ Outdated(c)]_sessionVars
=============================================================================
