----------------------------- MODULE AuthSession -----------------------------
(***************************************************************************)
(* Who is signed in, in one browser tab: AuthProvider                      *)
(* (apps/frontend/src/components/auth/auth-provider.tsx) with the login    *)
(* form, the protected shell, the API client's access token and handler    *)
(* of 401, and the middleware that guards the pages.                       *)
(*                                                                         *)
(* The Supabase client is external: it keeps the session in cookies that   *)
(* all tabs share, refreshes it, answers calls and signals every change.   *)
(* While it signs out it holds a lock, so no other call of any tab ends.   *)
(*                                                                         *)
(* JavaScript runs one task at a time: an action is a task, and the        *)
(* callbacks of the code are operators on the record tab.  A generation of *)
(* the code is a flag here: raising generationRef makes the requests that  *)
(* are under way no longer current.                                        *)
(***************************************************************************)
EXTENDS Naturals, Sequences, FiniteSets

CONSTANTS
    Accounts,
    MaxSessions,    \* bound on the sessions issued
    MaxRequests,    \* bound on the open API requests
    Budgets         \* how often the outside world may act

Nobody == "nobody"

ASSUME SessionAssumption == MaxSessions \in Nat \ {0} /\ MaxRequests \in Nat /\ Nobody \notin Accounts

VARIABLES
    issued,         \* issued[s]: the account of session s
    stored,         \* the session in the cookies; 0 is none
    expired,        \* sessions whose access token the backend rejects
    inactive,       \* accounts that the backend forbids
    tab,
    budget

world == <<issued, stored, expired, inactive>>
vars == <<world, tab, budget>>

Sessions == 1..MaxSessions
Reasons == {"session_expired", "access_revoked"}

(* A GET /auth/me under way: for which session, who awaits it, and whether *)
(* its generation is still the latest.                                     *)
Hydration == [session : Sessions, by : {"provider", "login"}, current : BOOLEAN]

Tab ==
    [path : {"login", "page"},                          \* a public or a protected page
     going : {"", "page", "login"} \cup Reasons,        \* router.replace under way
     user : Accounts \cup {Nobody},
     token : {0} \cup Sessions,                         \* session, and the API's accessToken
     loading : BOOLEAN,
     error : BOOLEAN,
     ending : BOOLEAN,                                  \* expirationInProgressRef
     leaving : BOOLEAN,                                 \* logoutInProgressRef
     hydrations : SUBSET Hydration,
     calls : SUBSET {"initial", "getSession", "refresh", "signIn", "logout", "terminate"},
     requests : SUBSET Sessions,                        \* the tokens of open API requests
     submitting : BOOLEAN]                              \* the login form

(* Reloads; changes of the session, an account or the time; closes of the  *)
(* socket; calls and requests that fail; acts in the shell.                *)
Budget == [reloads : Nat, outside : Nat, closes : Nat, failures : Nat, shell : Nat]

ASSUME BudgetAssumption == Budgets \subseteq Budget

TypeOK ==
    /\ issued \in Seq(Accounts) /\ Len(issued) <= MaxSessions
    /\ stored \in 0..Len(issued)
    /\ expired \subseteq DOMAIN issued
    /\ inactive \subseteq Accounts
    /\ tab \in Tab
    /\ tab.token \in 0..Len(issued)
    /\ tab.requests \subseteq DOMAIN issued
    /\ \A h \in tab.hydrations : h.session \in DOMAIN issued
    /\ budget \in Budget

(* A page has been loaded: the effect of AuthProvider calls refreshUser,   *)
(* and the subscription will report the initial session.                   *)
Fresh(path) ==
    [path |-> path, going |-> "", user |-> Nobody, token |-> 0, loading |-> TRUE,
     error |-> FALSE, ending |-> FALSE, leaving |-> FALSE, hydrations |-> {},
     calls |-> {"initial", "getSession"}, requests |-> {}, submitting |-> FALSE]

(* middleware: without a session every protected page is the login page.   *)
Routed(path) == IF stored = 0 THEN "login" ELSE path

Init ==
    /\ issued \in {<<>>} \cup {<<a>> : a \in Accounts}
    /\ stored = Len(issued)
    /\ expired = {}
    /\ inactive = {}
    /\ \E path \in {"login", "page"} : tab = Fresh(Routed(path))
    /\ budget \in Budgets

Spend(what) ==
    /\ budget[what] > 0
    /\ budget' = [budget EXCEPT ![what] = @ - 1]

-----------------------------------------------------------------------------
(* The callbacks of AuthProvider.                                          *)

Superseded(hydrations) == {[h EXCEPT !.current = FALSE] : h \in hydrations}

ClearAuth(t) ==
    [t EXCEPT !.token = 0, !.user = Nobody, !.loading = FALSE,
              !.hydrations = Superseded(@)]

RedirectToLogin(t, reason) ==
    IF t.path = "login" THEN t ELSE [t EXCEPT !.going = reason]

TerminateSession(t, reason) ==
    IF t.ending THEN t
    ELSE RedirectToLogin([ClearAuth(t) EXCEPT !.ending = TRUE, !.leaving = TRUE,
                                              !.error = FALSE,
                                              !.calls = @ \cup {"terminate"}],
                         reason)
ExpireSession(t) == TerminateSession(t, "session_expired")
RevokeAccess(t) == TerminateSession(t, "access_revoked")

HydrateSession_Null(t, s, by) ==
    [t EXCEPT !.token = s, !.error = FALSE, !.user = IF s = 0 THEN Nobody ELSE @,
              !.hydrations = Superseded(@) \cup {[session |-> s, by |-> by, current |-> TRUE]}]
HydrateSession(t, s, by) ==
    LET c == [t EXCEPT !.token = s, !.error = FALSE, !.hydrations = Superseded(@)]
    IN IF s = 0 THEN [c EXCEPT !.user = Nobody, !.loading = FALSE]
       ELSE [c EXCEPT !.hydrations = @ \cup {[session |-> s, by |-> by, current |-> TRUE]}]

RefreshUser(t) == [t EXCEPT !.loading = TRUE, !.calls = @ \cup {"getSession"}]

Signalled_Silently(t, s) ==
    IF s # 0 THEN HydrateSession(t, s, "provider") ELSE [ClearAuth(t) EXCEPT !.error = FALSE]
(* The callback of onAuthStateChange; 0 is SIGNED_OUT or no session.       *)
Signalled(t, s) ==
    IF s # 0 THEN HydrateSession(t, s, "provider")
    ELSE LET c == [ClearAuth(t) EXCEPT !.error = FALSE]
         IN IF t.leaving THEN c ELSE RedirectToLogin(c, "session_expired")

(* The effect of the login form.                                           *)
Rendered(t) ==
    IF t.path = "login" /\ t.user # Nobody THEN [t EXCEPT !.going = "page"] ELSE t

(* What is left of login after its hydrateSession, and of the submit that  *)
(* awaits it.                                                              *)
LoginEnds(t, ok) ==
    [t EXCEPT !.submitting = FALSE, !.going = IF ok THEN "page" ELSE @]

-----------------------------------------------------------------------------
(* The Supabase client answers a call, or signals a change.                *)

Ending(call) == call \in tab.calls
Ended(call) == [tab EXCEPT !.calls = @ \ {call}]
SigningOut == tab.calls \cap {"logout", "terminate"} # {}

(* A new session for an account becomes the stored one.                    *)
Issue(a) ==
    /\ Len(issued) < MaxSessions
    /\ issued' = Append(issued, a)
    /\ stored' = Len(issued) + 1
    /\ UNCHANGED <<expired, inactive>>
Forget == stored' = 0 /\ UNCHANGED <<issued, expired, inactive>>

InitialSession ==
    /\ Ending("initial")
    /\ tab' = Signalled(Ended("initial"), stored)
    /\ UNCHANGED <<world, budget>>

(* refreshUser after its getSession.                                       *)
GotSession ==
    /\ Ending("getSession")
    /\ LET t == Ended("getSession")
           h == HydrateSession(t, stored, "provider")
       IN tab' = IF stored = 0 THEN RedirectToLogin(h, "session_expired") ELSE h
    /\ UNCHANGED <<world, budget>>
GetSessionFails ==
    /\ Ending("getSession")
    /\ tab' = RedirectToLogin([ClearAuth(Ended("getSession")) EXCEPT !.error = FALSE],
                              "session_expired")
    /\ Spend("failures")
    /\ UNCHANGED world

(* refreshSession: the client signals the new session before it returns.   *)
Refreshed ==
    /\ Ending("refresh") /\ stored # 0
    /\ Issue(issued[stored])
    /\ tab' = HydrateSession(Signalled(Ended("refresh"), stored'), stored', "provider")
    /\ UNCHANGED budget
RefreshFails ==
    /\ Ending("refresh")
    /\ \/ tab' = ExpireSession(Ended("refresh")) /\ UNCHANGED world
       \/ tab' = ExpireSession(Signalled(Ended("refresh"), 0)) /\ Forget
    /\ Spend("failures")

(* login after its signInWithPassword.                                     *)
SignedIn(a) ==
    /\ Ending("signIn") /\ ~SigningOut
    /\ Issue(a)
    /\ tab' = HydrateSession(Signalled(Ended("signIn"), stored'), stored', "login")
    /\ UNCHANGED budget
SignInFails ==
    /\ Ending("signIn")
    /\ tab' = LoginEnds(Ended("signIn"), FALSE)
    /\ Spend("failures")
    /\ UNCHANGED world

(* The end of terminateSession and of logout; signing out may fail.        *)
SignedOut(call) ==
    /\ Ending(call)
    /\ \E removed \in BOOLEAN :
        LET t == IF removed THEN Signalled(Ended(call), 0) ELSE Ended(call)
        IN /\ IF removed THEN Forget ELSE UNCHANGED world
           /\ tab' = [t EXCEPT !.leaving = FALSE,
                               !.going = IF call = "logout" THEN "login" ELSE @]
    /\ UNCHANGED budget

(* The client refreshes by itself, or another tab signs in.                *)
NewSession(a) ==
    /\ Spend("outside")
    /\ ~SigningOut
    /\ Issue(a)
    /\ tab' = Signalled(tab, stored')
(* Its refresh fails, or another tab signs out.                            *)
SessionRemoved ==
    /\ stored # 0 /\ ~SigningOut
    /\ Spend("outside")
    /\ Forget
    /\ tab' = Signalled(tab, 0)
(* The tab is visible again: SIGNED_IN with the session there is.          *)
Refocused ==
    /\ stored # 0 /\ ~SigningOut
    /\ Spend("outside")
    /\ tab' = Signalled(tab, stored)
    /\ UNCHANGED world

-----------------------------------------------------------------------------
(* The backend.                                                            *)

TokenExpires(s) ==
    /\ s \in DOMAIN issued \ expired
    /\ Spend("outside")
    /\ expired' = expired \cup {s}
    /\ UNCHANGED <<issued, stored, inactive, tab>>
Deactivate(a) ==
    /\ a \notin inactive
    /\ Spend("outside")
    /\ inactive' = inactive \cup {a}
    /\ UNCHANGED <<issued, stored, expired, tab>>

Finished(h) == [tab EXCEPT !.hydrations = @ \ {h}]
Awaited(t, h, ok) == IF h.by = "login" THEN LoginEnds(t, ok) ELSE t

(* hydrateSession after its getCurrentUser, by the answer.                 *)
Hydrated_Anyway(h) ==
    /\ h \in tab.hydrations
    /\ h.session \notin expired /\ issued[h.session] \notin inactive
    /\ tab' = Awaited(Rendered([Finished(h) EXCEPT !.ending = FALSE, !.loading = FALSE,
                                                   !.user = issued[h.session]]), h, TRUE)
    /\ UNCHANGED <<world, budget>>
Hydrated_KeepLatch(h) ==
    /\ h \in tab.hydrations
    /\ h.session \notin expired /\ issued[h.session] \notin inactive
    /\ tab' = IF h.current
              THEN Awaited(Rendered([Finished(h) EXCEPT !.loading = FALSE,
                                                        !.user = issued[h.session]]), h, TRUE)
              ELSE Awaited(Finished(h), h, FALSE)
    /\ UNCHANGED <<world, budget>>
Hydrated(h) ==
    /\ h \in tab.hydrations
    /\ h.session \notin expired /\ issued[h.session] \notin inactive
    /\ tab' = IF h.current
              THEN Awaited(Rendered([Finished(h) EXCEPT !.ending = FALSE, !.loading = FALSE,
                                                        !.user = issued[h.session]]), h, TRUE)
              ELSE Awaited(Finished(h), h, FALSE)
    /\ UNCHANGED <<world, budget>>

Failed_Loading(t) == [t EXCEPT !.user = Nobody, !.error = TRUE]
Failed(t) == [t EXCEPT !.user = Nobody, !.error = TRUE, !.loading = FALSE]

(* 401: the API client calls its handler first, and that may supersede h.  *)
HydrationExpired(h) ==
    /\ h \in tab.hydrations
    /\ h.session \in expired
    /\ tab' = LET t == ExpireSession(Finished(h))
              IN Awaited(IF h.current /\ tab.ending THEN Failed(t) ELSE t, h, FALSE)
    /\ UNCHANGED <<world, budget>>
(* 403                                                                     *)
HydrationForbidden(h) ==
    /\ h \in tab.hydrations
    /\ h.session \notin expired /\ issued[h.session] \in inactive
    /\ tab' = Awaited(IF h.current THEN RevokeAccess(Finished(h)) ELSE Finished(h), h, FALSE)
    /\ UNCHANGED <<world, budget>>
HydrationFails(h) ==
    /\ h \in tab.hydrations
    /\ tab' = Awaited(IF h.current THEN Failed(Finished(h)) ELSE Finished(h), h, FALSE)
    /\ Spend("failures")
    /\ UNCHANGED world

-----------------------------------------------------------------------------
(* The protected pages.                                                    *)

Mounted == tab.path = "page" /\ tab.user # Nobody /\ ~tab.loading

SendRequest ==
    /\ Mounted /\ Cardinality(tab.requests) < MaxRequests
    /\ tab' = [tab EXCEPT !.requests = @ \cup {tab.token}]
    /\ UNCHANGED <<world, budget>>
(* request and requestVoid of the API client.                              *)
RequestEnds(s) ==
    /\ s \in tab.requests
    /\ tab' = LET t == [tab EXCEPT !.requests = @ \ {s}]
              IN IF s \in expired THEN ExpireSession(t) ELSE t
    /\ UNCHANGED <<world, budget>>

(* The backend closes the socket: 4401, 4409, and 1008 or 4401 again.      *)
SocketRejected ==
    /\ Mounted
    /\ Spend("closes")
    /\ tab' \in {[tab EXCEPT !.calls = @ \cup {"refresh"}], RefreshUser(tab), ExpireSession(tab)}
    /\ UNCHANGED world

-----------------------------------------------------------------------------
(* The user and the router.                                                *)

Submit ==
    /\ tab.path = "login" /\ ~tab.submitting /\ ~tab.loading
    /\ tab' = [tab EXCEPT !.submitting = TRUE, !.ending = FALSE, !.error = FALSE,
                          !.calls = @ \cup {"signIn"}]
    /\ UNCHANGED <<world, budget>>

(* Sign out, in the navigation or where Retry is offered.                  *)
Logout ==
    /\ tab.path = "page" /\ ~tab.loading
    /\ tab.user # Nobody \/ tab.error
    /\ tab' = [ClearAuth(tab) EXCEPT !.leaving = TRUE, !.ending = FALSE, !.error = FALSE,
                                     !.calls = @ \cup {"logout"}]
    /\ UNCHANGED <<world, budget>>

Retry ==
    /\ tab.path = "page" /\ ~tab.loading
    /\ tab.user = Nobody /\ tab.error
    /\ tab' = RefreshUser(tab)
    /\ UNCHANGED <<world, budget>>

(* The router shows the page it was asked for; the login form is new.      *)
Arrive ==
    /\ tab.going # ""
    /\ LET path == IF tab.going = "page" THEN Routed("page") ELSE "login"
           t == [tab EXCEPT !.path = path, !.going = ""]
       IN tab' = IF path = tab.path THEN t
                 ELSE Rendered([t EXCEPT !.submitting = FALSE])
    /\ UNCHANGED <<world, budget>>

Reload ==
    /\ Spend("reloads")
    /\ \E path \in {"login", "page"} : tab' = Fresh(Routed(path))
    /\ UNCHANGED world

-----------------------------------------------------------------------------
Answer ==
    \/ InitialSession \/ GotSession \/ GetSessionFails
    \/ Refreshed \/ RefreshFails
    \/ \E a \in Accounts : SignedIn(a)
    \/ SignInFails
    \/ \E call \in {"logout", "terminate"} : SignedOut(call)

Me(h) == Hydrated(h) \/ HydrationExpired(h) \/ HydrationForbidden(h) \/ HydrationFails(h)

Next ==
    \/ Answer
    \/ \E h \in tab.hydrations : Me(h)
    \/ \E a \in Accounts : NewSession(a) \/ Deactivate(a)
    \/ SessionRemoved \/ Refocused
    \/ \E s \in DOMAIN issued : TokenExpires(s)
    \/ SendRequest
    \/ \E s \in tab.requests : RequestEnds(s)
    \/ SocketRejected
    \/ Submit \/ Logout \/ Retry \/ Arrive \/ Reload

(* As long as a call or a profile request is under way, or the router is,  *)
(* one of them comes to an end.                                            *)
Fairness == WF_vars(Answer \/ Arrive \/ \E h \in tab.hydrations : Me(h))

Spec == Init /\ [][Next]_vars /\ Fairness

-----------------------------------------------------------------------------
(* Properties.                                                             *)

Settled == \A h \in tab.hydrations : ~h.current

(* A user who is shown, with no newer /auth/me under way, is the one whose *)
(* token the requests carry, and it is the session in the cookies: a late  *)
(* answer never brings back a session that was left or replaced.           *)
UserIsSignedIn ==
    tab.user # Nobody /\ Settled
        => tab.token # 0 /\ tab.token = stored /\ issued[stored] = tab.user

(* While a user is shown, the next 401, 403 or failed refresh is acted on: *)
(* expirationInProgress is not left set by an earlier end of a session.    *)
ExpiryIsHeard == tab.user # Nobody => ~tab.ending

(* A page that loses its user leads on: to the login page, to an error     *)
(* with Retry and Sign out, or back to the user; unless it is being left.  *)
LedOn ==
    tab.loading \/ tab.error \/ tab.going # "" \/ tab.path = "login" \/ "logout" \in tab.calls
LostUserIsLedOn ==
    [][Mounted /\ ~tab.leaving /\ ~Mounted' => LedOn']_vars

(* "Restoring secure session" is not shown for ever, except when a 403     *)
(* finds expirationInProgress set: revokeAccess then does nothing.         *)
LoadingEnds == tab.loading ~> (~tab.loading \/ tab.ending)
=============================================================================
