-------------------------- MODULE AuthSession_proofs --------------------------
(* Proofs about AuthSession in its shell: whoever is shown is signed in,   *)
(* the end of the session is heard, and who loses the page is led on.      *)
EXTENDS ApplicationShell, TLAPS

(* A tab where sessions 1 to n have been issued.                           *)
Typed(t, n) ==
    /\ t \in Tab
    /\ t.token \in 0..n
    /\ t.requests \subseteq 1..n
    /\ \A h \in t.hydrations : h.session \in 1..n

Quiet(t) == \A h \in t.hydrations : ~h.current

(* A profile that may still be accepted is that of the session in the      *)
(* cookies: every action that changes these also supersedes it.            *)
CurrentIsStored(t, s) ==
    \A h \in t.hydrations : h.current => h.session = t.token /\ t.token = s /\ s # 0

(* What the properties say of a tab, for the stored session s of iss.      *)
Good(t, s, iss) ==
    /\ Typed(t, Len(iss))
    /\ CurrentIsStored(t, s)
    /\ t.user # Nobody /\ Quiet(t) => t.token # 0 /\ t.token = s /\ iss[s] = t.user
    /\ t.user # Nobody => ~t.ending

WorldOK ==
    /\ issued \in Seq(Accounts) /\ Len(issued) <= MaxSessions
    /\ stored \in 0..Len(issued)
    /\ expired \subseteq DOMAIN issued
    /\ inactive \subseteq Accounts

IInv == WorldOK /\ Good(tab, stored, issued) /\ budget \in Budget

-----------------------------------------------------------------------------
(* The callbacks.                                                          *)

(* Superseded requests stay under way, and none of them is current.        *)
LEMMA SupersededQuiet ==
  ASSUME NEW hs, NEW n, hs \subseteq Hydration, \A h \in hs : h.session \in 1..n
  PROVE  /\ Superseded(hs) \subseteq Hydration
         /\ \A h \in Superseded(hs) : ~h.current /\ h.session \in 1..n
<1>1. ASSUME NEW h \in hs
      PROVE  /\ [h EXCEPT !.current = FALSE] \in Hydration
             /\ [h EXCEPT !.current = FALSE].current = FALSE
             /\ [h EXCEPT !.current = FALSE].session \in 1..n
  BY DEF Hydration
<1> QED
  BY <1>1 DEF Superseded

(* Nobody is shown, and no profile will be accepted: whatever the world.   *)
Bare(t, n) == Typed(t, n) /\ t.user = Nobody /\ Quiet(t)

LEMMA BareGood ==
  ASSUME NEW t, NEW s, NEW iss, Bare(t, Len(iss))
  PROVE  Good(t, s, iss)
  BY DEF Bare, Good, Quiet, CurrentIsStored

(* A change of the other fields.                                           *)
Like(t, q) ==
    /\ q \in Tab
    /\ q.user = t.user /\ q.token = t.token /\ q.hydrations = t.hydrations
    /\ q.requests = t.requests

LEMMA LikeBare ==
  ASSUME NEW t, NEW q, NEW n, Bare(t, n), Like(t, q)
  PROVE  Bare(q, n)
  BY DEF Bare, Like, Typed, Quiet

LEMMA LikeGood ==
  ASSUME NEW t, NEW q, NEW s, NEW iss, Good(t, s, iss), Like(t, q), q.ending => t.ending
  PROVE  Good(q, s, iss)
  BY DEF Good, Like, Typed, Quiet, CurrentIsStored

LEMMA ClearedIsBare ==
  ASSUME NEW t, NEW n \in Nat, Typed(t, n)
  PROVE  Bare(ClearAuth(t), n)
<1>1. /\ Superseded(t.hydrations) \subseteq Hydration
      /\ \A h \in Superseded(t.hydrations) : ~h.current /\ h.session \in 1..n
  BY SupersededQuiet DEF Typed, Tab
<1>2. ClearAuth(t) \in Tab
  BY <1>1 DEF ClearAuth, Typed, Tab
<1>3. /\ ClearAuth(t).user = Nobody /\ ClearAuth(t).token = 0
      /\ ClearAuth(t).hydrations = Superseded(t.hydrations)
      /\ ClearAuth(t).requests = t.requests
  BY DEF ClearAuth, Typed, Tab
<1> QED
  BY <1>1, <1>2, <1>3 DEF Bare, Typed, Quiet

LEMMA GoingIsLike ==
  ASSUME NEW t \in Tab, NEW g \in {"", "page", "login"} \cup Reasons
  PROVE  Like(t, [t EXCEPT !.going = g]) /\ [t EXCEPT !.going = g].ending = t.ending
  BY DEF Like, Tab

LEMMA StayingIsLike ==
  ASSUME NEW t \in Tab
  PROVE  Like(t, [t EXCEPT !.leaving = FALSE]) /\ [t EXCEPT !.leaving = FALSE].ending = t.ending
<1>1. [t EXCEPT !.leaving = FALSE] \in Tab
  BY DEF Tab
<1> QED
  BY <1>1 DEF Like, Tab

LEMMA RedirectedIsLike ==
  ASSUME NEW t \in Tab, NEW reason \in Reasons
  PROVE  Like(t, RedirectToLogin(t, reason)) /\ RedirectToLogin(t, reason).ending = t.ending
  BY DEF RedirectToLogin, Like, Tab

(* The tab after terminateSession: as before, or cleared.                  *)
LEMMA TerminatedIsGood ==
  ASSUME NEW t, NEW s, NEW iss, NEW reason \in Reasons, Len(iss) \in Nat,
         Typed(t, Len(iss)), ~t.ending \/ Good(t, s, iss)
  PROVE  Good(TerminateSession(t, reason), s, iss)
<1> DEFINE q == [ClearAuth(t) EXCEPT !.ending = TRUE, !.leaving = TRUE, !.error = FALSE,
                                     !.calls = @ \cup {"terminate"}]
<1>1. CASE t.ending
  BY <1>1 DEF TerminateSession
<1>2. CASE ~t.ending
  <2>1. Bare(ClearAuth(t), Len(iss))
    BY ClearedIsBare
  <2>2. Like(ClearAuth(t), q)
    BY <2>1 DEF Bare, Typed, Like, Tab
  <2>3. Bare(q, Len(iss))
    BY <2>1, <2>2, LikeBare
  <2>4. Bare(RedirectToLogin(q, reason), Len(iss))
    BY <2>2, <2>3, RedirectedIsLike, LikeBare DEF Like
  <2>5. TerminateSession(t, reason) = RedirectToLogin(q, reason)
    BY <1>2 DEF TerminateSession
  <2> QED
    BY <2>4, <2>5, BareGood
<1> QED
  BY <1>1, <1>2

(* A session that becomes the tab's: its profile is asked for, and that of *)
(* any other is superseded.                                                *)
LEMMA HydrateIsGood ==
  ASSUME NEW t, NEW iss, NEW s \in 0..Len(iss), NEW by \in {"provider", "login"},
         Len(iss) \in Nat, Len(iss) <= MaxSessions, Typed(t, Len(iss)),
         t.user # Nobody => ~t.ending
  PROVE  Good(HydrateSession(t, s, by), s, iss)
<1> USE SessionAssumption
<1> DEFINE c == [t EXCEPT !.token = s, !.error = FALSE, !.hydrations = Superseded(t.hydrations)]
           h == [session |-> s, by |-> by, current |-> TRUE]
<1>1. /\ Superseded(t.hydrations) \subseteq Hydration
      /\ \A g \in Superseded(t.hydrations) : ~g.current /\ g.session \in 1..Len(iss)
  BY SupersededQuiet DEF Typed, Tab
<1>2. s \in {0} \cup Sessions
  BY DEF Sessions
<1>3. CASE s = 0
  <2> DEFINE q == [c EXCEPT !.user = Nobody, !.loading = FALSE]
  <2>1. HydrateSession(t, s, by) = q
    BY <1>3 DEF HydrateSession
  <2>2. q \in Tab
    BY <1>1, <1>2 DEF Typed, Tab
  <2>3. q.user = Nobody /\ q.token = s /\ q.hydrations = Superseded(t.hydrations) /\ q.requests = t.requests
    BY DEF Typed, Tab
  <2>4. Bare(q, Len(iss))
    BY <1>1, <2>2, <2>3 DEF Bare, Typed, Quiet
  <2> QED
    BY <2>1, <2>4, BareGood
<1>4. CASE s # 0
  <2> DEFINE q == [c EXCEPT !.hydrations = Superseded(t.hydrations) \cup {h}]
  <2>1. HydrateSession(t, s, by) = q
    BY <1>4 DEF HydrateSession, Typed, Tab
  <2>2. h \in Hydration /\ h.session = s /\ h.current = TRUE
    BY <1>2, <1>4 DEF Hydration
  <2>3. q \in Tab
    BY <1>1, <1>2, <2>2 DEF Typed, Tab
  <2>4. /\ q.user = t.user /\ q.token = s /\ q.ending = t.ending /\ q.requests = t.requests
        /\ q.hydrations = Superseded(t.hydrations) \cup {h}
    BY DEF Typed, Tab
  <2>5. Typed(q, Len(iss))
    BY <1>1, <1>4, <2>2, <2>3, <2>4 DEF Typed
  <2>6. CurrentIsStored(q, s) /\ ~Quiet(q)
    BY <1>1, <1>4, <2>2, <2>4 DEF CurrentIsStored, Quiet
  <2> QED
    BY <2>1, <2>4, <2>5, <2>6 DEF Good
<1> QED
  BY <1>3, <1>4

(* The same, signalled by the client.                                      *)
LEMMA SignalledIsGood ==
  ASSUME NEW t, NEW iss, NEW s \in 0..Len(iss),
         Len(iss) \in Nat, Len(iss) <= MaxSessions, Typed(t, Len(iss)),
         t.user # Nobody => ~t.ending
  PROVE  Good(Signalled(t, s), s, iss)
<1> DEFINE c == [ClearAuth(t) EXCEPT !.error = FALSE]
<1>1. Bare(c, Len(iss))
  <2>1. Bare(ClearAuth(t), Len(iss))
    BY ClearedIsBare
  <2>2. Like(ClearAuth(t), c)
    BY <2>1 DEF Bare, Typed, Like, Tab
  <2> QED
    BY <2>1, <2>2, LikeBare
<1>2. Bare(RedirectToLogin(c, "session_expired"), Len(iss))
  BY <1>1, RedirectedIsLike, LikeBare DEF Reasons, Bare, Typed
<1>3. CASE s # 0
  BY <1>3, HydrateIsGood DEF Signalled
<1>4. CASE s = 0
  BY <1>1, <1>2, <1>4, BareGood DEF Signalled
<1> QED
  BY <1>3, <1>4

-----------------------------------------------------------------------------
(* The world and the budget.                                               *)

LEMMA WorldFacts ==
  ASSUME IInv
  PROVE  /\ Len(issued) \in Nat /\ Len(issued) <= MaxSessions /\ stored \in 0..Len(issued)
         /\ DOMAIN issued = 1..Len(issued)
         /\ Typed(tab, Len(issued)) /\ tab \in Tab
         /\ tab.user # Nobody => ~tab.ending
  BY DEF IInv, WorldOK, Good, Typed

LEMMA SpendTyped ==
  ASSUME IInv, NEW what \in {"reloads", "outside", "closes", "failures", "shell"}, Spend(what)
  PROVE  budget' \in Budget
  BY DEF IInv, Spend, Budget

LEMMA IssueOK ==
  ASSUME IInv, NEW a \in Accounts, Issue(a)
  PROVE  /\ WorldOK' /\ stored' \in 0..Len(issued') /\ Len(issued') \in Nat
         /\ Len(issued') <= MaxSessions
         /\ \A t : Typed(t, Len(issued)) => Typed(t, Len(issued'))
<1> USE SessionAssumption
<1>1. /\ issued' \in Seq(Accounts) /\ Len(issued') = Len(issued) + 1
      /\ DOMAIN issued' = 1..Len(issued')
  BY DEF IInv, WorldOK, Issue
<1>2. Len(issued') <= MaxSessions /\ stored' = Len(issued')
  BY <1>1, WorldFacts DEF Issue
<1>3. WorldOK'
  BY <1>1, <1>2, WorldFacts DEF WorldOK, IInv, Issue
<1>4. ASSUME NEW t, Typed(t, Len(issued))
      PROVE  Typed(t, Len(issued'))
  BY <1>1, <1>4, WorldFacts DEF Typed
<1> QED
  BY <1>1, <1>2, <1>3, <1>4, WorldFacts

LEMMA ForgetOK ==
  ASSUME IInv, Forget
  PROVE  WorldOK' /\ stored' = 0 /\ issued' = issued
  BY WorldFacts DEF Forget, IInv, WorldOK

LEMMA SameWorldOK ==
  ASSUME IInv, UNCHANGED world
  PROVE  WorldOK' /\ stored' = stored /\ issued' = issued
  BY DEF IInv, WorldOK, world

(* A call that ends changes nothing by itself.                             *)
LEMMA EndedIsGood ==
  ASSUME IInv, NEW call
  PROVE  /\ Good(Ended(call), stored, issued)
         /\ Typed(Ended(call), Len(issued))
         /\ Ended(call) \in Tab
         /\ Ended(call).user # Nobody => ~Ended(call).ending
<1>1. Like(tab, Ended(call)) /\ Ended(call).ending = tab.ending
  BY WorldFacts DEF Ended, Like, Tab
<1> QED
  BY <1>1, LikeGood DEF IInv, Good, Typed

-----------------------------------------------------------------------------
(* The answers of the Supabase client.                                     *)

LEMMA AnswerGood ==
  ASSUME IInv, Answer
  PROVE  IInv'
<1> USE WorldFacts, EndedIsGood
<1>0. "session_expired" \in Reasons /\ "access_revoked" \in Reasons
  BY DEF Reasons
<1>1. CASE InitialSession
  <2>1. Good(tab', stored, issued)
    BY <1>1, SignalledIsGood DEF InitialSession
  <2> QED
    BY <1>1, <2>1, SameWorldOK DEF InitialSession, IInv
<1>2. CASE GotSession
  <2> DEFINE h == HydrateSession(Ended("getSession"), stored, "provider")
  <2>1. Good(h, stored, issued)
    BY HydrateIsGood
  <2> HIDE DEF h
  <2>2. Good(RedirectToLogin(h, "session_expired"), stored, issued)
    <3>1. h \in Tab
      BY <2>1 DEF Good, Typed
    <3> QED
      BY <1>0, <2>1, <3>1, RedirectedIsLike, LikeGood
  <2>3. Good(tab', stored, issued)
    BY <1>2, <2>1, <2>2 DEF GotSession, h
  <2> QED
    BY <1>2, <2>3, SameWorldOK DEF GotSession, IInv
<1>3. CASE GetSessionFails
  <2> DEFINE c == [ClearAuth(Ended("getSession")) EXCEPT !.error = FALSE]
  <2>1. Bare(ClearAuth(Ended("getSession")), Len(issued))
    BY ClearedIsBare
  <2>2. Like(ClearAuth(Ended("getSession")), c)
    BY <2>1 DEF Bare, Typed, Like, Tab
  <2> HIDE DEF c
  <2>3. Bare(RedirectToLogin(c, "session_expired"), Len(issued))
    <3>1. Bare(c, Len(issued)) /\ c \in Tab
      BY <2>1, <2>2, LikeBare DEF Like
    <3> QED
      BY <1>0, <3>1, RedirectedIsLike, LikeBare
  <2>4. Good(tab', stored, issued)
    BY <1>3, <2>3, BareGood DEF GetSessionFails, c
  <2> QED
    BY <1>3, <2>4, SameWorldOK, SpendTyped DEF GetSessionFails, IInv
<1>4. CASE Refreshed
  <2>1. PICK a \in Accounts : Issue(a)
    BY <1>4 DEF Refreshed, IInv, WorldOK
  <2>2. WorldOK' /\ Typed(Ended("refresh"), Len(issued'))
    BY <2>1, IssueOK
  <2>3. Good(Signalled(Ended("refresh"), stored'), stored', issued')
    BY <2>1, <2>2, IssueOK, SignalledIsGood
  <2>4. Good(tab', stored', issued')
    BY <1>4, <2>1, <2>3, IssueOK, HydrateIsGood DEF Refreshed, Good
  <2> QED
    BY <1>4, <2>2, <2>4 DEF Refreshed, IInv
<1>5. CASE RefreshFails
  <2>1. CASE tab' = ExpireSession(Ended("refresh")) /\ UNCHANGED world
    BY <1>5, <2>1, TerminatedIsGood, SameWorldOK, SpendTyped DEF RefreshFails, IInv, ExpireSession, Reasons
  <2>2. CASE tab' = ExpireSession(Signalled(Ended("refresh"), 0)) /\ Forget
    <3>1. Good(Signalled(Ended("refresh"), 0), 0, issued)
      BY SignalledIsGood
    <3>2. Good(tab', 0, issued)
      BY <2>2, <3>1, TerminatedIsGood DEF ExpireSession, Reasons, Good
    <3> QED
      BY <1>5, <2>2, <3>2, ForgetOK, SpendTyped DEF RefreshFails, IInv
  <2> QED
    BY <1>5, <2>1, <2>2 DEF RefreshFails
<1>6. ASSUME NEW a \in Accounts, SignedIn(a)
      PROVE  IInv'
  <2>1. Issue(a)
    BY <1>6 DEF SignedIn
  <2>2. WorldOK' /\ Typed(Ended("signIn"), Len(issued'))
    BY <2>1, IssueOK
  <2>3. Good(Signalled(Ended("signIn"), stored'), stored', issued')
    BY <2>1, <2>2, IssueOK, SignalledIsGood
  <2>4. Good(tab', stored', issued')
    BY <1>6, <2>1, <2>3, IssueOK, HydrateIsGood DEF SignedIn, Good
  <2> QED
    BY <1>6, <2>2, <2>4 DEF SignedIn, IInv
<1>7. CASE SignInFails
  <2>1. /\ Like(Ended("signIn"), LoginEnds(Ended("signIn"), FALSE))
        /\ LoginEnds(Ended("signIn"), FALSE).ending = Ended("signIn").ending
    BY DEF LoginEnds, Like, Tab
  <2>2. Good(tab', stored, issued)
    BY <1>7, <2>1, LikeGood DEF SignInFails
  <2> QED
    BY <1>7, <2>2, SameWorldOK, SpendTyped DEF SignInFails, IInv
<1>8. ASSUME NEW call \in {"logout", "terminate"}, SignedOut(call)
      PROVE  IInv'
  <2> DEFINE q(t) == [t EXCEPT !.leaving = FALSE, !.going = IF call = "logout" THEN "login" ELSE t.going]
  <2>1. ASSUME NEW t, NEW s, Good(t, s, issued)
        PROVE  Good(q(t), s, issued)
    <3>1. t \in Tab
      BY <2>1 DEF Good, Typed
    <3>2. Like(t, q(t)) /\ q(t).ending = t.ending
      <4>1. PICK g : g = IF call = "logout" THEN "login" ELSE t.going
        OBVIOUS
      <4>2. g \in {"", "page", "login"} \cup Reasons
        BY <3>1, <4>1 DEF Tab
      <4>3. q(t) = [t EXCEPT !.leaving = FALSE, !.going = g]
        BY <4>1
      <4> DEFINE u == [t EXCEPT !.leaving = FALSE]
      <4>4. Like(t, u) /\ u.ending = t.ending
        BY <3>1, StayingIsLike
      <4>5. q(t) = [u EXCEPT !.going = g]
        BY <4>3
      <4> HIDE DEF q, u
      <4>6. u \in Tab
        BY <4>4 DEF Like
      <4>7. Like(u, [u EXCEPT !.going = g]) /\ [u EXCEPT !.going = g].ending = u.ending
        BY <4>2, <4>6, GoingIsLike
      <4> QED
        BY <4>4, <4>5, <4>7 DEF Like
    <3> HIDE DEF q
    <3> QED
      BY <2>1, <3>2, LikeGood
  <2> HIDE DEF q
  <2>2. CASE tab' = q(Ended(call)) /\ UNCHANGED world
    BY <1>8, <2>1, <2>2, SameWorldOK DEF SignedOut, IInv
  <2>3. CASE tab' = q(Signalled(Ended(call), 0)) /\ Forget
    <3>1. Good(Signalled(Ended(call), 0), 0, issued)
      BY SignalledIsGood
    <3>2. Good(tab', 0, issued)
      BY <2>1, <2>3, <3>1
    <3> QED
      BY <1>8, <2>3, <3>2, ForgetOK DEF SignedOut, IInv
  <2> QED
    BY <1>8, <2>2, <2>3 DEF SignedOut, q
<1> QED
  BY <1>1, <1>2, <1>3, <1>4, <1>5, <1>6, <1>7, <1>8 DEF Answer

-----------------------------------------------------------------------------
(* The answers of GET /auth/me.                                            *)

LEMMA AwaitedGood ==
  ASSUME NEW t, NEW s, NEW iss, Good(t, s, iss), NEW h, NEW ok
  PROVE  Good(Awaited(t, h, ok), s, iss)
<1>1. t \in Tab
  BY DEF Good, Typed
<1>2. Like(t, t) /\ Like(t, LoginEnds(t, ok)) /\ LoginEnds(t, ok).ending = t.ending
  <2>1. PICK g : g = IF ok THEN "page" ELSE t.going
    OBVIOUS
  <2>2. g \in {"", "page", "login"} \cup Reasons
    BY <1>1, <2>1 DEF Tab
  <2>3. LoginEnds(t, ok) = [t EXCEPT !.submitting = FALSE, !.going = g]
    BY <2>1 DEF LoginEnds
  <2> DEFINE u == [t EXCEPT !.submitting = FALSE]
  <2>4. Like(t, t) /\ Like(t, u) /\ u.ending = t.ending
    BY <1>1 DEF Like, Tab
  <2>5. LoginEnds(t, ok) = [u EXCEPT !.going = g]
    BY <2>3
  <2> HIDE DEF u
  <2>6. u \in Tab
    BY <2>4 DEF Like
  <2>7. Like(u, [u EXCEPT !.going = g]) /\ [u EXCEPT !.going = g].ending = u.ending
    BY <2>2, <2>6, GoingIsLike
  <2> QED
    BY <2>4, <2>5, <2>7 DEF Like
<1> QED
  BY <1>2, LikeGood DEF Awaited

LEMMA RenderedGood ==
  ASSUME NEW t, NEW s, NEW iss, Good(t, s, iss)
  PROVE  Good(Rendered(t), s, iss)
<1>1. t \in Tab
  BY DEF Good, Typed
<1>2. Like(t, t) /\ Like(t, [t EXCEPT !.going = "page"]) /\ [t EXCEPT !.going = "page"].ending = t.ending
  BY <1>1 DEF Like, Tab
<1> QED
  BY <1>2, LikeGood DEF Rendered

(* What is left when a request has ended that was not current, or when     *)
(* nobody is shown.                                                        *)
LEMMA FinishedIsGood ==
  ASSUME IInv, NEW h \in tab.hydrations
  PROVE  /\ Typed(Finished(h), Len(issued)) /\ Finished(h).ending = tab.ending
         /\ Finished(h).user = tab.user /\ Finished(h).token = tab.token
         /\ Finished(h).hydrations = tab.hydrations \ {h}
         /\ CurrentIsStored(Finished(h), stored)
         /\ ~h.current \/ tab.user = Nobody => Good(Finished(h), stored, issued)
<1>1. /\ Finished(h) \in Tab /\ Finished(h).ending = tab.ending
      /\ Finished(h).user = tab.user /\ Finished(h).token = tab.token
      /\ Finished(h).requests = tab.requests
      /\ Finished(h).hydrations = tab.hydrations \ {h}
  BY WorldFacts DEF Finished, Tab
<1>2. Typed(Finished(h), Len(issued)) /\ CurrentIsStored(Finished(h), stored)
  BY <1>1 DEF IInv, Good, Typed, CurrentIsStored
<1>3. ~h.current /\ Quiet(Finished(h)) => Quiet(tab)
  BY <1>1 DEF Quiet
<1> QED
  BY <1>1, <1>2, <1>3 DEF IInv, Good

LEMMA FailedIsGood ==
  ASSUME IInv, NEW h \in tab.hydrations
  PROVE  Good(Failed(Finished(h)), stored, issued)
<1> DEFINE f == Finished(h)
<1>1. f \in Tab /\ Typed(f, Len(issued)) /\ CurrentIsStored(f, stored)
  BY FinishedIsGood DEF Typed
<1>2. /\ Failed(f) \in Tab /\ Failed(f).user = Nobody /\ Failed(f).token = f.token
      /\ Failed(f).hydrations = f.hydrations /\ Failed(f).requests = f.requests
  BY <1>1 DEF Failed, Tab
<1> QED
  BY <1>1, <1>2 DEF Good, Typed, CurrentIsStored

LEMMA MeGood ==
  ASSUME IInv, NEW h \in tab.hydrations, Me(h)
  PROVE  IInv'
<1> DEFINE f == Finished(h)
<1> USE WorldFacts
<1>1. CASE Hydrated(h)
  <2> DEFINE q == [f EXCEPT !.ending = FALSE, !.loading = FALSE, !.user = issued[h.session]]
  <2>1. CASE h.current
    <3>1. h.session = tab.token /\ tab.token = stored /\ stored # 0
      BY <2>1 DEF IInv, Good, CurrentIsStored
    <3>2. issued[h.session] \in Accounts
      BY <3>1 DEF IInv, WorldOK
    <3>3. f \in Tab
      BY FinishedIsGood DEF Typed
    <3>4. /\ q \in Tab /\ q.user = issued[h.session] /\ q.token = f.token /\ q.ending = FALSE
          /\ q.hydrations = f.hydrations /\ q.requests = f.requests
      BY <3>2, <3>3 DEF Tab
    <3>5. Good(q, stored, issued)
      BY <3>1, <3>4, FinishedIsGood DEF Good, Typed, CurrentIsStored
    <3>6. tab' = Awaited(Rendered(q), h, TRUE)
      BY <1>1, <2>1 DEF Hydrated
    <3> HIDE DEF q
    <3>7. Good(tab', stored, issued)
      BY <3>5, <3>6, RenderedGood, AwaitedGood
    <3> QED
      BY <1>1, <3>7, SameWorldOK DEF Hydrated, IInv
  <2>2. CASE ~h.current
    <3>1. tab' = Awaited(f, h, FALSE)
      BY <1>1, <2>2 DEF Hydrated
    <3>2. Good(tab', stored, issued)
      BY <2>2, <3>1, FinishedIsGood, AwaitedGood
    <3> QED
      BY <1>1, <3>2, SameWorldOK DEF Hydrated, IInv
  <2> QED
    BY <2>1, <2>2
<1>2. CASE HydrationExpired(h)
  <2>1. CASE h.current /\ tab.ending
    <3>1. ExpireSession(f) = f
      BY <2>1, FinishedIsGood DEF ExpireSession, TerminateSession
    <3>2. tab' = Awaited(Failed(f), h, FALSE)
      BY <1>2, <2>1, <3>1 DEF HydrationExpired
    <3>3. Good(tab', stored, issued)
      BY <3>2, FailedIsGood, AwaitedGood
    <3> QED
      BY <1>2, <3>3, SameWorldOK DEF HydrationExpired, IInv
  <2>2. CASE ~(h.current /\ tab.ending)
    <3>1. tab' = Awaited(ExpireSession(f), h, FALSE)
      BY <1>2, <2>2 DEF HydrationExpired
    <3>2. Good(ExpireSession(f), stored, issued)
      BY <2>2, FinishedIsGood, TerminatedIsGood DEF ExpireSession, Reasons
    <3>3. Good(tab', stored, issued)
      BY <3>1, <3>2, AwaitedGood
    <3> QED
      BY <1>2, <3>3, SameWorldOK DEF HydrationExpired, IInv
  <2> QED
    BY <2>1, <2>2
<1>3. CASE HydrationForbidden(h)
  <2>1. Good(RevokeAccess(f), stored, issued)
    BY FinishedIsGood, TerminatedIsGood DEF RevokeAccess, Reasons
  <2>2. ~h.current => Good(f, stored, issued)
    BY FinishedIsGood
  <2>3. Good(tab', stored, issued)
    BY <1>3, <2>1, <2>2, AwaitedGood DEF HydrationForbidden
  <2> QED
    BY <1>3, <2>3, SameWorldOK DEF HydrationForbidden, IInv
<1>4. CASE HydrationFails(h)
  <2>1. Good(tab', stored, issued)
    BY <1>4, FailedIsGood, FinishedIsGood, AwaitedGood DEF HydrationFails
  <2> QED
    BY <1>4, <2>1, SameWorldOK, SpendTyped DEF HydrationFails, IInv
<1> QED
  BY <1>1, <1>2, <1>3, <1>4 DEF Me

-----------------------------------------------------------------------------
(* The outside world, the pages, and the user.                             *)

LEMMA OutsideGood ==
  ASSUME IInv,
         \/ \E a \in Accounts : NewSession(a) \/ Deactivate(a)
         \/ SessionRemoved \/ Refocused
         \/ \E s \in DOMAIN issued : TokenExpires(s)
  PROVE  IInv'
<1> USE WorldFacts
<1>1. ASSUME NEW a \in Accounts, NewSession(a)
      PROVE  IInv'
  <2>1. Issue(a)
    BY <1>1 DEF NewSession
  <2>2. WorldOK' /\ Typed(tab, Len(issued'))
    BY <2>1, IssueOK
  <2>3. Good(tab', stored', issued')
    BY <1>1, <2>1, <2>2, IssueOK, SignalledIsGood DEF NewSession
  <2> QED
    BY <1>1, <2>2, <2>3, SpendTyped DEF NewSession, IInv
<1>2. ASSUME NEW a \in Accounts, Deactivate(a)
      PROVE  IInv'
  BY <1>2, SpendTyped DEF Deactivate, IInv, WorldOK
<1>3. CASE SessionRemoved
  <2>1. Good(tab', 0, issued)
    BY <1>3, SignalledIsGood DEF SessionRemoved
  <2> QED
    BY <1>3, <2>1, ForgetOK, SpendTyped DEF SessionRemoved, IInv
<1>4. CASE Refocused
  <2>1. Good(tab', stored, issued)
    BY <1>4, SignalledIsGood DEF Refocused
  <2> QED
    BY <1>4, <2>1, SameWorldOK, SpendTyped DEF Refocused, IInv
<1>5. ASSUME NEW s \in DOMAIN issued, TokenExpires(s)
      PROVE  IInv'
  BY <1>5, SpendTyped DEF TokenExpires, IInv, WorldOK
<1> QED
  BY <1>1, <1>2, <1>3, <1>4, <1>5

LEMMA FreshGood ==
  ASSUME IInv, NEW path \in {"login", "page"}
  PROVE  Good(Fresh(Routed(path)), stored, issued)
<1>1. Routed(path) \in {"login", "page"}
  BY DEF Routed
<1>2. /\ Fresh(Routed(path)) \in Tab /\ Fresh(Routed(path)).user = Nobody
      /\ Fresh(Routed(path)).token = 0 /\ Fresh(Routed(path)).hydrations = {}
      /\ Fresh(Routed(path)).requests = {}
  BY <1>1 DEF Fresh, Tab
<1> QED
  BY <1>2, WorldFacts DEF Good, Typed, CurrentIsStored

LEMMA PageGood ==
  ASSUME IInv,
         \/ SendRequest
         \/ \E s \in tab.requests : RequestEnds(s)
         \/ SocketRejected
         \/ Submit \/ Logout \/ Retry \/ Arrive \/ Reload
  PROVE  IInv'
<1> USE WorldFacts
<1>1. Good(tab, stored, issued)
  BY DEF IInv
<1>2. ASSUME NEW rs \in SUBSET (1..Len(issued))
      PROVE  /\ Good([tab EXCEPT !.requests = rs], stored, issued)
             /\ [tab EXCEPT !.requests = rs].ending = tab.ending
  <2> DEFINE q == [tab EXCEPT !.requests = rs]
  <2>1. rs \subseteq Sessions
    BY SessionAssumption DEF Sessions
  <2>2. /\ q \in Tab /\ q.user = tab.user /\ q.token = tab.token /\ q.ending = tab.ending
        /\ q.hydrations = tab.hydrations /\ q.requests = rs
    BY <2>1 DEF Tab
  <2> HIDE DEF q
  <2>3. Good(q, stored, issued)
    BY <1>1, <2>2 DEF Good, Typed, CurrentIsStored, Quiet
  <2> QED
    BY <2>2, <2>3 DEF q
<1>3. Good(RefreshUser(tab), stored, issued)
  <2>1. Like(tab, RefreshUser(tab)) /\ RefreshUser(tab).ending = tab.ending
    BY DEF RefreshUser, Like, Tab
  <2> QED
    BY <1>1, <2>1, LikeGood
<1>4. CASE SendRequest
  <2>1. tab.token \in 1..Len(issued) \/ tab.token = 0
    BY DEF Typed
  <2>2. CASE tab.token # 0
    BY <1>2, <1>4, <2>1, <2>2, SameWorldOK DEF SendRequest, IInv, Typed
  <2>3. CASE tab.token = 0
    <3>1. tab.user # Nobody
      BY <1>4 DEF SendRequest, Mounted
    <3>2. Quiet(tab)
      BY <1>1, <2>3 DEF Good, CurrentIsStored, Quiet
    <3> QED
      BY <1>1, <2>3, <3>1, <3>2 DEF Good
  <2> QED
    BY <2>2, <2>3
<1>5. ASSUME NEW s \in tab.requests, RequestEnds(s)
      PROVE  IInv'
  <2> DEFINE q == [tab EXCEPT !.requests = tab.requests \ {s}]
  <2>1. Good(q, stored, issued)
    BY <1>2 DEF Typed
  <2> HIDE DEF q
  <2>2. Good(ExpireSession(q), stored, issued)
    BY <2>1, TerminatedIsGood DEF ExpireSession, Reasons, Good
  <2>3. Good(tab', stored, issued)
    BY <1>5, <2>1, <2>2 DEF RequestEnds, q
  <2> QED
    BY <1>5, <2>3, SameWorldOK DEF RequestEnds, IInv
<1>6. CASE SocketRejected
  <2>1. Good([tab EXCEPT !.calls = @ \cup {"refresh"}], stored, issued)
    <3>1. /\ Like(tab, [tab EXCEPT !.calls = @ \cup {"refresh"}])
          /\ [tab EXCEPT !.calls = @ \cup {"refresh"}].ending = tab.ending
      BY DEF Like, Tab
    <3> QED
      BY <1>1, <3>1, LikeGood
  <2>2. Good(ExpireSession(tab), stored, issued)
    BY <1>1, TerminatedIsGood DEF ExpireSession, Reasons
  <2>3. Good(tab', stored, issued)
    BY <1>3, <1>6, <2>1, <2>2 DEF SocketRejected
  <2> QED
    BY <1>6, <2>3, SameWorldOK, SpendTyped DEF SocketRejected, IInv
<1>7. CASE Submit
  <2>1. Like(tab, tab') /\ tab'.ending = FALSE
    BY <1>7 DEF Submit, Like, Tab
  <2>2. Good(tab', stored, issued)
    BY <1>1, <2>1, LikeGood
  <2> QED
    BY <1>7, <2>2, SameWorldOK DEF Submit, IInv
<1>8. CASE Logout
  <2>1. Bare(ClearAuth(tab), Len(issued))
    BY ClearedIsBare
  <2>2. Like(ClearAuth(tab), tab')
    BY <1>8, <2>1 DEF Logout, Bare, Typed, Like, Tab
  <2>3. Good(tab', stored, issued)
    BY <2>1, <2>2, LikeBare, BareGood
  <2> QED
    BY <1>8, <2>3, SameWorldOK DEF Logout, IInv
<1>9. CASE Retry
  BY <1>3, <1>9, SameWorldOK DEF Retry, IInv
<1>10. CASE Arrive
  <2> DEFINE path == IF tab.going = "page" THEN Routed("page") ELSE "login"
             t == [tab EXCEPT !.path = path, !.going = ""]
             u == [t EXCEPT !.submitting = FALSE]
  <2>1. path \in {"login", "page"}
    BY DEF Routed
  <2>2. tab' = t \/ tab' = Rendered(u)
    BY <1>10 DEF Arrive
  <2> HIDE DEF path
  <2>3. Like(tab, t) /\ t.ending = tab.ending /\ Like(tab, u) /\ u.ending = tab.ending
    BY <2>1 DEF Like, Tab
  <2> HIDE DEF t, u
  <2>4. Good(t, stored, issued) /\ Good(u, stored, issued)
    BY <1>1, <2>3, LikeGood
  <2>5. Good(tab', stored, issued)
    BY <2>2, <2>4, RenderedGood
  <2> QED
    BY <1>10, <2>5, SameWorldOK DEF Arrive, IInv
<1>11. CASE Reload
  BY <1>11, FreshGood, SameWorldOK, SpendTyped DEF Reload, IInv
<1> QED
  BY <1>4, <1>5, <1>6, <1>7, <1>8, <1>9, <1>10, <1>11

-----------------------------------------------------------------------------
(* The specification.                                                      *)

LEMMA InitGood == Init => IInv
<1> SUFFICES ASSUME Init PROVE IInv
  OBVIOUS
<1>1. /\ issued \in Seq(Accounts) /\ Len(issued) <= MaxSessions
      /\ stored = Len(issued) /\ Len(issued) \in Nat
  <2>1. CASE issued = <<>>
    BY <2>1, SessionAssumption DEF Init
  <2>2. ASSUME NEW a \in Accounts, issued = <<a>>
        PROVE  issued \in Seq(Accounts) /\ Len(issued) = 1
    BY <2>2
  <2>3. stored = Len(issued) /\ 1 <= MaxSessions
    BY SessionAssumption DEF Init
  <2> QED
    BY <2>1, <2>2, <2>3 DEF Init
<1>2. WorldOK /\ budget \in Budget
  BY <1>1, BudgetAssumption DEF Init, WorldOK
<1>3. PICK path \in {"login", "page"} : tab = Fresh(Routed(path))
  BY DEF Init
<1>4. tab \in Tab /\ tab.user = Nobody /\ tab.token = 0 /\ tab.hydrations = {} /\ tab.requests = {}
  BY <1>3 DEF Routed, Fresh, Tab
<1> QED
  BY <1>1, <1>2, <1>4 DEF IInv, Good, Typed, CurrentIsStored

LEMMA NextGood == IInv /\ [Next]_vars => IInv'
<1> SUFFICES ASSUME IInv, [Next]_vars PROVE IInv'
  OBVIOUS
<1>1. CASE UNCHANGED vars
  BY <1>1, SameWorldOK DEF vars, IInv
<1>2. CASE Answer
  BY <1>2, AnswerGood
<1>3. CASE \E h \in tab.hydrations : Me(h)
  BY <1>3, MeGood
<1> QED
  BY <1>1, <1>2, <1>3, OutsideGood, PageGood DEF Next

(* The shell only adds to what the session does.                           *)
LEMMA ShellNextGood == IInv /\ [ShellNext]_shellVars => IInv'
<1> SUFFICES ASSUME IInv, [ShellNext]_shellVars PROVE IInv'
  OBVIOUS
<1>1. CASE Next
  BY <1>1, NextGood
<1>2. ASSUME UNCHANGED <<world, tab>>, budget' = budget \/ Spend("shell")
      PROVE  IInv'
  BY <1>2, SameWorldOK, SpendTyped DEF IInv
<1>3. CASE TakeTour
  BY <1>2, <1>3 DEF TakeTour, NextStep, Back, Prefer, Dismiss, FollowStepLink, PutAway, Turn
<1>4. CASE \/ PressMenu \/ PressElsewhere \/ Escape
           \/ \E tool \in Tools : PressTool(tool)
           \/ \E place \in Places : Visit(place)
  BY <1>2, <1>4 DEF PressMenu, PressElsewhere, Escape, PressTool, Visit, Act, PutAway, Turn
<1>5. CASE \E type \in {"passing", "error"} : AddToast(type)
  BY <1>2, <1>5 DEF AddToast
<1>6. CASE ToastTimer \/ CloseToast
  BY <1>2, <1>6 DEF ToastTimer, CloseToast, RemoveToast, vars
<1>7. CASE UNCHANGED shellVars
  BY <1>2, <1>7 DEF shellVars, vars
<1> QED
  BY <1>1, <1>3, <1>4, <1>5, <1>6, <1>7 DEF ShellNext

LEMMA Inductive == ShellSpec => []IInv
<1>1. ShellInit => IInv
  BY InitGood DEF ShellInit
<1> QED
  BY <1>1, ShellNextGood, PTL DEF ShellSpec

(* Types, for any accounts and any number of sessions and requests.        *)
THEOREM TypeCorrect == ShellSpec => []TypeOK
<1>1. IInv => TypeOK
  <2> SUFFICES ASSUME IInv PROVE TypeOK
    OBVIOUS
  <2> QED
    BY WorldFacts DEF IInv, WorldOK, Typed, TypeOK
<1> QED
  BY <1>1, Inductive, PTL

(* Whoever is shown when no newer profile is awaited is the account of the *)
(* stored session, with its token: whatever sessions other tabs start and  *)
(* end, and in whatever order the answers of the client and the backend    *)
(* arrive (hydrateSession and its generationRef).                          *)
THEOREM UserIsSignedInHolds == ShellSpec => []UserIsSignedIn
<1>1. IInv => UserIsSignedIn
  BY DEF IInv, Good, Quiet, UserIsSignedIn, Settled
<1> QED
  BY <1>1, Inductive, PTL

(* While a user is shown expirationInProgress is not set, so that the next *)
(* rejected request ends the session (terminateSession, and its resets in  *)
(* login, logout and hydrateSession).                                      *)
THEOREM ExpiryIsHeardHolds == ShellSpec => []ExpiryIsHeard
<1>1. IInv => ExpiryIsHeard
  BY DEF IInv, Good, ExpiryIsHeard
<1> QED
  BY <1>1, Inductive, PTL

-----------------------------------------------------------------------------
(* What becomes of a page that shows its user.                             *)

TabFields ==
  {"path", "going", "user", "token", "loading", "error", "ending", "leaving", "hydrations",
   "calls", "requests", "submitting"}

Shown(t) == t.path = "page" /\ t.user # Nobody /\ ~t.loading
Led(t) == t.loading \/ t.error \/ t.going # "" \/ t.path = "login" \/ "logout" \in t.calls
Kept(t) == Shown(t) \/ Led(t)

(* Nothing has begun to end the session: whoever does redirects.           *)
Up(t) == DOMAIN t = TabFields /\ Shown(t) /\ ~t.leaving /\ ~t.ending

LEMMA TabIsUp ==
  ASSUME IInv, Mounted, ~tab.leaving
  PROVE  Up(tab)
<1>1. tab \in Tab
  BY WorldFacts
<1>2. DOMAIN tab = TabFields
  BY <1>1 DEF Tab, TabFields
<1> QED
  BY <1>2, WorldFacts DEF Up, Shown, Mounted

LEMMA EndedUp ==
  ASSUME NEW call, Up(tab)
  PROVE  Up(Ended(call))
  BY DEF Ended, Up, TabFields, Shown

LEMMA HydrateUp ==
  ASSUME NEW t, Up(t), NEW s, s # 0, NEW by
  PROVE  Up(HydrateSession(t, s, by))
  BY DEF HydrateSession, Up, TabFields, Shown

LEMMA ClearedFields ==
  ASSUME NEW t, DOMAIN t = TabFields
  PROVE  LET c == [ClearAuth(t) EXCEPT !.error = FALSE]
         IN /\ DOMAIN c = TabFields
            /\ c.path = t.path /\ c.leaving = t.leaving /\ c.ending = t.ending
  BY DEF ClearAuth, TabFields

(* A page is asked for at least where a session ends that was not ending.  *)
LEMMA RedirectLeads ==
  ASSUME NEW t, DOMAIN t = TabFields, NEW reason \in Reasons
  PROVE  Led(RedirectToLogin(t, reason))
  BY DEF RedirectToLogin, Led, TabFields, Reasons

LEMMA TerminatedLeads ==
  ASSUME NEW t, DOMAIN t = TabFields, ~t.ending, NEW reason \in Reasons
  PROVE  Led(TerminateSession(t, reason))
<1> DEFINE q == [ClearAuth(t) EXCEPT !.ending = TRUE, !.leaving = TRUE, !.error = FALSE,
                                     !.calls = @ \cup {"terminate"}]
<1>1. DOMAIN q = TabFields
  BY DEF ClearAuth, TabFields
<1>2. TerminateSession(t, reason) = RedirectToLogin(q, reason)
  BY DEF TerminateSession
<1> HIDE DEF q
<1> QED
  BY <1>1, <1>2, RedirectLeads

(* A page that is told of a session keeps its user; of none, redirects.    *)
LEMMA SignalledUp ==
  ASSUME NEW t, Up(t), NEW s
  PROVE  /\ s # 0 => Up(Signalled(t, s))
         /\ s = 0 => /\ DOMAIN Signalled(t, s) = TabFields /\ ~Signalled(t, s).ending
                     /\ Signalled(t, s).going # ""
<1>1. s # 0 => Up(Signalled(t, s))
  BY HydrateUp DEF Signalled
<1>2. CASE s = 0
  <2> DEFINE c == [ClearAuth(t) EXCEPT !.error = FALSE]
  <2>1. DOMAIN c = TabFields /\ c.path = "page" /\ ~c.leaving /\ ~c.ending
    BY ClearedFields DEF Up, Shown
  <2>2. c.leaving = t.leaving /\ ~t.leaving
    BY ClearedFields DEF Up
  <2>3. Signalled(t, s) = RedirectToLogin(c, "session_expired")
    BY <1>2, <2>2 DEF Signalled
  <2> HIDE DEF c
  <2> QED
    BY <1>2, <2>1, <2>3 DEF RedirectToLogin, TabFields
<1> QED
  BY <1>1, <1>2

LEMMA SignalledKeeps ==
  ASSUME NEW t, Up(t), NEW s
  PROVE  Kept(Signalled(t, s))
  BY SignalledUp DEF Kept, Led, Up

LEMMA AwaitedKeeps ==
  ASSUME NEW t, DOMAIN t = TabFields, Kept(t), NEW h, NEW ok
  PROVE  Kept(Awaited(t, h, ok))
  BY DEF Awaited, LoginEnds, Kept, Shown, Led, TabFields

LEMMA IssuedIsNew ==
  ASSUME IInv, NEW a, Issue(a)
  PROVE  stored' # 0
  BY WorldFacts DEF Issue

LEMMA AnswerKeeps ==
  ASSUME IInv, Up(tab), Answer
  PROVE  Kept(tab')
<1>0. "session_expired" \in Reasons
  BY DEF Reasons
<1>1. ASSUME NEW call PROVE DOMAIN Ended(call) = TabFields /\ ~Ended(call).ending
  BY EndedUp DEF Up
<1>2. CASE InitialSession
  BY <1>2, EndedUp, SignalledKeeps DEF InitialSession
<1>3. CASE GotSession
  <2> DEFINE h == HydrateSession(Ended("getSession"), stored, "provider")
  <2>1. CASE stored = 0
    <3>1. DOMAIN h = TabFields
      BY <1>1, <2>1 DEF HydrateSession, TabFields
    <3>2. tab' = RedirectToLogin(h, "session_expired")
      BY <1>3, <2>1 DEF GotSession
    <3> HIDE DEF h
    <3> QED
      BY <1>0, <3>1, <3>2, RedirectLeads DEF Kept
  <2>2. CASE stored # 0
    BY <1>3, <2>2, EndedUp, HydrateUp DEF GotSession, Up, Kept
  <2> QED
    BY <2>1, <2>2
<1>4. CASE GetSessionFails
  <2> DEFINE c == [ClearAuth(Ended("getSession")) EXCEPT !.error = FALSE]
  <2>1. DOMAIN c = TabFields
    BY <1>1, ClearedFields
  <2>2. tab' = RedirectToLogin(c, "session_expired")
    BY <1>4 DEF GetSessionFails
  <2> HIDE DEF c
  <2> QED
    BY <1>0, <2>1, <2>2, RedirectLeads DEF Kept
<1>5. CASE Refreshed
  <2>1. stored' # 0
    BY <1>5, IssuedIsNew DEF Refreshed
  <2>2. Up(Signalled(Ended("refresh"), stored'))
    BY <2>1, EndedUp, SignalledUp
  <2> QED
    BY <1>5, <2>1, <2>2, HydrateUp DEF Refreshed, Up, Kept
<1>6. CASE RefreshFails
  <2>1. Up(Ended("refresh"))
    BY EndedUp
  <2>2. DOMAIN Signalled(Ended("refresh"), 0) = TabFields /\ ~Signalled(Ended("refresh"), 0).ending
    BY <2>1, SignalledUp
  <2>3. Led(ExpireSession(Ended("refresh"))) /\ Led(ExpireSession(Signalled(Ended("refresh"), 0)))
    BY <1>0, <1>1, <2>2, TerminatedLeads DEF ExpireSession
  <2> QED
    BY <1>6, <2>3 DEF RefreshFails, Kept
<1>7. ASSUME NEW a \in Accounts, SignedIn(a)
      PROVE  Kept(tab')
  <2>1. stored' # 0
    BY <1>7, IssuedIsNew DEF SignedIn
  <2>2. Up(Signalled(Ended("signIn"), stored'))
    BY <2>1, EndedUp, SignalledUp
  <2> QED
    BY <1>7, <2>1, <2>2, HydrateUp DEF SignedIn, Up, Kept
<1>8. CASE SignInFails
  <2>1. Up(Ended("signIn"))
    BY EndedUp
  <2> QED
    BY <1>8, <2>1 DEF SignInFails, LoginEnds, Up, Kept, Shown, TabFields
<1>9. ASSUME NEW call \in {"logout", "terminate"}, SignedOut(call)
      PROVE  Kept(tab')
  <2> DEFINE q(t) == [t EXCEPT !.leaving = FALSE, !.going = IF call = "logout" THEN "login" ELSE @]
  <2>1. Up(Ended(call))
    BY EndedUp
  <2>2. Kept(q(Ended(call)))
    BY <2>1 DEF Up, Kept, Shown, TabFields
  <2>3. /\ DOMAIN Signalled(Ended(call), 0) = TabFields
        /\ Signalled(Ended(call), 0).going # ""
    BY <2>1, SignalledUp
  <2>4. Kept(q(Signalled(Ended(call), 0)))
    BY <2>3 DEF Kept, Led, TabFields
  <2> QED
    BY <1>9, <2>2, <2>4 DEF SignedOut
<1> QED
  BY <1>2, <1>3, <1>4, <1>5, <1>6, <1>7, <1>8, <1>9 DEF Answer

(* A profile that comes is shown; one that does not come is an error or    *)
(* the end of the session.                                                 *)
LEMMA MeKeeps ==
  ASSUME IInv, Up(tab), NEW h \in tab.hydrations, Me(h)
  PROVE  Kept(tab')
<1>0. "session_expired" \in Reasons /\ "access_revoked" \in Reasons
  BY DEF Reasons
<1>1. Up(Finished(h))
  BY DEF Finished, Up, TabFields, Shown
<1>2. DOMAIN Finished(h) = TabFields /\ ~Finished(h).ending /\ Kept(Finished(h))
  BY <1>1 DEF Up, Kept
<1>3. CASE Hydrated(h)
  <2> DEFINE q == [Finished(h) EXCEPT !.ending = FALSE, !.loading = FALSE,
                                      !.user = issued[h.session]]
  <2>1. issued[h.session] # Nobody
    <3>1. h.session \in DOMAIN issued /\ issued \in Seq(Accounts)
      BY WorldFacts DEF Typed, IInv, WorldOK
    <3> QED
      BY <3>1, SessionAssumption
  <2>2. DOMAIN q = TabFields /\ Shown(q) /\ q.path = "page"
    BY <1>1, <2>1 DEF Up, Shown, TabFields
  <2>3. tab' = Awaited(Rendered(q), h, TRUE) \/ tab' = Awaited(Finished(h), h, FALSE)
    BY <1>3 DEF Hydrated
  <2> HIDE DEF q
  <2>4. Rendered(q) = q
    BY <2>2 DEF Rendered
  <2> QED
    BY <1>2, <2>2, <2>3, <2>4, AwaitedKeeps DEF Kept
<1>4. ASSUME NEW reason \in Reasons
      PROVE  Kept(Awaited(TerminateSession(Finished(h), reason), h, FALSE))
  <2>1. Led(TerminateSession(Finished(h), reason))
    BY <1>2, <1>4, TerminatedLeads
  <2>2. DOMAIN TerminateSession(Finished(h), reason) = TabFields
    BY <1>2 DEF TerminateSession, RedirectToLogin, ClearAuth
  <2> QED
    BY <2>1, <2>2, AwaitedKeeps DEF Kept
<1>5. CASE HydrationExpired(h)
  <2>1. ~tab.ending
    BY DEF Up
  <2> QED
    BY <1>0, <1>4, <1>5, <2>1 DEF HydrationExpired, ExpireSession
<1>6. CASE HydrationForbidden(h)
  BY <1>0, <1>2, <1>4, <1>6, AwaitedKeeps DEF HydrationForbidden, RevokeAccess
<1>7. CASE HydrationFails(h)
  <2>1. DOMAIN Failed(Finished(h)) = TabFields /\ Kept(Failed(Finished(h)))
    BY <1>2 DEF Failed, Kept, Led, TabFields
  <2> QED
    BY <1>2, <1>7, <2>1, AwaitedKeeps DEF HydrationFails
<1> QED
  BY <1>3, <1>5, <1>6, <1>7 DEF Me

LEMMA OtherKeeps ==
  ASSUME IInv, Up(tab), Next, ~Answer, \A h \in tab.hydrations : ~Me(h)
  PROVE  Kept(tab')
<1>0. "session_expired" \in Reasons
  BY DEF Reasons
<1>1. Kept(tab)
  BY DEF Up, Kept
<1>2. CASE (\E a \in Accounts : NewSession(a)) \/ SessionRemoved \/ Refocused
  BY <1>2, SignalledKeeps DEF NewSession, SessionRemoved, Refocused
<1>3. CASE (\E a \in Accounts : Deactivate(a)) \/ \E s \in DOMAIN issued : TokenExpires(s)
  BY <1>1, <1>3 DEF Deactivate, TokenExpires
<1>4. CASE SendRequest
  BY <1>4 DEF SendRequest, Up, Kept, Shown, TabFields
<1>5. ASSUME NEW s \in tab.requests, RequestEnds(s)
      PROVE  Kept(tab')
  <2> DEFINE t == [tab EXCEPT !.requests = @ \ {s}]
  <2>1. Up(t)
    BY DEF Up, Shown, TabFields
  <2>2. tab' = t \/ tab' = ExpireSession(t)
    BY <1>5 DEF RequestEnds
  <2> HIDE DEF t
  <2> QED
    BY <1>0, <2>1, <2>2, TerminatedLeads DEF ExpireSession, Up, Kept
<1>6. CASE SocketRejected
  <2>1. Kept([tab EXCEPT !.calls = @ \cup {"refresh"}]) /\ Kept(RefreshUser(tab))
    BY DEF RefreshUser, Up, Kept, Shown, Led, TabFields
  <2>2. Kept(ExpireSession(tab))
    BY <1>0, TerminatedLeads DEF ExpireSession, Up, Kept
  <2> QED
    BY <1>6, <2>1, <2>2 DEF SocketRejected
<1>7. CASE Logout
  <2>1. DOMAIN ClearAuth(tab) = TabFields
    BY DEF ClearAuth, Up
  <2> QED
    BY <1>7, <2>1 DEF Logout, Kept, Led, TabFields
<1>8. ~Submit /\ ~Retry
  BY DEF Submit, Retry, Up, Shown
<1>9. CASE Arrive
  <2> DEFINE path == IF tab.going = "page" THEN Routed("page") ELSE "login"
             t == [tab EXCEPT !.path = path, !.going = ""]
  <2>1. tab.path = "page" /\ path \in {"login", "page"}
    BY DEF Up, Shown, Routed
  <2>2. CASE path = "page"
    <3>1. tab' = t
      BY <1>9, <2>1, <2>2 DEF Arrive
    <3> QED
      BY <2>2, <3>1 DEF Up, Kept, Shown, TabFields
  <2>3. CASE path = "login"
    <3>1. tab' = Rendered([t EXCEPT !.submitting = FALSE])
      BY <1>9, <2>1, <2>3 DEF Arrive
    <3>2. DOMAIN [t EXCEPT !.submitting = FALSE] = TabFields /\ [t EXCEPT !.submitting = FALSE].path = "login"
      BY <2>3 DEF Up, TabFields
    <3> QED
      BY <3>1, <3>2 DEF Rendered, Kept, Led, TabFields
  <2> QED
    BY <2>1, <2>2, <2>3
<1>10. CASE Reload
  <2>1. PICK path \in {"login", "page"} : tab' = Fresh(Routed(path))
    BY <1>10 DEF Reload
  <2>2. Fresh(Routed(path)).loading = TRUE
    BY DEF Fresh
  <2> QED
    BY <2>1, <2>2 DEF Kept, Led
<1> QED
  BY <1>2, <1>3, <1>4, <1>5, <1>6, <1>7, <1>8, <1>9, <1>10 DEF Next

LEMMA NextKeeps ==
  ASSUME IInv, Up(tab), Next
  PROVE  Kept(tab')
  BY AnswerKeeps, MeKeeps, OtherKeeps

(* A page that loses its user by the end of the session, a failed profile  *)
(* or anything else always leads on, in whatever order the answers arrive: *)
(* while nothing is ending the session, whatever ends it redirects, and    *)
(* ExpiryIsHeard says that nothing is (terminateSession, refreshUser, the  *)
(* callback of onAuthStateChange).                                         *)
THEOREM LostUserIsLedOnHolds == ShellSpec => LostUserIsLedOn
<1>1. IInv /\ [ShellNext]_shellVars => [Mounted /\ ~tab.leaving /\ ~Mounted' => LedOn']_vars
  <2> SUFFICES ASSUME IInv, [ShellNext]_shellVars, Mounted, ~tab.leaving, ~Mounted'
               PROVE  LedOn' \/ UNCHANGED vars
    OBVIOUS
  <2>1. CASE Next
    <3>1. Kept(tab')
      BY <2>1, TabIsUp, NextKeeps
    <3> QED
      BY <3>1 DEF Kept, Shown, Led, LedOn, Mounted
  <2>2. CASE tab' = tab
    BY <2>2 DEF Mounted
  <2>3. Next \/ tab' = tab
    BY DEF ShellNext, shellVars, vars, TakeTour, NextStep, Back, Prefer, Dismiss, FollowStepLink,
           PutAway, Turn, PressMenu, PressElsewhere, Escape, PressTool, Visit, Act, AddToast,
           ToastTimer, CloseToast, RemoveToast
  <2> QED
    BY <2>1, <2>2, <2>3
<1> QED
  BY <1>1, Inductive, PTL DEF ShellSpec, LostUserIsLedOn

-----------------------------------------------------------------------------
(* The shell.                                                              *)

(* What ShellTypeOK says of a shell, and of a tour with the accounts that  *)
(* have put it away.                                                       *)
Framed(s) ==
    /\ s \in Shell
    /\ Len(s.toasts) <= ToastLimit
    /\ tab.path = "page" <=> s.at # ""
    /\ s.menu => Mounted
    /\ s.tool # "" => Mounted /\ s.at = "overview"
Due(t, names) ==
    /\ names \subseteq Accounts
    /\ t \in Tour
    /\ t.step > 0 => Mounted /\ tab.user \notin names

ShellInv == TypeOK /\ Framed(shell) /\ Due(tour, done)

LEMMA ShellInvIsType == ShellInv <=> ShellTypeOK
  BY DEF ShellInv, Framed, Due, ShellTypeOK

LEMMA SamePage ==
  ASSUME TypeOK, TypeOK', Framed(shell'), Due(tour', done'), tab' = tab
  PROVE  ShellInv'
<1>1. Mounted' = Mounted
  BY DEF Mounted
<1> QED
  BY <1>1 DEF ShellInv, Framed, Due

(* A press closes what it is not in.                                       *)
LEMMA PressedFramed ==
  ASSUME Framed(shell), NEW inside
  PROVE  Framed(Pressed(inside))
  BY DEF Pressed, Framed, Shell

LEMMA ActivatedFramed ==
  ASSUME Framed(shell), NEW inside, NEW s \in Activated(inside)
  PROVE  Framed(s)
  BY PressedFramed DEF Activated

LEMMA NavigatedFramed ==
  ASSUME NEW s, Framed(s), NEW place \in Places, tab.path = "page"
  PROVE  Framed(Navigated(s, place))
<1>1. place \in Places \cup {""} /\ place # ""
  BY DEF Places
<1>2. CASE place = s.at
  BY <1>2 DEF Navigated
<1>3. CASE place # s.at
  <2> DEFINE q == [s EXCEPT !.at = place, !.menu = FALSE, !.tool = ""]
  <2>1. /\ q \in Shell /\ q.at = place /\ q.menu = FALSE /\ q.tool = "" /\ q.toasts = s.toasts
    BY <1>1 DEF Framed, Shell
  <2>2. Navigated(s, place) = q
    BY <1>3 DEF Navigated
  <2> HIDE DEF q
  <2> QED
    BY <1>1, <2>1, <2>2 DEF Framed
<1> QED
  BY <1>2, <1>3

LEMMA MountedIsPage ==
  ASSUME Mounted, TypeOK
  PROVE  tab.path = "page" /\ tab.user \in Accounts
  BY DEF Mounted, TypeOK, Tab

(* The tour turned, or put away.                                           *)
LEMMA PutAwayDue ==
  ASSUME ShellInv, tour.step > 0, PutAway
  PROVE  Due(tour', done') /\ tab' = tab
<1>1. Mounted
  BY DEF ShellInv, Due
<1>2. tour' = NoTour /\ tab' = tab /\ (done' = done \/ done' = done \cup {tab.user})
  BY DEF PutAway, Turn
<1>3. done' \subseteq Accounts
  BY <1>1, <1>2, MountedIsPage DEF ShellInv, Due
<1>4. NoTour \in Tour /\ ~(NoTour.step > 0)
  BY DEF NoTour, Tour
<1> QED
  BY <1>2, <1>3, <1>4 DEF Due

LEMMA TakeTourFramed ==
  ASSUME ShellInv, TypeOK', TakeTour
  PROVE  ShellInv'
<1>1. ASSUME NEW t \in Tour, tour.step > 0, Turn(t), UNCHANGED <<done, shell>>
      PROVE  ShellInv'
  <2>1. Due(t, done)
    BY <1>1 DEF ShellInv, Due
  <2> QED
    BY <1>1, <2>1, SamePage DEF Turn, ShellInv
<1>2. ASSUME tour.step > 0, PutAway, Framed(shell')
      PROVE  ShellInv'
  BY <1>2, PutAwayDue, SamePage DEF ShellInv
<1>3. CASE NextStep
  <2>1. [tour EXCEPT !.step = @ + 1] \in Tour
    BY <1>3 DEF NextStep, ShellInv, Due, Tour
  <2> QED
    BY <1>1, <1>3, <2>1 DEF NextStep, Steps
<1>4. CASE Back
  <2>1. [tour EXCEPT !.step = @ - 1] \in Tour
    BY <1>4 DEF Back, ShellInv, Due, Tour, Steps
  <2>2. tour.step > 0
    BY <1>4 DEF Back, ShellInv, Due, Tour, Steps
  <2> QED
    BY <1>1, <1>4, <2>1, <2>2 DEF Back
<1>5. CASE Prefer
  <2>1. [tour EXCEPT !.keep = ~@] \in Tour
    BY DEF ShellInv, Due, Tour
  <2> QED
    BY <1>1, <1>5, <2>1 DEF Prefer
<1>6. CASE Dismiss
  BY <1>2, <1>6, ActivatedFramed DEF Dismiss, ShellInv
<1>7. CASE FollowStepLink
  <2>1. PICK place \in StepLink(tour.step), s \in Activated("tour") : shell' = Navigated(s, place)
    BY <1>7 DEF FollowStepLink
  <2>2. place \in Places
    BY <2>1 DEF StepLink, Places
  <2>3. tab.path = "page"
    BY <1>7, MountedIsPage DEF FollowStepLink, ShellInv, Due
  <2>4. Framed(shell')
    BY <2>1, <2>2, <2>3, ActivatedFramed, NavigatedFramed DEF ShellInv
  <2> QED
    BY <1>2, <1>7, <2>4 DEF FollowStepLink
<1> QED
  BY <1>3, <1>4, <1>5, <1>6, <1>7 DEF TakeTour

(* The navigation and the tools of the overview.                           *)
LEMMA ActFramed ==
  ASSUME ShellInv, TypeOK', Act, Framed(shell')
  PROVE  ShellInv'
  BY SamePage DEF Act, ShellInv, Due

LEMMA PressesFramed ==
  ASSUME ShellInv, TypeOK',
         \/ PressMenu \/ PressElsewhere \/ Escape
         \/ \E tool \in Tools : PressTool(tool)
         \/ \E place \in Places : Visit(place)
  PROVE  ShellInv'
<1>1. Framed(shell)
  BY DEF ShellInv
<1>2. CASE PressMenu
  <2>1. PICK s \in Activated("menu") : shell' = [s EXCEPT !.menu = ~@]
    BY <1>2 DEF PressMenu
  <2>2. Framed(s)
    BY <1>1, ActivatedFramed
  <2>3. Framed(shell')
    BY <1>2, <2>1, <2>2 DEF Framed, Shell, PressMenu, Act
  <2> QED
    BY <1>2, <2>3, ActFramed DEF PressMenu
<1>3. CASE PressElsewhere
  BY <1>1, <1>3, PressedFramed, ActFramed DEF PressElsewhere
<1>4. CASE Escape
  <2>1. Framed([shell EXCEPT !.menu = FALSE, !.tool = ""])
    BY <1>1 DEF Framed, Shell
  <2>2. CASE tour.step > 0
    BY <1>4, <2>1, <2>2, PutAwayDue, SamePage DEF Escape, ShellInv
  <2>3. CASE ~(tour.step > 0)
    BY <1>4, <2>1, <2>3, ActFramed DEF Escape
  <2> QED
    BY <2>2, <2>3
<1>5. ASSUME NEW tool \in Tools, PressTool(tool)
      PROVE  ShellInv'
  <2>1. PICK s \in Activated("dock") : shell' = [s EXCEPT !.tool = IF s.tool = tool THEN "" ELSE tool]
    BY <1>5 DEF PressTool
  <2>2. Framed(s) /\ s.at = "overview"
    BY <1>1, <1>5, ActivatedFramed DEF PressTool, Activated, Pressed, Framed, Shell
  <2>3. Framed(shell')
    BY <1>5, <2>1, <2>2 DEF Framed, Shell, PressTool, Act
  <2> QED
    BY <1>5, <2>3, ActFramed DEF PressTool
<1>6. ASSUME NEW place \in Places, Visit(place)
      PROVE  ShellInv'
  <2>1. PICK s \in Activated("page") \cup Activated("menu") : shell' = Navigated(s, place)
    BY <1>6 DEF Visit
  <2>2. tab.path = "page"
    BY <1>6, MountedIsPage DEF Visit, Act, ShellInv
  <2>3. Framed(shell')
    BY <1>1, <2>1, <2>2, ActivatedFramed, NavigatedFramed
  <2> QED
    BY <1>6, <2>3, ActFramed DEF Visit
<1> QED
  BY <1>2, <1>3, <1>4, <1>5, <1>6

(* Toasts.                                                                 *)
LEMMA ToastsFramed ==
  ASSUME Framed(shell), NEW toasts \in Seq({"passing", "error"}), Len(toasts) <= ToastLimit
  PROVE  Framed([shell EXCEPT !.toasts = toasts])
  BY DEF Framed, Shell

LEMMA WithoutShorter ==
  ASSUME NEW S, NEW seq \in Seq(S), NEW i \in DOMAIN seq
  PROVE  Without(seq, i) \in Seq(S) /\ Len(Without(seq, i)) = Len(seq) - 1
<1>1. i \in 1..Len(seq)
  OBVIOUS
<1>2. SubSeq(seq, 1, i - 1) \in Seq(S) /\ Len(SubSeq(seq, 1, i - 1)) = i - 1
  BY <1>1
<1>3. SubSeq(seq, i + 1, Len(seq)) \in Seq(S) /\ Len(SubSeq(seq, i + 1, Len(seq))) = Len(seq) - i
  BY <1>1
<1>4. ASSUME NEW a \in Seq(S), NEW b \in Seq(S)
      PROVE  a \o b \in Seq(S) /\ Len(a \o b) = Len(a) + Len(b)
  OBVIOUS
<1>5. /\ Without(seq, i) \in Seq(S)
      /\ Len(Without(seq, i)) = Len(SubSeq(seq, 1, i - 1)) + Len(SubSeq(seq, i + 1, Len(seq)))
  BY <1>2, <1>3, <1>4 DEF Without
<1>6. Len(seq) \in Nat /\ i \in Nat
  BY <1>1
<1>7. Len(Without(seq, i)) = (i - 1) + (Len(seq) - i)
  BY <1>2, <1>3, <1>5
<1>8. ASSUME NEW n \in Nat, NEW k \in Nat
      PROVE  (k - 1) + (n - k) = n - 1
  OBVIOUS
<1> QED
  BY <1>5, <1>6, <1>7, <1>8

LEMMA ToastFramed ==
  ASSUME ShellInv, TypeOK',
         \/ \E type \in {"passing", "error"} : AddToast(type)
         \/ ToastTimer \/ CloseToast
  PROVE  ShellInv'
<1>1. /\ Framed(shell) /\ shell.toasts \in Seq({"passing", "error"})
      /\ Len(shell.toasts) <= ToastLimit /\ Len(shell.toasts) \in Nat
  <2>1. Framed(shell) /\ shell.toasts \in Seq({"passing", "error"}) /\ Len(shell.toasts) <= ToastLimit
    BY DEF ShellInv, Framed, Shell
  <2> QED
    BY <2>1
<1>2. ASSUME UNCHANGED <<tab, done, tour>>, Framed(shell')
      PROVE  ShellInv'
  BY <1>2, SamePage DEF ShellInv, Due
<1>3. ASSUME NEW type \in {"passing", "error"}, AddToast(type)
      PROVE  ShellInv'
  <2> DEFINE all == Append(shell.toasts, type)
             kept == IF Len(all) > ToastLimit THEN Tail(all) ELSE all
  <2>1. all \in Seq({"passing", "error"}) /\ Len(all) = Len(shell.toasts) + 1
    BY <1>1
  <2> HIDE DEF all
  <2>2. Tail(all) \in Seq({"passing", "error"}) /\ Len(Tail(all)) = Len(shell.toasts)
    BY <1>1, <2>1
  <2>3. kept \in Seq({"passing", "error"}) /\ Len(kept) <= ToastLimit
    BY <1>1, <2>1, <2>2, ShellAssumption
  <2>4. shell' = [shell EXCEPT !.toasts = kept]
    BY <1>3 DEF AddToast, all
  <2> HIDE DEF kept
  <2> QED
    BY <1>1, <1>2, <1>3, <2>3, <2>4, ToastsFramed DEF AddToast
<1>4. ASSUME NEW i \in DOMAIN shell.toasts, RemoveToast(i)
      PROVE  ShellInv'
  <2>1. /\ Without(shell.toasts, i) \in Seq({"passing", "error"})
        /\ Len(Without(shell.toasts, i)) = Len(shell.toasts) - 1
    BY <1>1, WithoutShorter
  <2>2. Framed(shell')
    BY <1>1, <1>4, <2>1, ToastsFramed, ShellAssumption DEF RemoveToast
  <2> QED
    BY <1>2, <1>4, <2>2 DEF RemoveToast, vars
<1> QED
  BY <1>3, <1>4 DEF ToastTimer, CloseToast, Passing

(* What follows the session.                                               *)
LEMMA FollowFramed ==
  ASSUME ShellInv, TypeOK', FollowTour, FollowShell
  PROVE  ShellInv'
<1>1. Due(tour, done)'
  <2>1. NoTour \in Tour /\ ~(NoTour.step > 0)
    BY DEF NoTour, Tour
  <2>2. Opened(tab'.user) \in Tour /\ (Opened(tab'.user).step > 0 => tab'.user \notin done)
    <3>1. [NoTour EXCEPT !.step = 1] \in Tour
      <4>1. NoTour \in Tour /\ 1 \in Steps
        BY DEF NoTour, Tour, Steps
      <4> HIDE DEF NoTour
      <4> QED
        BY <4>1 DEF Tour
    <3>2. CASE tab'.user \in done
      <4>1. Opened(tab'.user) = NoTour
        BY <3>2 DEF Opened
      <4> QED
        BY <2>1, <4>1
    <3>3. CASE tab'.user \notin done
      BY <3>1, <3>3 DEF Opened
    <3> QED
      BY <3>2, <3>3
  <2>3. CASE ~Mounted'
    BY <2>1, <2>3 DEF FollowTour, ShellInv, Due
  <2>4. CASE Mounted' /\ Mounted /\ tab'.user = tab.user
    BY <2>4 DEF FollowTour, ShellInv, Due
  <2>5. CASE Mounted' /\ ~(Mounted /\ tab'.user = tab.user)
    BY <2>2, <2>5 DEF FollowTour, ShellInv, Due
  <2> QED
    BY <2>3, <2>4, <2>5
<1>2. Framed(shell)'
  <2> DEFINE at == Address(tab'.path)
             menu == shell.menu /\ Mounted'
             tool == IF Mounted' THEN shell.tool ELSE ""
             toasts == IF Reloaded THEN <<>> ELSE shell.toasts
  <2>1. shell' = [at |-> at, menu |-> menu, tool |-> tool, toasts |-> toasts]
    BY DEF FollowShell
  <2>2. tab'.path \in {"login", "page"}
    BY DEF TypeOK, Tab
  <2>3. at \in Places \cup {""} /\ (tab'.path = "page" <=> at # "")
    BY <2>2 DEF Address, ShellInv, Framed, Shell, Places
  <2>4. menu \in BOOLEAN /\ (menu => Mounted')
    OBVIOUS
  <2>5. Mounted' => tab'.path = "page"
    BY DEF Mounted
  <2>6. tool \in {""} \cup Tools /\ (tool # "" => Mounted' /\ at = "overview")
    BY <2>2, <2>5 DEF Address, ShellInv, Framed, Shell
  <2>7. toasts \in Seq({"passing", "error"}) /\ Len(toasts) <= ToastLimit
    <3>1. shell.toasts \in Seq({"passing", "error"}) /\ Len(shell.toasts) <= ToastLimit
      BY DEF ShellInv, Framed, Shell
    <3>2. <<>> \in Seq({"passing", "error"}) /\ Len(<<>>) <= ToastLimit
      BY ShellAssumption
    <3> QED
      BY <3>1, <3>2
  <2> HIDE DEF at, menu, tool, toasts
  <2> QED
    BY <2>1, <2>3, <2>4, <2>6, <2>7 DEF Framed, Shell
<1> QED
  BY <1>1, <1>2 DEF ShellInv

(* No tour is shown to a user who has put it away for good, nor stays open *)
(* when another user's pages replace those it was opened over; no menu and *)
(* no tool stays open without its page; for any accounts and toast limit.  *)
THEOREM ShellTypeCorrect == ShellSpec => []ShellTypeOK
<1>1. ShellInit /\ TypeOK => ShellInv
  <2> SUFFICES ASSUME ShellInit, TypeOK PROVE ShellInv
    OBVIOUS
  <2>1. tab.path \in {"login", "page"}
    BY DEF TypeOK, Tab
  <2>2. <<>> \in Seq({"passing", "error"}) /\ Len(<<>>) <= ToastLimit
    BY ShellAssumption
  <2>3. PICK at : /\ at = IF tab.path = "page" THEN "overview" ELSE ""
                  /\ shell = [at |-> at, menu |-> FALSE, tool |-> "", toasts |-> <<>>]
    BY DEF ShellInit
  <2>4. Framed(shell)
    BY <2>1, <2>2, <2>3 DEF Shell, Framed, Places
  <2>5. NoTour \in Tour /\ ~(NoTour.step > 0)
    BY DEF NoTour, Tour
  <2> QED
    BY <2>4, <2>5 DEF ShellInit, ShellInv, Due
<1>2. ShellInv /\ TypeOK' /\ [ShellNext]_shellVars => ShellInv'
  <2> SUFFICES ASSUME ShellInv, TypeOK', [ShellNext]_shellVars PROVE ShellInv'
    OBVIOUS
  <2>1. CASE UNCHANGED shellVars
    BY <2>1, SamePage DEF shellVars, vars, ShellInv, Framed, Due, Mounted
  <2> QED
    BY <2>1, FollowFramed, TakeTourFramed, PressesFramed, ToastFramed DEF ShellNext
<1> QED
  BY <1>1, <1>2, TypeCorrect, ShellInvIsType, PTL DEF ShellSpec
=============================================================================
