----------------------------- MODULE ClientSession -----------------------------
(***************************************************************************)
(* One browser tab of the dashboard and its session: AuthContext, the      *)
(* response interceptor of services/api.ts, the sign-in forms and the      *)
(* route gate, the badge of NotificationContext, and the server's answers  *)
(* to them (auth.controller.ts, requireAuth.ts).                           *)
(*                                                                         *)
(* A call is sent with the cookie of that moment, answered by the server   *)
(* at another, and handed to the page at a third; answers overtake one     *)
(* another.  The browser stores or clears the cookie as it hands over the  *)
(* answer.  A token is named after its user.                               *)
(***************************************************************************)
EXTENDS Naturals, FiniteSets

CONSTANTS
    Users,
    Refreshes,    \* badge requests that may be in flight at once
    MaxFaults,    \* bound: calls without an answer, and expiries
    MaxReloads    \* bound: page loads after the first

ASSUME ClientSessionAssumption ==
    /\ MaxFaults \in Nat /\ MaxReloads \in Nat
    /\ "nobody" \notin Users
    /\ Refreshes \intersect {"me", "sign in", "logout"} = {}

None  == "nobody"
Calls == {"me", "sign in", "logout"} \union Refreshes

VARIABLES
    cookie,     \* whose token the browser holds
    user,       \* AuthContext.user
    isLoading,  \* AuthContext.isLoading
    page,       \* where the router is: a sign-in form or the app
    visible,    \* document.visibilityState
    badge,      \* unreadCount
    call,       \* per call: how far it is, whose it is, the answer
    unread,     \* the server: unread notifications of each user
    faults,
    reloads

vars == <<cookie, user, isLoading, page, visible, badge, call, unread, faults, reloads>>

Counts == 0 .. 1        \* bound: nothing unread, or something

Idle     == [st |-> "idle", as |-> None, said |-> "ok", count |-> 0]
Sent(as) == [Idle EXCEPT !.st = "sent", !.as = as]

TypeOK ==
    /\ cookie \in Users \union {None}
    /\ user \in Users \union {None}
    /\ isLoading \in BOOLEAN
    /\ page \in {"form", "app"}
    /\ visible \in BOOLEAN
    /\ badge \in Counts
    /\ call \in [Calls -> [st : {"idle", "sent", "answered"}, as : Users \union {None},
                           said : {"ok", "denied"}, count : Counts]]
    /\ unread \in [Users -> Counts]
    /\ faults \in 0 .. MaxFaults
    /\ reloads \in 0 .. MaxReloads

\* The app is loaded anywhere, with a cookie or without; the probe goes out.
Loading ==
    /\ user = None
    /\ isLoading = TRUE
    /\ badge = 0
    /\ visible = TRUE
    /\ call = [c \in Calls |-> IF c = "me" THEN Sent(cookie) ELSE Idle]

Init ==
    /\ cookie \in Users \union {None}
    /\ page \in {"form", "app"}
    /\ unread \in [Users -> Counts]
    /\ faults = 0
    /\ reloads = 0
    /\ Loading

-----------------------------------------------------------------------------
(* What setting the user brings about.                                     *)

\* ProtectedRoute, and the redirects of LoginPage and RegisterPage
Route(u, loading, p) ==
    IF loading THEN p ELSE IF u = None THEN "form" ELSE "app"

\* the effect of NotificationContext: the badge is asked for, or cleared
Refreshed(calls, u, token) ==
    LET free == {p \in Refreshes : calls[p].st = "idle"}
    IN  IF user = None /\ u # None /\ free # {}
        THEN {[calls EXCEPT ![p] = Sent(token)] : p \in free}
        ELSE {calls}

SetUser(u, calls, token, loading, p) ==
    /\ user' = u
    /\ isLoading' = loading
    /\ page' = Route(u, loading, p)
    /\ badge' = IF u = None THEN 0 ELSE badge
    /\ call' \in Refreshed(calls, u, token)

Done(c) == [call EXCEPT ![c] = Idle]

-----------------------------------------------------------------------------
(* The user.                                                               *)

\* Both forms are shown while the session is still being checked; the button waits for
\* the answer (bound: of one form at a time).
Submit(u) ==
    /\ page = "form"
    /\ isLoading \/ user = None
    /\ call["sign in"].st = "idle"
    /\ call' = [call EXCEPT !["sign in"] = Sent(u)]
    /\ UNCHANGED <<cookie, user, isLoading, page, visible, badge, unread, faults, reloads>>

SignIn(u)   == Submit(u)
Register(u) == Submit(u)

Logout ==
    /\ page = "app"
    /\ ~isLoading
    /\ call["logout"].st = "idle"
    /\ call' = [call EXCEPT !["logout"] = Sent(cookie)]
    /\ UNCHANGED <<cookie, user, isLoading, page, visible, badge, unread, faults, reloads>>

Reload ==
    /\ reloads < MaxReloads
    /\ reloads' = reloads + 1
    /\ user' = None /\ isLoading' = TRUE /\ badge' = 0 /\ visible' = TRUE
    /\ call' = [c \in Calls |-> IF c = "me" THEN Sent(cookie) ELSE Idle]
    /\ UNCHANGED <<cookie, page, unread, faults>>

Hide ==
    /\ visible
    /\ visible' = FALSE
    /\ UNCHANGED <<cookie, user, isLoading, page, badge, call, unread, faults, reloads>>

\* usePolling asks at once when the tab comes back.
Show ==
    /\ ~visible
    /\ visible' = TRUE
    /\ LET free == {p \in Refreshes : call[p].st = "idle"}
       IN  IF user # None /\ free # {}
           THEN \E p \in free : call' = [call EXCEPT ![p] = Sent(cookie)]
           ELSE UNCHANGED call
    /\ UNCHANGED <<cookie, user, isLoading, page, badge, unread, faults, reloads>>

PollBeforeSignIn(p) ==   \* bug: the interval is set up where the session is still unknown
    /\ visible
    /\ isLoading
    /\ call[p].st = "idle"
    /\ call' = [call EXCEPT ![p] = Sent(cookie)]
    /\ UNCHANGED <<cookie, user, isLoading, page, visible, badge, unread, faults, reloads>>

\* the interval of usePolling, running while the tab is visible and signed in
Poll(p) ==
    /\ visible
    /\ user # None
    /\ call[p].st = "idle"
    /\ call' = [call EXCEPT ![p] = Sent(cookie)]
    /\ UNCHANGED <<cookie, user, isLoading, page, visible, badge, unread, faults, reloads>>

-----------------------------------------------------------------------------
(* The server.                                                             *)

Answer(c, said, count) ==
    /\ call[c].st = "sent"
    /\ call' = [call EXCEPT ![c] = [@ EXCEPT !.st = "answered", !.said = said, !.count = count]]
    /\ UNCHANGED <<cookie, user, isLoading, page, visible, badge, unread, faults, reloads>>

\* requireAuth: no token, or one that is no longer good, is 401
Authorised(c) == call[c].as # None

ServeMe == Answer("me", IF Authorised("me") THEN "ok" ELSE "denied", 0)

\* wrong password, unknown account, address taken
ServeSignIn == \E said \in {"ok", "denied"} : Answer("sign in", said, 0)

\* POST /api/auth/logout asks for no session
ServeLogout == Answer("logout", "ok", 0)

ServeRefresh(p) ==
    IF Authorised(p) THEN Answer(p, "ok", unread[call[p].as]) ELSE Answer(p, "denied", 0)

Serve == ServeMe \/ ServeSignIn \/ ServeLogout \/ \E p \in Refreshes : ServeRefresh(p)

Notified(u) ==
    /\ \E n \in Counts \ {unread[u]} : unread' = [unread EXCEPT ![u] = n]
    /\ UNCHANGED <<cookie, user, isLoading, page, visible, badge, call, faults, reloads>>

-----------------------------------------------------------------------------
(* The answers.  A rejected call is one the interceptor turned into an     *)
(* error: the server's refusal, or no answer within the 20 seconds.        *)

Fault == faults < MaxFaults /\ faults' = faults + 1

Answered(c, said) ==
    /\ call[c].st = "answered"
    /\ call[c].said = said
    /\ UNCHANGED faults

\* on the way there or back
TimedOut(c) == call[c].st # "idle" /\ Fault

Rejected(c) == Answered(c, "denied") \/ TimedOut(c)

MeAnsweredOnly ==        \* bug: isLoading is cleared where the user is set
    \/ /\ Answered("me", "ok")
       /\ SetUser(call["me"].as, Done("me"), cookie, FALSE, page)
       /\ UNCHANGED <<cookie, visible, unread, reloads>>
    \/ /\ Rejected("me")
       /\ SetUser(None, Done("me"), cookie, isLoading, page)
       /\ UNCHANGED <<cookie, visible, unread, reloads>>

\* the effect of AuthProvider: then, catch, finally
MeAnswered ==
    /\ \/ /\ Answered("me", "ok")
          /\ SetUser(call["me"].as, Done("me"), cookie, FALSE, page)
       \/ /\ Rejected("me")
          /\ SetUser(None, Done("me"), cookie, FALSE, page)
    /\ UNCHANGED <<cookie, visible, unread, reloads>>

\* login and register; a refusal, 401 included, only shows in the form
SignInAnswered ==
    \/ /\ Answered("sign in", "ok")
       /\ cookie' = call["sign in"].as
       /\ SetUser(call["sign in"].as, Done("sign in"), cookie', isLoading, "app")
       /\ UNCHANGED <<visible, unread, reloads>>
    \/ /\ Rejected("sign in")
       /\ call' = Done("sign in")
       /\ UNCHANGED <<cookie, user, isLoading, page, visible, badge, unread, reloads>>

\* logout clears the user whether or not the server was reached
LogoutAnswered ==
    /\ \/ /\ Answered("logout", "ok")
          /\ cookie' = None
       \/ /\ TimedOut("logout")
          /\ UNCHANGED cookie
    /\ SetUser(None, Done("logout"), cookie', isLoading, page)
    /\ UNCHANGED <<visible, unread, reloads>>

RefreshAnsweredQuietly(p) ==   \* bug: a refused refresh is swallowed like any other failure
    /\ \/ /\ Answered(p, "ok")
          /\ badge' = call[p].count
       \/ /\ Rejected(p)
          /\ UNCHANGED badge
    /\ call' = Done(p)
    /\ UNCHANGED <<cookie, user, isLoading, page, visible, unread, reloads>>

\* refresh: the count, whoever it was asked for; a 401 is the interceptor's, and
\* signs out; any other failure waits for the next poll
RefreshAnswered(p) ==
    /\ \/ /\ Answered(p, "ok")
          /\ badge' = call[p].count
          /\ call' = Done(p)
          /\ UNCHANGED <<user, isLoading, page>>
       \/ /\ Answered(p, "denied")
          /\ SetUser(None, Done(p), cookie, isLoading, page)
       \/ /\ TimedOut(p)
          /\ call' = Done(p)
          /\ UNCHANGED <<user, isLoading, page, badge>>
    /\ UNCHANGED <<cookie, visible, unread, reloads>>

Hear == MeAnswered \/ SignInAnswered \/ LogoutAnswered \/ \E p \in Refreshes : RefreshAnswered(p)

\* The token's time is up: the browser drops the cookie, whose expiry is the
\* token's own, and the server refuses what is still on its way.
Expire ==
    /\ Fault
    /\ cookie # None
    /\ cookie' = None
    /\ call' = [c \in Calls |->
                   IF c \in {"me"} \union Refreshes /\ call[c].st = "sent" /\ call[c].as = cookie
                   THEN Sent(None) ELSE call[c]]
    /\ UNCHANGED <<user, isLoading, page, visible, badge, unread, reloads>>

Next ==
    \/ \E u \in Users : SignIn(u) \/ Register(u) \/ Notified(u)
    \/ Logout
    \/ Reload
    \/ Hide
    \/ Show
    \/ \E p \in Refreshes : Poll(p)
    \/ Serve
    \/ Hear
    \/ Expire

Spec == Init /\ [][Next]_vars

\* The server answers, the browser hands answers over, and the interval ticks.
FairSpec ==
    /\ Spec
    /\ WF_vars(ServeMe) /\ WF_vars(ServeSignIn) /\ WF_vars(ServeLogout)
    /\ WF_vars(MeAnswered) /\ WF_vars(SignInAnswered) /\ WF_vars(LogoutAnswered)
    /\ \A p \in Refreshes : WF_vars(ServeRefresh(p)) /\ WF_vars(RefreshAnswered(p))
    /\ WF_vars(\E p \in Refreshes : Poll(p))

-----------------------------------------------------------------------------

\* "Checking your session" is not for ever: whatever the server answers, and if it
\* does not, the route gate opens or sends to the form (AuthContext.tsx:44-56).
SpinnerEnds == isLoading ~> ~isLoading

\* A tab that shows a user though the browser holds no session any more (it expired,
\* or a probe that was answered after a sign-out brought the user back) finds out by
\* itself: its next badge request is refused, and the interceptor signs it out
\* (api.ts:126-131, AuthContext.tsx:65-69).
ExpiryNoticed ==
    []<>visible => ((user # None /\ cookie = None) ~> (user = None \/ cookie # None))

\* Whatever older answers overwrote it with, the badge of a session left alone comes
\* to show that user's unread count (NotificationContext.tsx:33-55).
BadgeCatchesUp ==
    \A u \in Users, n \in Counts :
        []<>visible /\ <>[](user = u /\ cookie = u /\ unread[u] = n) => <>[](badge = n)

=============================================================================
