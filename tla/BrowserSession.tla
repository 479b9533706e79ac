--------------------------- MODULE BrowserSession ---------------------------
(***************************************************************************)
(* A browser tab's session with the marketplace: the auth slice and what it *)
(* keeps in localStorage, the API client with its refresh on a 401, the     *)
(* effect that loads the session, the routes' guard, the sign-in, register  *)
(* and profile forms and the shell's sign-out and poll, against the tokens  *)
(* of auth-service.  Nothing cancels a call: any of them may be answered    *)
(* after the session it was made in has changed.                            *)
(*                                                                          *)
(* An access token and the refresh token issued with it always travel       *)
(* together, so a pair is one number; 0 is no token.                        *)
(***************************************************************************)
EXTENDS Naturals, Sequences

CONSTANTS
  Accounts,
  RoleOf,       \* the role of each account
  Registered,   \* the accounts that exist whenever the tab is opened
  Opened,       \* the pages the tab may be opened on
  Visited,      \* the pages the user then goes to by a link
  UserSlots,    \* bounds the calls of forms and of the shell in flight
  EffectSlots,  \* bounds the session loads of App's effect in flight
  MaxTokens,    \* bounds the pairs of tokens issued
  TokenIn,      \* where the refresh call puts the refresh token
  Faults,       \* of "unsent" (the request does not arrive), "lost" (the answer does not)
                \* and "unstored" (localStorage refuses a write)
  None

Roles == {"CUSTOMER", "SELLER", "ADMIN"}

\* App's route table: the roles each guarded route asks for, and the open routes.
GuardedPages == {"/profile", "/notifications", "/my-requests", "/my-offers", "/contacts",
                 "/admin/queue", "/admin/access"}
RouteRoles ==
  [p \in GuardedPages |->
     CASE p = "/my-requests" -> {"CUSTOMER"}
       [] p \in {"/my-offers", "/contacts"} -> {"SELLER"}
       [] p \in {"/admin/queue", "/admin/access"} -> {"ADMIN"}
       [] OTHER -> Roles]
OpenPages == {"/login", "/register", "/requests", "/requests/:id"}
Pages == GuardedPages \cup OpenPages \cup {"*"}

\* The pages AppLayout is drawn around.
ShellPages == Pages \ {"/login", "/register", "/profile", "*"}

Slots == UserSlots \cup EffectSlots
Tokens == 1..MaxTokens

ASSUME SessionConstants ==
  /\ RoleOf \in [Accounts -> Roles] /\ Registered \subseteq Accounts
  /\ Opened \cup Visited \subseteq Pages /\ UserSlots \cap EffectSlots = {}
  /\ MaxTokens \in Nat \ {0} /\ TokenIn \in {"header", "body"}
  /\ Faults \subseteq {"unsent", "lost", "unstored"} /\ None \notin Accounts \cup Pages
  /\ None \notin {"login", "register", "me", "profile"}
  /\ None \notin {"answered", "refresh", "rotating", "refreshed"}

VARIABLES
  session,    \* the auth slice, and as "stored" the token a reload reads from localStorage
  place,      \* the page shown, and the location state "from"
  effectDue,  \* App's effect has to run: its dependencies changed
  calls,      \* the thunk or form each slot is running
  accounts, profiles,  \* auth-service's users, and who has a role profile
  owner,      \* the account of each issued pair of tokens
  expired,    \* pairs whose access token has expired
  spent       \* pairs whose refresh token is rotated, revoked or expired

browserVars == <<session, place, effectDue, calls>>
serverVars == <<accounts, profiles, owner, expired, spent>>
sessionVars == <<browserVars, serverVars>>

-----------------------------------------------------------------------------
\* The slice's reducers, as functions of its state; "stored" is what they ask writeStored
\* to keep.
SignedOut(token) == [token |-> token, user |-> None, hasProfile |-> "unchecked",
                     status |-> "idle", stored |-> token]
TokensRefreshed(a, n) == [a EXCEPT !.token = n, !.stored = n]
ProfileCreated(a) == [a EXCEPT !.hasProfile = "present"]
SessionCleared(a) == SignedOut(0)
LoginPending(a) == [a EXCEPT !.status = "loading"]
LoginFulfilled(a, n) == [a EXCEPT !.token = n, !.stored = n, !.status = "authenticated"]
\* Mutant: the status left at loading.
LoginRejectedBusy(a) == a
LoginRejected(a) == [a EXCEPT !.status = "idle"]
LoadFulfilled(a, user, has) ==
  [a EXCEPT !.user = user, !.hasProfile = has, !.status = "authenticated"]
\* Mutant: the state updated but not localStorage.
LoadRejectedStateOnly(a) == [a EXCEPT !.token = 0, !.user = None, !.status = "idle"]
\* Mutant: an error taken for temporary, the tokens kept.
LoadRejectedKeepsToken(a) == [a EXCEPT !.user = None, !.status = "idle"]
LoadRejected(a) == [a EXCEPT !.token = 0, !.stored = 0, !.user = None, !.status = "idle"]

\* Mutant: the guard without its check of the pathname.
RedirectFromAnywhere(p, a) ==
  IF p = "*" THEN "/requests"
  ELSE IF p \in OpenPages THEN None
  ELSE IF a.token = 0 THEN "/login"
  ELSE IF a.user = None THEN None
  ELSE IF a.hasProfile = "absent" THEN "/profile"
  ELSE IF RoleOf[a.user] \notin RouteRoles[p] THEN "/requests"
  ELSE IF p = "/profile" /\ a.hasProfile = "present" THEN "/requests"
  ELSE None

\* Where ProtectedRoute, ProfileSetup and the catch-all route send who opens a page.
RedirectFrom(p, a) ==
  IF p = "*" THEN "/requests"
  ELSE IF p \in OpenPages THEN None
  ELSE IF a.token = 0 THEN "/login"
  ELSE IF a.user = None THEN None
  ELSE IF a.hasProfile = "absent" /\ p # "/profile" THEN "/profile"
  ELSE IF RoleOf[a.user] \notin RouteRoles[p] THEN "/requests"
  ELSE IF p = "/profile" /\ a.hasProfile = "present" THEN "/requests"
  ELSE None

\* One <Navigate>: a redirect to the login form remembers the page it came from.
Hop(at, a) ==
  LET to == RedirectFrom(at.page, a)
  IN  IF to = None THEN at
      ELSE [page |-> to, from |-> IF to = "/login" THEN at.page ELSE None]

\* Two redirects are as far as the routes go (RedirectsSettle).
Landing(at, a) == Hop(Hop(at, a), a)

\* What the reducer's writeStored leaves.  A setItem that throws is ignored, and what was
\* stored before stays.  A removal leaves nothing to read: where it throws, so does getItem.
Written(a) ==
  {a} \cup IF a.stored # 0 /\ "unstored" \in Faults
           THEN {[a EXCEPT !.stored = session.stored]} ELSE {}

\* The store changes, the page is drawn again from it, and App's effect is due if the
\* token or the user changed and there is a token without a user.
Show(a, at) ==
  /\ session' \in Written(a)
  /\ place' = Landing(at, a)
  /\ effectDue' = (/\ a.token # 0 /\ a.user = None
                   /\ effectDue \/ a.token # session.token \/ a.user # session.user)

-----------------------------------------------------------------------------
NoCall == [op |-> None, leg |-> None, who |-> None, token |-> 0, bearer |-> 0,
           retried |-> FALSE, at |-> None, status |-> None, body |-> None, then |-> None]

\* A call of api(): op is the function it is made for, leg the endpoint, token the one
\* read when op began, who an account (credentials, or the one /users/me answered).
Send(op, leg, who, token, then) ==
  [NoCall EXCEPT !.op = op, !.leg = leg, !.who = who, !.token = token, !.bearer = token,
                 !.at = "wire", !.then = then]

\* login, register, logout and refresh are sent with skipAuthRetry.
SkipAuthRetry == {"login", "register", "logout"}

Free(slots) == {s \in slots : calls[s] = NoCall}

Begin(slots, call) ==
  /\ Free(slots) # {}
  /\ calls' = [calls EXCEPT ![CHOOSE s \in Free(slots) : TRUE] = call]

Running(op) == \E s \in Slots : calls[s].op = op

\* The tab is opened or reloaded on a page, with what localStorage kept: nothing, or a
\* pair that may have expired or been revoked since.  The store starts from it.
SessionInit ==
  /\ accounts \in SUBSET Accounts /\ Registered \subseteq accounts
  /\ \/ owner = <<>> /\ expired = {} /\ spent = {} /\ profiles = {}
     \/ /\ \E who \in accounts : owner = <<who>> /\ profiles \in SUBSET {who}
        /\ expired \in SUBSET {1} /\ spent \in SUBSET expired
  /\ session = SignedOut(Len(owner))
  /\ \E p \in Opened : place = Landing([page |-> p, from |-> None], session)
  /\ effectDue = (session.token # 0)
  /\ calls = [s \in Slots |-> NoCall]

\* App's effect.
RunEffect ==
  /\ effectDue
  /\ Begin(EffectSlots, Send("effect", "me", None, session.token, None))
  /\ effectDue' = FALSE
  /\ UNCHANGED <<session, place, serverVars>>

\* Login.submit; the form is disabled while the slice is loading.
SubmitLogin(who) ==
  /\ place.page = "/login" /\ session.status # "loading"
  /\ Begin(UserSlots, Send("submitLogin", "login", who, 0,
                           IF place.from = None THEN "/requests" ELSE place.from))
  /\ Show(LoginPending(session), place)
  /\ UNCHANGED serverVars

\* Register.submit: an account is a customer's or a seller's.
SubmitRegister(who) ==
  /\ place.page = "/register" /\ session.status # "loading" /\ RoleOf[who] # "ADMIN"
  /\ Begin(UserSlots, Send("submitRegister", "register", who, 0, "/profile"))
  /\ Show(LoginPending(session), place)
  /\ UNCHANGED serverVars

\* ProfileSetup.submit; the button is disabled while it is saving.
SaveProfile ==
  /\ place.page = "/profile" /\ session.user # None /\ ~Running("saveProfile")
  /\ Begin(UserSlots, Send("saveProfile", "create", None, session.token, "/requests"))
  /\ UNCHANGED <<session, place, effectDue, serverVars>>

\* AppLayout's signOut, in the menu of a signed-in account.
SignOut ==
  /\ place.page \in ShellPages /\ session.user # None /\ ~Running("signOut")
  /\ Begin(UserSlots, Send("signOut", "logout", None, session.token, "/login"))
  /\ UNCHANGED <<session, place, effectDue, serverVars>>

\* The unread poll, standing for every authorised call a page makes beside the session's.
Poll ==
  /\ place.page \in ShellPages /\ session.user # None /\ ~Running("poll")
  /\ Begin(UserSlots, Send("poll", "unread", None, session.token, None))
  /\ UNCHANGED <<session, place, effectDue, serverVars>>

\* The sign-in links of the shell and of its pages carry the page along.
CarriedTo(p) ==
  CASE p = place.page -> place.from
    [] p = "/login" /\ place.page \in ShellPages -> place.page
    [] OTHER -> None

\* A link, or the browser's back button.
Visit(p) ==
  /\ place' = Landing([page |-> p, from |-> CarriedTo(p)], session)
  /\ UNCHANGED <<session, effectDue, calls, serverVars>>

-----------------------------------------------------------------------------
\* auth-service and the profile services.
Authorised(c) == c.bearer # 0 /\ c.bearer \notin expired

Answer(s, status, body) ==
  calls' = [calls EXCEPT ![s].at = "answered", ![s].status = status, ![s].body = body]

\* Mutant: the new refresh token is not recorded.
IssueUnrecorded(who) == Len(owner) < MaxTokens /\ UNCHANGED owner

\* recordRefreshToken, for a login or a rotation.
Issue(who) == Len(owner) < MaxTokens /\ owner' = Append(owner, who)

TokensOf(who) == {n \in 1..Len(owner) : owner[n] = who}

\* AuthServiceImpl.login (a wrong password is answered like an unknown account).
ServeLogin(s) ==
  LET who == calls[s].who
  IN  /\ calls[s].leg = "login"
      /\ \/ /\ who \in accounts /\ Issue(who)
            /\ Answer(s, "ok", Len(owner) + 1)
         \/ /\ UNCHANGED owner
            /\ Answer(s, "401", None)
      /\ UNCHANGED <<accounts, profiles, expired, spent>>

ServeRegister(s) ==
  LET who == calls[s].who
  IN  /\ calls[s].leg = "register"
      /\ Answer(s, IF who \in accounts THEN "409" ELSE "ok", None)
      /\ accounts' = accounts \cup {who}
      /\ UNCHANGED <<profiles, owner, expired, spent>>

\* The calls made with an access token, which is checked by its signature and expiry
\* alone.  Logout revokes every refresh token of its account.
ServeAuthorised(s) ==
  LET c == calls[s]  who == owner[c.bearer]
  IN  /\ c.leg \in {"me", "profile", "create", "logout", "unread"}
      /\ IF ~Authorised(c)
         THEN Answer(s, "401", None) /\ UNCHANGED <<profiles, spent>>
         ELSE \/ /\ c.leg = "me" /\ Answer(s, "ok", who)
                 /\ UNCHANGED <<profiles, spent>>
              \/ /\ c.leg = "profile"
                 /\ Answer(s, IF who \in profiles THEN "ok" ELSE "404", None)
                 /\ UNCHANGED <<profiles, spent>>
              \/ /\ c.leg = "create"
                 /\ Answer(s, IF who \in profiles THEN "409" ELSE "ok", None)
                 /\ profiles' = profiles \cup {who} /\ UNCHANGED spent
              \/ /\ c.leg = "logout" /\ Answer(s, "ok", None)
                 /\ spent' = spent \cup TokensOf(who) /\ UNCHANGED profiles
              \/ /\ c.leg = "unread" /\ Answer(s, "ok", None)
                 /\ UNCHANGED <<profiles, spent>>
      /\ UNCHANGED <<accounts, owner, expired>>

Serve(s) ==
  /\ calls[s].at = "wire"
  /\ ServeLogin(s) \/ ServeRegister(s) \/ ServeAuthorised(s)
  /\ UNCHANGED <<session, place, effectDue>>

\* refreshToken reads the stored token, and rotates it in a later statement.  The
\* controller takes the token from the X-Refresh-Token header: without it, a 500.
CheckRefresh(s) ==
  /\ calls[s].at = "refresh"
  /\ IF TokenIn = "header" /\ calls[s].body \notin spent
     THEN calls' = [calls EXCEPT ![s].at = "rotating"]
     ELSE calls' = [calls EXCEPT ![s].at = "refreshed", ![s].status = "failed"]
  /\ UNCHANGED <<session, place, effectDue, serverVars>>

RotateRefresh(s) ==
  /\ calls[s].at = "rotating"
  /\ Issue(owner[calls[s].body])
  /\ spent' = spent \cup {calls[s].body}
  /\ calls' = [calls EXCEPT ![s].at = "refreshed", ![s].status = "ok",
                            ![s].body = Len(owner) + 1]
  /\ UNCHANGED <<session, place, effectDue, accounts, profiles, expired>>

\* The request never arrives or is answered 5xx, or the answer is lost: fetch rejects.
\* Past MaxTokens every login and refresh ends this way.
Fail(s) ==
  /\ \/ calls[s].at \in {"wire", "refresh"} /\ "unsent" \in Faults
     \/ calls[s].at \in {"answered", "refreshed"} /\ calls[s].status # "failed"
        /\ "lost" \in Faults
     \/ calls[s].at = "rotating" /\ Len(owner) = MaxTokens
  /\ calls' = [calls EXCEPT ![s].status = "failed", ![s].body = None,
         ![s].at = IF @ \in {"wire", "answered"} THEN "answered" ELSE "refreshed"]
  /\ UNCHANGED <<session, place, effectDue, serverVars>>

-----------------------------------------------------------------------------
Goes(s, call) == calls' = [calls EXCEPT ![s] = call]

\* The op is over with the store at a; the forms and signOut navigate on.
Ends(s, a) ==
  LET then == calls[s].then
  IN  /\ Goes(s, NoCall)
      /\ Show(a, IF then = None THEN place ELSE [page |-> then, from |-> None])

\* The op is over and stays where it is.
Stays(s, a) == Goes(s, NoCall) /\ Show(a, place)

\* login settles: its form goes on to load the session.
LoginSettled(s, c) ==
  /\ c.leg = "login"
  /\ \/ /\ c.status = "ok"
        /\ Goes(s, Send(c.op, "me", None, c.body, c.then))
        /\ Show(LoginFulfilled(session, c.body), place)
     \/ c.status # "ok" /\ Stays(s, LoginRejected(session))

\* register signs the new account in; a refusal leaves the form.
RegisterSettled(s, c) ==
  /\ c.leg = "register"
  /\ \/ /\ c.status = "ok"
        /\ Goes(s, Send(c.op, "login", c.who, 0, c.then))
        /\ Show(LoginPending(session), place)
     \/ c.status # "ok" /\ Stays(s, LoginRejected(session))

\* loadSession: the account, then its profile with the token read at the start.
LoadSettled(s, c) ==
  \/ /\ c.leg = "me" /\ c.status = "ok" /\ RoleOf[c.body] = "ADMIN"
     /\ Ends(s, LoadFulfilled(session, c.body, "present"))
  \/ /\ c.leg = "me" /\ c.status = "ok" /\ RoleOf[c.body] # "ADMIN"
     /\ Goes(s, Send(c.op, "profile", c.body, c.token, c.then))
     /\ UNCHANGED <<session, place, effectDue>>
  \/ /\ c.leg = "profile" /\ c.status \in {"ok", "404"}
     /\ Ends(s, LoadFulfilled(session, c.who, IF c.status = "ok" THEN "present" ELSE "absent"))
  \/ /\ c.leg \in {"me", "profile"} /\ c.status \notin {"ok", "404"}
     /\ Ends(s, LoadRejected(session))

\* ProfileSetup.submit, signOut (the client's session goes either way) and the poll.
OtherSettled(s, c) ==
  \/ c.leg = "create" /\ c.status = "ok" /\ Ends(s, ProfileCreated(session))
  \/ c.leg = "create" /\ c.status # "ok" /\ Stays(s, session)
  \/ c.leg = "logout" /\ Ends(s, SessionCleared(session))
  \/ c.leg = "unread" /\ Stays(s, session)

\* api() returns or throws, and what awaited it goes on.
Settled(s, c) ==
  LoginSettled(s, c) \/ RegisterSettled(s, c) \/ LoadSettled(s, c)
    \/ OtherSettled(s, c)

MayRefresh(c) == c.status = "401" /\ c.leg \notin SkipAuthRetry /\ ~c.retried

\* A 401 asks for a refresh, once a call, with the refresh token the store has now;
\* without one the 401 stands.
Settle(s) ==
  LET c == calls[s]
  IN  /\ c.at = "answered"
      /\ IF MayRefresh(c) /\ session.token # 0
         THEN /\ Goes(s, [c EXCEPT !.at = "refresh", !.status = None,
                                   !.body = session.token])
              /\ UNCHANGED <<session, place, effectDue>>
         ELSE Settled(s, c)
      /\ UNCHANGED serverVars

\* installRefresh's handler: the new pair goes to the store and the call is sent again
\* with it; a failed refresh clears the session and the call is left with its 401.
SettleRefresh(s) ==
  LET c == calls[s]
  IN  /\ c.at = "refreshed"
      /\ \/ /\ c.status = "ok"
            /\ Goes(s, [c EXCEPT !.at = "wire", !.status = None, !.body = None,
                                 !.bearer = c.body, !.retried = TRUE])
            /\ Show(TokensRefreshed(session, c.body), place)
         \/ /\ c.status # "ok"
            /\ Goes(s, [c EXCEPT !.at = "answered", !.status = "401", !.body = None,
                                 !.retried = TRUE])
            /\ Show(SessionCleared(session), place)
      /\ UNCHANGED serverVars

-----------------------------------------------------------------------------
\* The pairs the tab holds or is sending; what becomes of the others it cannot tell.
Held == {session.token} \cup {calls[s].token : s \in Slots} \cup {calls[s].bearer : s \in Slots}

\* The access token of a pair expires, and later its refresh token.
Expire(n) ==
  /\ n \in Held \ expired /\ expired' = expired \cup {n}
  /\ UNCHANGED <<browserVars, accounts, profiles, owner, spent>>
Lapse(n) ==
  /\ n \in (Held \cap expired) \ spent /\ spent' = spent \cup {n}
  /\ UNCHANGED <<browserVars, accounts, profiles, owner, expired>>

Proceeds(s) ==
  Serve(s) \/ CheckRefresh(s) \/ RotateRefresh(s) \/ Fail(s) \/ Settle(s) \/ SettleRefresh(s)

SessionNext ==
  \/ RunEffect \/ SaveProfile \/ SignOut \/ Poll
  \/ \E who \in Accounts : SubmitLogin(who) \/ SubmitRegister(who)
  \/ \E p \in Visited : Visit(p)
  \/ \E s \in Slots : Proceeds(s)
  \/ \E n \in 1..Len(owner) : Expire(n) \/ Lapse(n)

SessionSpec == SessionInit /\ [][SessionNext]_sessionVars

\* An effect that is due runs, and a call is answered or fails and its promise settles;
\* nobody has to sign in, or let a token expire.
SessionFairness ==
  /\ WF_sessionVars(RunEffect)
  /\ \A s \in Slots : WF_sessionVars(Proceeds(s))
SessionFairSpec == SessionSpec /\ SessionFairness

-----------------------------------------------------------------------------
\* The session, the calls in flight and the server's tables have their types, and every
\* token the tab holds or sends was issued.
SessionTypeOK ==
  /\ owner \in Seq(accounts) /\ Len(owner) <= MaxTokens
  /\ session.token \in 0..Len(owner) /\ session.stored \in 0..Len(owner)
  /\ session.user \in Accounts \cup {None}
  /\ session.hasProfile \in {"unchecked", "absent", "present"}
  /\ session.status \in {"idle", "loading", "authenticated"}
  /\ place.page \in Pages /\ place.from \in Pages \cup {None} /\ effectDue \in BOOLEAN
  /\ \A s \in Slots : calls[s].token \in 0..Len(owner) /\ calls[s].bearer \in 0..Len(owner)
  /\ accounts \subseteq Accounts /\ profiles \subseteq accounts
  /\ expired \subseteq 1..Len(owner) /\ spent \subseteq 1..Len(owner)

\* "Every path that ends the session has to remove them" (authSlice.test.ts): whatever
\* calls settle after one another and whichever writes localStorage refused (writeStored), a
\* tab whose session has ended leaves no token behind for a reload (readStored) to bring back.
EndedIsForgotten == session.token = 0 => session.stored = 0

\* Whatever the store holds, the guard's redirects come to a page in at most two hops and
\* never send a page to itself (protected-route.test.tsx, "the infinite redirect").
RedirectsSettle ==
  \A p \in Pages : RedirectFrom(Landing([page |-> p, from |-> None], session).page, session) = None

\* "Loading your session...": a token whose owner is not known yet is resolved or dropped,
\* through expiry, lost answers, refreshes and other sign-ins.
SpinnerEnds ==
  (session.token # 0 /\ session.user = None) ~> (session.token = 0 \/ session.user # None)

\* The forms' disabled state ends.
BusyEnds == (session.status = "loading") ~> (session.status # "loading")

\* "The refresh token is spent or revoked; there is nothing left to retry with"
\* (auth/refresh.ts): a refresh that fails and clears the session had a spent token.
ClearedOnlyWhenSpent ==
  [][\A s \in Slots :
       calls[s].at = "refreshed" /\ calls[s].status = "failed" /\ calls'[s] # calls[s]
         => calls[s].body \in spent]_sessionVars
=============================================================================
