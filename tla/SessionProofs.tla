---------------------------- MODULE SessionProofs ----------------------------
(***************************************************************************)
(* Proofs about BrowserSession for any number of calls in flight, tokens and  *)
(* accounts, and any writes localStorage refuses: a session that ended is not *)
(* stored, the session is well typed, and the routes never redirect in circles. *)
(***************************************************************************)
EXTENDS BrowserSession, TLAPS

\* The slice has its fields, and without a token nothing is stored.
Coherent(a) ==
  /\ DOMAIN a = {"token", "user", "hasProfile", "status", "stored"}
  /\ a.token = 0 => a.stored = 0

Forgotten == Coherent(session)

\* Every reducer of the slice that drops the tokens asks for the stored ones to go.
LEMMA ReducersCohere ==
  ASSUME NEW a, Coherent(a), NEW n, NEW user, NEW has
  PROVE  /\ Coherent(SignedOut(n)) /\ Coherent(TokensRefreshed(a, n))
         /\ Coherent(ProfileCreated(a)) /\ Coherent(SessionCleared(a))
         /\ Coherent(LoginPending(a)) /\ Coherent(LoginFulfilled(a, n))
         /\ Coherent(LoginRejected(a)) /\ Coherent(LoadFulfilled(a, user, has))
         /\ Coherent(LoadRejected(a))
<1>1. Coherent(SignedOut(n)) /\ Coherent(SessionCleared(a))
  BY DEF Coherent, SignedOut, SessionCleared
<1>2. Coherent(TokensRefreshed(a, n)) /\ Coherent(LoginFulfilled(a, n))
  BY DEF Coherent, TokensRefreshed, LoginFulfilled
<1>3. Coherent(ProfileCreated(a)) /\ Coherent(LoginPending(a)) /\ Coherent(LoginRejected(a))
  BY DEF Coherent, ProfileCreated, LoginPending, LoginRejected
<1>4. Coherent(LoadFulfilled(a, user, has)) /\ Coherent(LoadRejected(a))
  BY DEF Coherent, LoadFulfilled, LoadRejected
<1>5. QED
  BY <1>1, <1>2, <1>3, <1>4

\* A write that localStorage refuses leaves tokens behind only while there is a session.
LEMMA ShownCoheres ==
  ASSUME NEW a, Coherent(a), NEW at, Show(a, at)
  PROVE  Coherent(session')
<1>1. session' \in {a, [a EXCEPT !.stored = session.stored]}
      /\ (session' # a => a.stored # 0)
  BY DEF Show, Written
<1>2. CASE session' = a
  BY <1>2
<1>3. CASE session' = [a EXCEPT !.stored = session.stored] /\ a.stored # 0
  BY <1>3 DEF Coherent
<1>4. QED
  BY <1>1, <1>2, <1>3

\* What settles in the tab is always one of the reducers, or nothing.
LEMMA SettledCoheres ==
  ASSUME NEW s \in Slots, NEW c, Coherent(session), Settled(s, c)
  PROVE  Coherent(session')
<1>1. CASE LoginSettled(s, c)
  BY <1>1, ReducersCohere, ShownCoheres DEF LoginSettled, Stays
<1>2. CASE RegisterSettled(s, c)
  BY <1>2, ReducersCohere, ShownCoheres DEF RegisterSettled, Stays
<1>3. CASE LoadSettled(s, c)
  BY <1>3, ReducersCohere, ShownCoheres DEF LoadSettled, Ends
<1>4. CASE OtherSettled(s, c)
  BY <1>4, ReducersCohere, ShownCoheres DEF OtherSettled, Ends, Stays
<1>5. QED
  BY <1>1, <1>2, <1>3, <1>4 DEF Settled

\* No step of a call in flight ends the session and leaves its tokens stored.
LEMMA ProceedingCoheres ==
  ASSUME NEW s \in Slots, Coherent(session), Proceeds(s)
  PROVE  Coherent(session')
<1>1. CASE Serve(s) \/ CheckRefresh(s) \/ RotateRefresh(s) \/ Fail(s)
  BY <1>1 DEF Serve, CheckRefresh, RotateRefresh, Fail
<1>2. CASE Settle(s)
  BY <1>2, SettledCoheres DEF Settle
<1>3. CASE SettleRefresh(s)
  BY <1>3, ReducersCohere, ShownCoheres DEF SettleRefresh
<1>4. QED
  BY <1>1, <1>2, <1>3 DEF Proceeds

\* Whatever calls settle, in whatever order, and whichever writes localStorage refuses, a
\* session that has ended in the tab is not found again by a reload (writeStored, readStored).
THEOREM EndedForgotten == SessionSpec => []EndedIsForgotten
<1>1. SessionInit => Forgotten
  BY DEF SessionInit, SignedOut, Coherent, Forgotten
<1>2. Forgotten /\ [SessionNext]_sessionVars => Forgotten'
  <2> SUFFICES ASSUME Coherent(session), [SessionNext]_sessionVars
               PROVE  Coherent(session')
    BY DEF Forgotten
  <2>1. CASE RunEffect \/ SaveProfile \/ SignOut \/ Poll
    BY <2>1 DEF RunEffect, SaveProfile, SignOut, Poll
  <2>2. ASSUME NEW who \in Accounts, SubmitLogin(who) \/ SubmitRegister(who)
        PROVE  Coherent(session')
    BY <2>2, ReducersCohere, ShownCoheres DEF SubmitLogin, SubmitRegister
  <2>3. ASSUME NEW p \in Visited, Visit(p)
        PROVE  Coherent(session')
    BY <2>3 DEF Visit
  <2>4. ASSUME NEW s \in Slots, Proceeds(s)
        PROVE  Coherent(session')
    BY <2>4, ProceedingCoheres
  <2>5. ASSUME NEW n \in 1..Len(owner), Expire(n) \/ Lapse(n)
        PROVE  Coherent(session')
    BY <2>5 DEF Expire, Lapse, browserVars
  <2>6. CASE UNCHANGED sessionVars
    BY <2>6 DEF sessionVars, browserVars
  <2>7. QED
    BY <2>1, <2>2, <2>3, <2>4, <2>5, <2>6 DEF SessionNext
<1>3. Forgotten => EndedIsForgotten
  BY DEF Forgotten, Coherent, EndedIsForgotten
<1>4. QED
  BY <1>1, <1>2, <1>3, PTL DEF SessionSpec

-----------------------------------------------------------------------------
\* The types, for any number of tokens issued: m of them.
CallFields == {"op", "leg", "who", "token", "bearer", "retried", "at", "status", "body", "then"}

SliceOK(a, m) ==
  /\ DOMAIN a = {"token", "user", "hasProfile", "status", "stored"}
  /\ a.token \in 0..m /\ a.stored \in 0..m
  /\ a.user \in Accounts \cup {None}
  /\ a.hasProfile \in {"unchecked", "absent", "present"}
  /\ a.status \in {"idle", "loading", "authenticated"}

\* What a call carries from leg to leg: the account it is for, the token a refresh
\* presents, the token or the account an answer brings.
CallOK(c, m) ==
  /\ DOMAIN c = CallFields
  /\ c.token \in 0..m /\ c.bearer \in 0..m
  /\ c.then \in Pages \cup {None}
  /\ c.leg \in {"login", "register", "profile"} => c.who \in Accounts
  /\ c.at \in {"refresh", "rotating"} => c.body \in 1..m
  /\ c.at = "refreshed" /\ c.status = "ok" => c.body \in 1..m
  /\ c.at = "answered" /\ c.status = "ok" /\ c.leg = "login" => c.body \in 1..m
  /\ c.at = "answered" /\ c.status = "ok" /\ c.leg = "me" => c.body \in Accounts

CallsOK == DOMAIN calls = Slots /\ \A s \in Slots : CallOK(calls[s], Len(owner))

PlaceOK(at) == at.page \in Pages /\ at.from \in Pages \cup {None}

ServerOK ==
  /\ owner \in Seq(accounts) /\ Len(owner) <= MaxTokens
  /\ accounts \subseteq Accounts /\ profiles \subseteq accounts
  /\ expired \subseteq 1..Len(owner) /\ spent \subseteq 1..Len(owner)

BrowserOK == SliceOK(session, Len(owner)) /\ PlaceOK(place) /\ effectDue \in BOOLEAN

SessionInv == ServerOK /\ BrowserOK /\ CallsOK

\* Tokens are only ever added.
LEMMA MoreTokens ==
  ASSUME NEW m \in Nat, NEW n \in Nat, m <= n
  PROVE  /\ \A a : SliceOK(a, m) => SliceOK(a, n)
         /\ \A c : CallOK(c, m) => CallOK(c, n)
  BY DEF SliceOK, CallOK

\* Redirects lead to pages.
LEMMA LandsOnAPage ==
  ASSUME NEW at, NEW a, PlaceOK(at)
  PROVE  PlaceOK(Landing(at, a))
<1>1. ASSUME NEW x, PlaceOK(x)
      PROVE  PlaceOK(Hop(x, a))
  <2>1. RedirectFrom(x.page, a) \in {None, "/requests", "/login", "/profile"}
    BY DEF RedirectFrom
  <2> DEFINE to == RedirectFrom(x.page, a)
  <2>2. to \in Pages \cup {None}
    BY <2>1 DEF Pages, GuardedPages, OpenPages
  <2> HIDE DEF to
  <2>3. Hop(x, a) = IF to = None THEN x
                    ELSE [page |-> to, from |-> IF to = "/login" THEN x.page ELSE None]
    BY DEF Hop, to
  <2>4. QED
    BY <1>1, <2>2, <2>3 DEF PlaceOK
<1>2. QED
  BY <1>1 DEF Landing

\* The page drawn again.
LEMMA Drawn ==
  ASSUME NEW m, SliceOK(session, m), NEW a, SliceOK(a, m), NEW at, PlaceOK(at),
         effectDue \in BOOLEAN, Show(a, at)
  PROVE  SliceOK(session', m) /\ PlaceOK(place') /\ effectDue' \in BOOLEAN
<1>0. SliceOK([a EXCEPT !.stored = session.stored], m)
  BY DEF SliceOK
<1>1. SliceOK(session', m) /\ place' = Landing(at, a)
  BY <1>0 DEF Show, Written
<1>2. effectDue' \in BOOLEAN
  BY DEF Show
<1>3. QED
  BY <1>1, <1>2, LandsOnAPage

\* A call just sent.
LEMMA SentOK ==
  ASSUME NEW m \in Nat, NEW op, NEW leg, NEW who, NEW token \in 0..m,
         NEW then \in Pages \cup {None},
         leg \in {"login", "register", "profile"} => who \in Accounts
  PROVE  CallOK(Send(op, leg, who, token, then), m)
  BY DEF CallOK, CallFields, Send, NoCall

\* A call put into a slot, no tokens being issued.
LEMMA Placed ==
  ASSUME SessionInv, owner' = owner, NEW slot \in Slots, NEW call, CallOK(call, Len(owner)),
         calls' = [calls EXCEPT ![slot] = call]
  PROVE  CallsOK'
<1>1. DOMAIN calls' = Slots /\ \A s \in Slots : calls'[s] = IF s = slot THEN call ELSE calls[s]
  BY DEF SessionInv, CallsOK
<1>2. QED
  BY <1>1 DEF SessionInv, CallsOK

\* A function of the tab begins.
LEMMA Begun ==
  ASSUME SessionInv, owner' = owner, NEW slots \in SUBSET Slots, NEW call,
         CallOK(call, Len(owner)), Begin(slots, call)
  PROVE  CallsOK'
<1> DEFINE slot == CHOOSE s \in Free(slots) : TRUE
<1>1. slot \in Slots
  BY DEF Begin, Free
<1>2. calls' = [calls EXCEPT ![slot] = call]
  BY DEF Begin
<1> HIDE DEF slot
<1>3. QED
  BY <1>1, <1>2, Placed

\* The user's acts and the effect.
LEMMA UserStep ==
  ASSUME SessionInv,
         \/ RunEffect \/ SaveProfile \/ SignOut \/ Poll
         \/ \E who \in Accounts : SubmitLogin(who) \/ SubmitRegister(who)
         \/ \E p \in Visited : Visit(p)
  PROVE  SessionInv'
<1> DEFINE m == Len(owner)
<1>1. /\ m \in Nat /\ SliceOK(session, m) /\ PlaceOK(place) /\ effectDue \in BOOLEAN
      /\ session.token \in 0..m /\ 0 \in 0..m
      /\ UserSlots \in SUBSET Slots /\ EffectSlots \in SUBSET Slots
  BY DEF SessionInv, BrowserOK, ServerOK, SliceOK, Slots
<1>2. None \in Pages \cup {None} /\ "/requests" \in Pages /\ "/login" \in Pages
      /\ "/profile" \in Pages /\ place.from \in Pages \cup {None}
  BY <1>1 DEF Pages, OpenPages, GuardedPages, PlaceOK
<1> HIDE DEF m
<1>3. CASE RunEffect
  <2>1. CallOK(Send("effect", "me", None, session.token, None), m)
    BY <1>1, <1>2, SentOK
  <2>2. CallsOK'
    BY <1>1, <1>3, <2>1, Begun DEF RunEffect, serverVars, m
  <2>3. QED
    BY <1>3, <2>2 DEF RunEffect, serverVars, SessionInv, ServerOK, BrowserOK
<1>4. CASE SaveProfile
  <2>1. CallOK(Send("saveProfile", "create", None, session.token, "/requests"), m)
    BY <1>1, <1>2, SentOK
  <2>2. CallsOK'
    BY <1>1, <1>4, <2>1, Begun DEF SaveProfile, serverVars, m
  <2>3. QED
    BY <1>4, <2>2 DEF SaveProfile, serverVars, SessionInv, ServerOK, BrowserOK
<1>5. CASE SignOut
  <2>1. CallOK(Send("signOut", "logout", None, session.token, "/login"), m)
    BY <1>1, <1>2, SentOK
  <2>2. CallsOK'
    BY <1>1, <1>5, <2>1, Begun DEF SignOut, serverVars, m
  <2>3. QED
    BY <1>5, <2>2 DEF SignOut, serverVars, SessionInv, ServerOK, BrowserOK
<1>6. CASE Poll
  <2>1. CallOK(Send("poll", "unread", None, session.token, None), m)
    BY <1>1, <1>2, SentOK
  <2>2. CallsOK'
    BY <1>1, <1>6, <2>1, Begun DEF Poll, serverVars, m
  <2>3. QED
    BY <1>6, <2>2 DEF Poll, serverVars, SessionInv, ServerOK, BrowserOK
<1>7. ASSUME NEW who \in Accounts, SubmitLogin(who)
      PROVE  SessionInv'
  <2> DEFINE then == IF place.from = None THEN "/requests" ELSE place.from
  <2>1. CallOK(Send("submitLogin", "login", who, 0, then), m)
    BY <1>1, <1>2, SentOK
  <2>2. CallsOK'
    BY <1>1, <1>7, <2>1, Begun DEF SubmitLogin, serverVars, m
  <2>3. SliceOK(LoginPending(session), m)
    BY <1>1 DEF SliceOK, LoginPending
  <2>4. SliceOK(session', m) /\ PlaceOK(place') /\ effectDue' \in BOOLEAN
    BY <1>1, <1>7, <2>3, Drawn DEF SubmitLogin
  <2>5. QED
    BY <1>7, <2>2, <2>4 DEF SubmitLogin, serverVars, SessionInv, ServerOK, BrowserOK, m
<1>8. ASSUME NEW who \in Accounts, SubmitRegister(who)
      PROVE  SessionInv'
  <2>1. CallOK(Send("submitRegister", "register", who, 0, "/profile"), m)
    BY <1>1, <1>2, SentOK
  <2>2. CallsOK'
    BY <1>1, <1>8, <2>1, Begun DEF SubmitRegister, serverVars, m
  <2>3. SliceOK(LoginPending(session), m)
    BY <1>1 DEF SliceOK, LoginPending
  <2>4. SliceOK(session', m) /\ PlaceOK(place') /\ effectDue' \in BOOLEAN
    BY <1>1, <1>8, <2>3, Drawn DEF SubmitRegister
  <2>5. QED
    BY <1>8, <2>2, <2>4 DEF SubmitRegister, serverVars, SessionInv, ServerOK, BrowserOK, m
<1>9. ASSUME NEW p \in Visited, Visit(p)
      PROVE  SessionInv'
  <2> DEFINE at == [page |-> p, from |-> CarriedTo(p)]
  <2>1. p \in Pages
    BY SessionConstants
  <2>2. CarriedTo(p) \in Pages \cup {None}
    BY <1>1, <1>2 DEF CarriedTo, PlaceOK
  <2>3. PlaceOK(at)
    BY <2>1, <2>2 DEF PlaceOK
  <2>4. PlaceOK(place')
    BY <1>9, <2>3, LandsOnAPage DEF Visit
  <2>5. QED
    BY <1>9, <2>4 DEF Visit, serverVars, SessionInv, ServerOK, BrowserOK, CallsOK
<1>10. QED
  BY <1>3, <1>4, <1>5, <1>6, <1>7, <1>8, <1>9

\* A call moved on in its slot, perhaps with a token issued.
LEMMA Moved ==
  ASSUME SessionInv, NEW s \in Slots, Len(owner') \in Nat, Len(owner) <= Len(owner'),
         DOMAIN calls' = Slots, \A t \in Slots : t # s => calls'[t] = calls[t],
         CallOK(calls'[s], Len(owner'))
  PROVE  CallsOK'
<1>1. Len(owner) \in Nat
  BY DEF SessionInv, ServerOK
<1>2. \A t \in Slots : t # s => CallOK(calls'[t], Len(owner'))
  BY <1>1, MoreTokens DEF SessionInv, CallsOK
<1>3. QED
  BY <1>2 DEF CallsOK

\* An answer: a login's is a token, /users/me's an account.
LEMMA Answered ==
  ASSUME SessionInv, NEW s \in Slots, NEW status, NEW body, Answer(s, status, body),
         calls[s].at = "wire",
         Len(owner') \in Nat, Len(owner) <= Len(owner'),
         status = "ok" /\ calls[s].leg = "login" => body \in 1..Len(owner'),
         status = "ok" /\ calls[s].leg = "me" => body \in Accounts
  PROVE  CallsOK'
<1>1. Len(owner) \in Nat /\ CallOK(calls[s], Len(owner)) /\ DOMAIN calls = Slots
  BY DEF SessionInv, ServerOK, CallsOK
<1>2. CallOK(calls[s], Len(owner'))
  BY <1>1, MoreTokens
<1>3. /\ DOMAIN calls' = Slots
      /\ \A t \in Slots : t # s => calls'[t] = calls[t]
      /\ calls'[s] = [calls[s] EXCEPT !.at = "answered", !.status = status, !.body = body]
  BY <1>1 DEF Answer
<1>4. CallOK(calls'[s], Len(owner'))
  BY <1>2, <1>3 DEF CallOK, CallFields
<1>5. QED
  BY <1>3, <1>4, Moved

\* A new pair of tokens for an account.
LEMMA Issued ==
  ASSUME ServerOK, NEW who \in accounts, Issue(who)
  PROVE  /\ owner' \in Seq(accounts) /\ Len(owner') = Len(owner) + 1
         /\ Len(owner) \in Nat /\ Len(owner') <= MaxTokens
  BY SessionConstants DEF ServerOK, Issue

\* The services' answers.
LEMMA ServeStep ==
  ASSUME SessionInv, NEW s \in Slots, Serve(s)
  PROVE  SessionInv'
<1>1. /\ ServerOK /\ Len(owner) \in Nat /\ CallOK(calls[s], Len(owner)) /\ calls[s].at = "wire"
      /\ session' = session /\ place' = place /\ effectDue' = effectDue
      /\ BrowserOK
  BY DEF SessionInv, ServerOK, CallsOK, Serve
<1>2. ASSUME Len(owner') \in Nat, Len(owner) <= Len(owner')
      PROVE  BrowserOK'
  BY <1>1, <1>2, MoreTokens DEF BrowserOK
<1>3. CASE ServeLogin(s)
  <2>1. CASE calls[s].who \in accounts /\ Issue(calls[s].who) /\ Answer(s, "ok", Len(owner) + 1)
    <3>1. /\ owner' \in Seq(accounts) /\ Len(owner') = Len(owner) + 1
          /\ Len(owner) \in Nat /\ Len(owner') <= MaxTokens
      BY <1>1, <2>1, Issued
    <3>2. CallsOK'
      BY <1>1, <1>3, <2>1, <3>1, Answered DEF ServeLogin
    <3>3. ServerOK'
      BY <1>1, <1>3, <3>1 DEF ServeLogin, ServerOK
    <3>4. QED
      BY <1>2, <3>1, <3>2, <3>3 DEF SessionInv
  <2>2. CASE owner' = owner /\ Answer(s, "401", None)
    <3>1. CallsOK'
      BY <1>1, <2>2, Answered
    <3>2. ServerOK'
      BY <1>1, <1>3, <2>2 DEF ServeLogin, ServerOK
    <3>3. QED
      BY <1>1, <1>2, <2>2, <3>1, <3>2 DEF SessionInv
  <2>3. QED
    BY <1>3, <2>1, <2>2 DEF ServeLogin
<1>4. CASE ServeRegister(s)
  <2>1. owner' = owner /\ calls[s].who \in Accounts
    BY <1>1, <1>4 DEF ServeRegister, CallOK
  <2>2. CallsOK'
    BY <1>1, <1>4, <2>1, Answered DEF ServeRegister
  <2>3. accounts \subseteq accounts' /\ accounts' \subseteq Accounts
    BY <1>1, <1>4, <2>1 DEF ServeRegister, ServerOK
  <2>4. owner' \in Seq(accounts')
    BY <1>1, <2>1, <2>3 DEF ServerOK
  <2>5. ServerOK'
    BY <1>1, <1>4, <2>1, <2>3, <2>4 DEF ServeRegister, ServerOK
  <2>6. QED
    BY <1>1, <1>2, <2>1, <2>2, <2>5 DEF SessionInv
<1>5. CASE ServeAuthorised(s)
  <2> DEFINE who == owner[calls[s].bearer]
  <2>1. owner' = owner /\ accounts' = accounts /\ expired' = expired
    BY <1>5 DEF ServeAuthorised
  <2>2. Authorised(calls[s]) => who \in accounts
    BY <1>1 DEF Authorised, CallOK, ServerOK
  <2>3. CallsOK'
    <3>1. CASE ~Authorised(calls[s])
      BY <1>1, <1>5, <2>1, <3>1, Answered DEF ServeAuthorised
    <3>2. CASE Authorised(calls[s])
      <4>1. who \in Accounts
        BY <1>1, <2>2, <3>2 DEF ServerOK
      <4> HIDE DEF who
      <4>2. PICK status, body : /\ Answer(s, status, body)
                                /\ calls[s].leg # "login"
                                /\ calls[s].leg = "me" => body = who
        BY <1>5, <3>2 DEF ServeAuthorised, who
      <4>3. QED
        BY <1>1, <2>1, <4>1, <4>2, Answered
    <3>3. QED
      BY <3>1, <3>2
  <2>4. profiles' \subseteq accounts /\ spent' \subseteq 1..Len(owner)
    BY <1>1, <1>5, <2>2 DEF ServeAuthorised, ServerOK, TokensOf
  <2>5. ServerOK'
    BY <1>1, <2>1, <2>4 DEF ServerOK
  <2>6. QED
    BY <1>1, <1>2, <2>1, <2>3, <2>5 DEF SessionInv
<1>6. QED
  BY <1>3, <1>4, <1>5 DEF Serve

\* The two halves of a refresh at auth-service, and the network's failures.
LEMMA RefreshStep ==
  ASSUME SessionInv, NEW s \in Slots, CheckRefresh(s) \/ RotateRefresh(s) \/ Fail(s)
  PROVE  SessionInv'
<1>1. /\ ServerOK /\ Len(owner) \in Nat /\ CallOK(calls[s], Len(owner)) /\ DOMAIN calls = Slots
      /\ session' = session /\ place' = place /\ effectDue' = effectDue
      /\ BrowserOK
  BY DEF SessionInv, ServerOK, CallsOK, CheckRefresh, RotateRefresh, Fail
<1>2. CASE CheckRefresh(s)
  <2>1. owner' = owner /\ UNCHANGED serverVars
    BY <1>2 DEF CheckRefresh, serverVars
  <2>2. /\ DOMAIN calls' = Slots
        /\ \A t \in Slots : t # s => calls'[t] = calls[t]
        /\ \/ calls'[s] = [calls[s] EXCEPT !.at = "rotating"]
           \/ calls'[s] = [calls[s] EXCEPT !.at = "refreshed", !.status = "failed"]
    BY <1>1, <1>2 DEF CheckRefresh
  <2>3. CallOK(calls'[s], Len(owner))
    BY <1>1, <1>2, <2>2 DEF CheckRefresh, CallOK, CallFields
  <2>4. CallsOK'
    BY <1>1, <2>1, <2>2, <2>3, Moved
  <2>5. QED
    BY <1>1, <2>1, <2>4 DEF SessionInv, serverVars, ServerOK, BrowserOK
<1>3. CASE RotateRefresh(s)
  <2>1. calls[s].body \in 1..Len(owner)
    BY <1>1, <1>3 DEF RotateRefresh, CallOK
  <2>2. owner[calls[s].body] \in accounts /\ Issue(owner[calls[s].body])
    BY <1>1, <1>3, <2>1 DEF RotateRefresh, ServerOK
  <2>3. /\ owner' \in Seq(accounts) /\ Len(owner') = Len(owner) + 1
        /\ Len(owner) \in Nat /\ Len(owner') <= MaxTokens
    BY <1>1, <2>2, Issued
  <2>4. /\ DOMAIN calls' = Slots
        /\ \A t \in Slots : t # s => calls'[t] = calls[t]
        /\ calls'[s] = [calls[s] EXCEPT !.at = "refreshed", !.status = "ok",
                                        !.body = Len(owner) + 1]
    BY <1>1, <1>3 DEF RotateRefresh
  <2>5. CallOK(calls[s], Len(owner'))
    BY <1>1, <2>3, MoreTokens
  <2>6. CallOK(calls'[s], Len(owner'))
    BY <2>3, <2>4, <2>5 DEF CallOK, CallFields
  <2>7. CallsOK'
    BY <2>3, <2>4, <2>6, Moved
  <2>8. ServerOK'
    BY <1>1, <1>3, <2>1, <2>3 DEF RotateRefresh, ServerOK
  <2>9. BrowserOK'
    BY <1>1, <2>3, MoreTokens DEF BrowserOK
  <2>10. QED
    BY <2>7, <2>8, <2>9 DEF SessionInv
<1>4. CASE Fail(s)
  <2>1. owner' = owner /\ UNCHANGED serverVars
    BY <1>4 DEF Fail, serverVars
  <2>2. /\ DOMAIN calls' = Slots
        /\ \A t \in Slots : t # s => calls'[t] = calls[t]
        /\ \E at \in {"answered", "refreshed"} :
             calls'[s] = [calls[s] EXCEPT !.status = "failed", !.body = None, !.at = at]
    BY <1>1, <1>4 DEF Fail, CallOK, CallFields
  <2>3. CallOK(calls'[s], Len(owner))
    BY <1>1, <2>2 DEF CallOK, CallFields
  <2>4. CallsOK'
    BY <1>1, <2>1, <2>2, <2>3, Moved
  <2>5. QED
    BY <1>1, <2>1, <2>4 DEF SessionInv, serverVars, ServerOK, BrowserOK
<1>5. QED
  BY <1>2, <1>3, <1>4

\* An empty slot.
LEMMA NoCallOK == ASSUME NEW m \in Nat PROVE CallOK(NoCall, m)
  BY SessionConstants DEF CallOK, CallFields, NoCall

\* A function of the tab ends, or goes on to its next call, with the store at a.
LEMMA Continued ==
  ASSUME SessionInv, UNCHANGED serverVars, NEW s \in Slots,
         NEW call, CallOK(call, Len(owner)), Goes(s, call),
         NEW a, SliceOK(a, Len(owner)), NEW at, PlaceOK(at),
         Show(a, at)
  PROVE  SessionInv'
<1>1. CallsOK'
  BY Placed DEF Goes, serverVars
<1>2. SliceOK(session', Len(owner)) /\ PlaceOK(place') /\ effectDue' \in BOOLEAN
  BY Drawn DEF SessionInv, BrowserOK
<1>3. QED
  BY <1>1, <1>2 DEF SessionInv, BrowserOK, ServerOK, serverVars

\* A function of the tab ends.
LEMMA Finished ==
  ASSUME SessionInv, UNCHANGED serverVars, NEW s \in Slots,
         NEW a, SliceOK(a, Len(owner)), Ends(s, a) \/ Stays(s, a)
  PROVE  SessionInv'
<1>1. /\ Len(owner) \in Nat /\ PlaceOK(place) /\ CallOK(calls[s], Len(owner))
  BY DEF SessionInv, ServerOK, BrowserOK, CallsOK
<1>2. CallOK(NoCall, Len(owner))
  BY <1>1, NoCallOK
<1>3. PICK at : Goes(s, NoCall) /\ Show(a, at)
                /\ (at = place \/ (calls[s].then # None /\ at = [page |-> calls[s].then, from |-> None]))
  BY DEF Ends, Stays
<1>4. PlaceOK(at)
  BY <1>1, <1>3 DEF PlaceOK, CallOK
<1>5. QED
  BY <1>2, <1>3, <1>4, Continued

\* api() returns or throws, and what awaited it goes on.
LEMMA SettledStep ==
  ASSUME SessionInv, UNCHANGED serverVars, NEW s \in Slots,
         calls[s].at = "answered", Settled(s, calls[s])
  PROVE  SessionInv'
<1> DEFINE m == Len(owner)  c == calls[s]
<1>1. m \in Nat /\ SliceOK(session, m) /\ PlaceOK(place) /\ CallOK(c, m) /\ 0 \in 0..m
  BY DEF SessionInv, ServerOK, BrowserOK, CallsOK
<1>2. /\ SliceOK(ProfileCreated(session), m) /\ SliceOK(SessionCleared(session), m)
      /\ SliceOK(LoginPending(session), m) /\ SliceOK(LoginRejected(session), m)
      /\ SliceOK(LoadRejected(session), m)
      /\ \A n \in 0..m : SliceOK(LoginFulfilled(session, n), m)
      /\ \A u \in Accounts, h \in {"absent", "present"} : SliceOK(LoadFulfilled(session, u, h), m)
  <2>1. /\ SliceOK(SessionCleared(session), m)
    BY <1>1 DEF SliceOK, SessionCleared, SignedOut
  <2>2. /\ SliceOK(ProfileCreated(session), m) /\ SliceOK(LoginPending(session), m)
        /\ SliceOK(LoginRejected(session), m) /\ SliceOK(LoadRejected(session), m)
    BY <1>1 DEF SliceOK, ProfileCreated, LoginPending, LoginRejected, LoadRejected
  <2>3. \A n \in 0..m : SliceOK(LoginFulfilled(session, n), m)
    BY <1>1 DEF SliceOK, LoginFulfilled
  <2>4. \A u \in Accounts, h \in {"absent", "present"} : SliceOK(LoadFulfilled(session, u, h), m)
    BY <1>1 DEF SliceOK, LoadFulfilled
  <2>5. QED
    BY <2>1, <2>2, <2>3, <2>4
<1>3. c.then \in Pages \cup {None} /\ c.token \in 0..m
  BY <1>1 DEF CallOK
<1>4. CASE LoginSettled(s, c)
  <2>1. CASE c.status = "ok"
    <3>1. c.leg = "login" /\ c.body \in 0..m
      BY <1>1, <1>4, <2>1 DEF LoginSettled, CallOK
    <3>2. CallOK(Send(c.op, "me", None, c.body, c.then), m)
      BY <1>1, <1>3, <3>1, SentOK
    <3>3. QED
      BY <1>1, <1>2, <1>4, <2>1, <3>1, <3>2, Continued DEF LoginSettled
  <2>2. CASE c.status # "ok"
    BY <1>2, <1>4, <2>2, Finished DEF LoginSettled
  <2>3. QED
    BY <2>1, <2>2
<1>5. CASE RegisterSettled(s, c)
  <2>1. CASE c.status = "ok"
    <3>1. c.who \in Accounts
      BY <1>1, <1>5 DEF RegisterSettled, CallOK
    <3>2. CallOK(Send(c.op, "login", c.who, 0, c.then), m)
      BY <1>1, <1>3, <3>1, SentOK
    <3>3. QED
      BY <1>1, <1>2, <1>5, <2>1, <3>2, Continued DEF RegisterSettled
  <2>2. CASE c.status # "ok"
    BY <1>2, <1>5, <2>2, Finished DEF RegisterSettled
  <2>3. QED
    BY <2>1, <2>2
<1>6. CASE LoadSettled(s, c)
  <2>1. CASE c.leg = "me" /\ c.status = "ok"
    <3>1. c.body \in Accounts
      BY <1>1, <2>1 DEF CallOK
    <3>2. CASE RoleOf[c.body] = "ADMIN"
      BY <1>2, <1>6, <2>1, <3>1, <3>2, Finished DEF LoadSettled
    <3>3. CASE RoleOf[c.body] # "ADMIN"
      <4>1. CallOK(Send(c.op, "profile", c.body, c.token, c.then), m)
        BY <1>1, <1>3, <3>1, SentOK
      <4>2. CallsOK'
        BY <1>6, <2>1, <3>3, <4>1, Placed DEF LoadSettled, Goes, serverVars
      <4>3. QED
        BY <1>6, <2>1, <3>3, <4>2 DEF LoadSettled, SessionInv, ServerOK, BrowserOK, serverVars
    <3>4. QED
      BY <3>2, <3>3
  <2>2. CASE c.leg = "profile" /\ c.status \in {"ok", "404"}
    <3>1. c.who \in Accounts
      BY <1>1, <2>2 DEF CallOK
    <3>2. QED
      BY <1>2, <1>6, <2>2, <3>1, Finished DEF LoadSettled
  <2>3. CASE c.status \notin {"ok", "404"}
    BY <1>2, <1>6, <2>3, Finished DEF LoadSettled
  <2>4. QED
    BY <1>6, <2>1, <2>2, <2>3 DEF LoadSettled
<1>7. CASE OtherSettled(s, c)
  BY <1>1, <1>2, <1>7, Finished DEF OtherSettled
<1>8. QED
  BY <1>4, <1>5, <1>6, <1>7 DEF Settled

\* A promise settles, through a refresh or not.
LEMMA SettleStep ==
  ASSUME SessionInv, NEW s \in Slots, Settle(s) \/ SettleRefresh(s)
  PROVE  SessionInv'
<1> DEFINE m == Len(owner)  c == calls[s]
<1>1. m \in Nat /\ SliceOK(session, m) /\ PlaceOK(place) /\ CallOK(c, m)
  BY DEF SessionInv, ServerOK, BrowserOK, CallsOK
<1>2. UNCHANGED serverVars
  BY DEF Settle, SettleRefresh
<1>3. CASE Settle(s) /\ MayRefresh(c) /\ session.token # 0
  <2> DEFINE call == [c EXCEPT !.at = "refresh", !.status = None, !.body = session.token]
  <2>1. CallOK(call, m)
    BY <1>1, <1>3 DEF CallOK, CallFields, SliceOK
  <2>2. calls' = [calls EXCEPT ![s] = call] /\ UNCHANGED <<session, place, effectDue>>
    BY <1>3 DEF Settle, Goes
  <2>3. CallsOK'
    BY <1>2, <2>1, <2>2, Placed DEF serverVars
  <2>4. QED
    BY <1>2, <2>2, <2>3 DEF SessionInv, ServerOK, BrowserOK, serverVars
<1>4. CASE Settle(s) /\ ~(MayRefresh(c) /\ session.token # 0)
  BY <1>2, <1>4, SettledStep DEF Settle
<1>5. CASE SettleRefresh(s) /\ c.status = "ok"
  <2> DEFINE call == [c EXCEPT !.at = "wire", !.status = None, !.body = None,
                               !.bearer = c.body, !.retried = TRUE]
  <2>1. c.body \in 0..m
    BY <1>1, <1>5 DEF SettleRefresh, CallOK
  <2>2. CallOK(call, m)
    BY <1>1, <2>1 DEF CallOK, CallFields
  <2>3. SliceOK(TokensRefreshed(session, c.body), m)
    BY <1>1, <2>1 DEF SliceOK, TokensRefreshed
  <2>4. Goes(s, call) /\ Show(TokensRefreshed(session, c.body), place)
    BY <1>5 DEF SettleRefresh
  <2>5. QED
    BY <1>1, <1>2, <2>2, <2>3, <2>4, Continued
<1>6. CASE SettleRefresh(s) /\ c.status # "ok"
  <2> DEFINE call == [c EXCEPT !.at = "answered", !.status = "401", !.body = None,
                               !.retried = TRUE]
  <2>1. CallOK(call, m)
    BY <1>1 DEF CallOK, CallFields
  <2>2. SliceOK(SessionCleared(session), m)
    BY <1>1 DEF SliceOK, SessionCleared, SignedOut
  <2>3. Goes(s, call) /\ Show(SessionCleared(session), place)
    BY <1>6 DEF SettleRefresh
  <2>4. QED
    BY <1>1, <1>2, <2>1, <2>2, <2>3, Continued
<1>7. QED
  BY <1>3, <1>4, <1>5, <1>6

\* A tab just opened, whatever localStorage kept.
LEMMA InitOK == SessionInit => SessionInv
<1> SUFFICES ASSUME SessionInit PROVE SessionInv
  OBVIOUS
<1>1. ServerOK
  <2>1. accounts \subseteq Accounts
    BY SessionConstants DEF SessionInit
  <2>2. CASE owner = <<>> /\ expired = {} /\ spent = {} /\ profiles = {}
    BY <2>1, <2>2, SessionConstants DEF ServerOK
  <2>3. ASSUME NEW who \in accounts, owner = <<who>>, profiles \in SUBSET {who},
               expired \in SUBSET {1}, spent \in SUBSET expired
        PROVE  ServerOK
    <3>1. owner \in Seq(accounts) /\ Len(owner) = 1
      BY <2>3
    <3>2. QED
      BY <2>1, <2>3, <3>1, SessionConstants DEF ServerOK
  <2>4. QED
    BY <2>2, <2>3 DEF SessionInit
<1>2. Len(owner) \in Nat
  BY <1>1 DEF ServerOK
<1>3. SliceOK(session, Len(owner))
  BY <1>2 DEF SessionInit, SignedOut, SliceOK
<1>4. PlaceOK(place) /\ effectDue \in BOOLEAN
  <2>1. PICK p \in Opened : place = Landing([page |-> p, from |-> None], session)
    BY DEF SessionInit
  <2>2. PlaceOK([page |-> p, from |-> None])
    BY SessionConstants DEF PlaceOK
  <2>3. effectDue \in BOOLEAN
    BY DEF SessionInit
  <2>4. QED
    BY <2>1, <2>2, <2>3, LandsOnAPage
<1>5. CallsOK
  BY <1>2, NoCallOK DEF SessionInit, CallsOK
<1>6. QED
  BY <1>1, <1>3, <1>4, <1>5 DEF SessionInv, BrowserOK

\* Every step keeps the types.
LEMMA StepOK == SessionInv /\ [SessionNext]_sessionVars => SessionInv'
<1> SUFFICES ASSUME SessionInv, [SessionNext]_sessionVars
             PROVE  SessionInv'
  OBVIOUS
<1>1. ASSUME NEW s \in Slots, Proceeds(s)
      PROVE  SessionInv'
  BY <1>1, ServeStep, RefreshStep, SettleStep DEF Proceeds
<1>2. ASSUME NEW n \in 1..Len(owner), Expire(n) \/ Lapse(n)
      PROVE  SessionInv'
  <2>1. UNCHANGED <<browserVars, accounts, profiles, owner>>
        /\ expired' \subseteq 1..Len(owner) /\ spent' \subseteq 1..Len(owner)
    BY <1>2 DEF Expire, Lapse, SessionInv, ServerOK
  <2>2. QED
    BY <2>1 DEF browserVars, SessionInv, ServerOK, BrowserOK, CallsOK
<1>3. CASE UNCHANGED sessionVars
  BY <1>3 DEF sessionVars, browserVars, serverVars, SessionInv, ServerOK, BrowserOK, CallsOK
<1>4. QED
  BY <1>1, <1>2, <1>3, UserStep DEF SessionNext

\* The tab, its calls and auth-service's tables are well typed, and a token held or sent
\* is one that was issued.
THEOREM SessionTypeCorrect == SessionSpec => []SessionTypeOK
<1>1. SessionInv => SessionTypeOK
  BY DEF SessionInv, ServerOK, BrowserOK, CallsOK, SliceOK, PlaceOK, CallOK, SessionTypeOK
<1>2. QED
  BY <1>1, InitOK, StepOK, PTL DEF SessionSpec

\* Where the guard sends who opens a page, two redirects on, it sends them no further.
LEMMA TwoHopsSettle ==
  ASSUME NEW a, a.user \in Accounts \cup {None}, NEW p \in Pages
  PROVE  RedirectFrom(Landing([page |-> p, from |-> None], a).page, a) = None
<1>1. ASSUME NEW x
      PROVE  Hop(x, a).page = IF RedirectFrom(x.page, a) = None THEN x.page
                              ELSE RedirectFrom(x.page, a)
  BY DEF Hop
<1>2. RedirectFrom("/requests", a) = None /\ RedirectFrom("/login", a) = None
  BY SessionConstants DEF RedirectFrom, OpenPages
<1>3. None \notin {"/requests", "/login", "/profile"}
  BY SessionConstants DEF Pages, OpenPages, GuardedPages
<1>4. RedirectFrom("/profile", a) \in {None, "/login", "/requests"}
  <2>1. a.user # None => RoleOf[a.user] \in RouteRoles["/profile"]
    BY SessionConstants DEF RouteRoles, GuardedPages
  <2>2. QED
    BY <2>1 DEF RedirectFrom, OpenPages
<1>5. RedirectFrom(p, a) \in {None, "/requests", "/login", "/profile"}
  BY DEF RedirectFrom
<1> DEFINE one == Hop([page |-> p, from |-> None], a)
<1>6. one.page = IF RedirectFrom(p, a) = None THEN p ELSE RedirectFrom(p, a)
  BY <1>1
<1>7. Landing([page |-> p, from |-> None], a) = Hop(one, a)
  BY DEF Landing
<1> HIDE DEF one
<1>8. Hop(one, a).page = IF RedirectFrom(one.page, a) = None THEN one.page
                         ELSE RedirectFrom(one.page, a)
  BY <1>1
<1>9. CASE RedirectFrom(p, a) = None
  BY <1>6, <1>7, <1>8, <1>9
<1>10. CASE RedirectFrom(p, a) \in {"/requests", "/login"}
  BY <1>2, <1>3, <1>6, <1>7, <1>8, <1>10
<1>11. CASE RedirectFrom(p, a) = "/profile"
  BY <1>2, <1>3, <1>4, <1>6, <1>7, <1>8, <1>11
<1>12. QED
  BY <1>5, <1>9, <1>10, <1>11

\* No state of the store, however it was reached, makes the routes redirect in circles.
THEOREM NoRedirectLoop == SessionSpec => []RedirectsSettle
<1>1. SessionInv => RedirectsSettle
  BY TwoHopsSettle DEF SessionInv, BrowserOK, SliceOK, RedirectsSettle
<1>2. QED
  BY <1>1, InitOK, StepOK, PTL DEF SessionSpec
=============================================================================
