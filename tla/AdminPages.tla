----------------------------- MODULE AdminPages -----------------------------
(***************************************************************************)
(* The pages over the admin slice: the approval queue and the list of        *)
(* grants, an admin's, and a seller's page of released contacts.  The        *)
(* decisions are admin-service's, seen through its API: ContactDecision is    *)
(* their own model.                                                         *)
(***************************************************************************)
EXTENDS StoreThunks, Functions

CONSTANT Cases   \* offers, each with the grant that approving it gives

VARIABLES
  cases,      \* admin-service: where each offer stands
  adminSlice, \* pending, grants (the status shown, by case), contacts, loading
  adminPage   \* "queue", "access", "contacts" or "elsewhere"

adminPageVars == <<cases, adminSlice, adminPage>>

CaseStates == {"DRAFT", "PENDING", "REJECTED", "GRANTED", "REVOKED"}
Standing(states) == {c \in Cases : cases[c] \in states}

AdminPagesInit ==
  /\ cases = [c \in Cases |-> "DRAFT"]
  /\ adminSlice = [pending |-> {}, grants |-> [c \in {} |-> None],
                   contacts |-> None, loading |-> FALSE]
  /\ adminPage = "elsewhere"

\* The effect of the page mounted.  Contacts' cleanup forgets the numbers it showed; the
\* offers it lists, the slice of OfferPages, are every approved one here.
Visit(page) ==
  LET left == [adminSlice EXCEPT !.contacts = IF adminPage = "contacts" THEN None ELSE @]
  IN  /\ page # adminPage /\ Room
      /\ adminPage' = page
      /\ \/ /\ page = "queue"
            /\ adminSlice' = [left EXCEPT !.loading = TRUE]
            /\ calls' = Sent(calls, "fetchPending", None)
         \/ /\ page = "access"
            /\ adminSlice' = left
            /\ calls' = Sent(calls, "fetchGrants", None)
         \/ /\ page \in {"contacts", "elsewhere"}
            /\ adminSlice' = left
            /\ UNCHANGED calls
      /\ UNCHANGED cases

\* A row's button, while the row is shown.
Press(page, shown, thunk, arg) ==
  /\ adminPage = page /\ shown /\ Room
  /\ calls' = Sent(calls, thunk, arg)
  /\ UNCHANGED adminPageVars

PressDecide(c, verdict) ==
  Press("queue", c \in adminSlice.pending, "decideOffer", [case |-> c, verdict |-> verdict])

\* Mutant: the row marked as the button is pressed, without waiting for the answer.
PressRevokeOptimistic(c) ==
  /\ adminPage = "access" /\ Room
  /\ c \in DOMAIN adminSlice.grants /\ adminSlice.grants[c] = "GRANTED"
  /\ calls' = Sent(calls, "revokeGrant", c)
  /\ adminSlice' = [adminSlice EXCEPT !.grants[c] = "REVOKED"]
  /\ UNCHANGED <<cases, adminPage>>

\* Only a live grant can be revoked.
PressRevoke(c) ==
  /\ c \in DOMAIN adminSlice.grants /\ adminSlice.grants[c] = "GRANTED"
  /\ Press("access", TRUE, "revokeGrant", c)

PressShow(c) ==
  /\ cases[c] \in {"GRANTED", "REVOKED"}
  /\ Press("contacts", adminSlice.contacts # c, "fetchContacts", c)

PressHide ==
  /\ adminPage = "contacts" /\ adminSlice.contacts # None
  /\ adminSlice' = [adminSlice EXCEPT !.contacts = None]
  /\ UNCHANGED <<calls, cases, adminPage>>

-----------------------------------------------------------------------------
\* A seller makes an offer; another admin decides or revokes.
CaseMoves(c) ==
  /\ \/ cases[c] = "DRAFT" /\ cases' = [cases EXCEPT ![c] = "PENDING"]
     \/ cases[c] = "PENDING" /\ cases' = [cases EXCEPT ![c] = "GRANTED"]
     \/ cases[c] = "GRANTED" /\ cases' = [cases EXCEPT ![c] = "REVOKED"]
  /\ UNCHANGED <<calls, adminSlice, adminPage>>

ServeAdminRead(i) ==
  LET grants == Standing({"GRANTED", "REVOKED"})
      c == calls[i].arg
  IN  /\ \/ On(i, "fetchPending") /\ Answer(i, Standing({"PENDING"}))
         \/ On(i, "fetchGrants") /\ Answer(i, [g \in grants |-> cases[g]])
         \/ On(i, "fetchContacts") /\ cases[c] = "GRANTED" /\ Answer(i, c)
         \/ On(i, "fetchContacts") /\ cases[c] # "GRANTED" /\ Refuse(i, None)
      /\ UNCHANGED cases

\* One change to one case, refused with a 409 when another came first.
Moved(i, c, from, to) ==
  IF cases[c] = from
  THEN Answer(i, c) /\ cases' = [cases EXCEPT ![c] = to]
  ELSE Refuse(i, None) /\ UNCHANGED cases

ServeAdminChange(i) ==
  LET arg == calls[i].arg
  IN  \/ On(i, "decideOffer") /\ Moved(i, arg.case, "PENDING", arg.verdict)
      \/ On(i, "revokeGrant") /\ Moved(i, arg, "GRANTED", "REVOKED")

ServeAdmin(i) ==
  /\ ServeAdminRead(i) \/ ServeAdminChange(i)
  /\ UNCHANGED <<adminSlice, adminPage>>

-----------------------------------------------------------------------------
\* The slice's fulfilled cases: a decided offer leaves the queue, a revoked grant is
\* marked where it stands.
AdminFulfilled(i) ==
  LET data == calls[i].data
  IN  \/ /\ Fulfilled(i, "fetchPending")
         /\ adminSlice' = [adminSlice EXCEPT !.pending = data, !.loading = FALSE]
      \/ /\ Fulfilled(i, "decideOffer")
         /\ adminSlice' = [adminSlice EXCEPT !.pending = @ \ {data}]
      \/ /\ Fulfilled(i, "fetchGrants")
         /\ adminSlice' = [adminSlice EXCEPT !.grants = data]
      \/ /\ Fulfilled(i, "revokeGrant")
         /\ adminSlice' = [adminSlice EXCEPT !.grants =
                             [g \in DOMAIN @ |-> IF g = data THEN "REVOKED" ELSE @[g]]]
      \/ /\ Fulfilled(i, "fetchContacts")
         /\ adminSlice' = [adminSlice EXCEPT !.contacts = data]

AdminRejected(i) ==
  /\ calls[i].at = "rejected"
  /\ adminSlice' = [adminSlice EXCEPT !.loading = FALSE]

SettleAdmin(i) ==
  /\ AdminFulfilled(i) \/ AdminRejected(i)
  /\ calls' = Done(i)
  /\ UNCHANGED <<cases, adminPage>>

\* An admin's two pages.
AdminActs ==
  \/ \E p \in {"queue", "access", "elsewhere"} : Visit(p)
  \/ \E c \in Cases :
       \/ PressDecide(c, "GRANTED") \/ PressDecide(c, "REJECTED")
       \/ PressRevoke(c) \/ CaseMoves(c)

\* A seller's.
ContactReaderActs ==
  \/ \E p \in {"contacts", "elsewhere"} : Visit(p)
  \/ PressHide
  \/ \E c \in Cases : PressShow(c) \/ CaseMoves(c)

-----------------------------------------------------------------------------
AdminPagesTypeOK ==
  /\ cases \in [Cases -> CaseStates]
  /\ adminSlice.pending \subseteq Cases /\ adminSlice.loading \in BOOLEAN
  /\ DOMAIN adminSlice.grants \subseteq Cases
  /\ Range(adminSlice.grants) \subseteq {"GRANTED", "REVOKED"}
  /\ adminSlice.contacts \in Cases \cup {None}

\* "Revoking keeps the record - it marks access withdrawn" (Access.tsx): a grant shown as
\* revoked is revoked, whatever became of the call and in whatever order the lists came,
\* so an admin never leaves a live grant believing it withdrawn.
RevokedShownIsRevoked ==
  \A c \in DOMAIN adminSlice.grants : adminSlice.grants[c] = "REVOKED" => cases[c] = "REVOKED"
=============================================================================
