-------------------------- MODULE ContactDecision --------------------------
(***************************************************************************)
(* admin-service (internal/admin/service.go) composed with offer-service.  *)
(* Deciding an offer reads it over HTTP, writes the decision and its       *)
(* contact grants in a transaction, relays the verdict with a PATCH that a *)
(* worker of offer-service serves, and commits last.  The two databases    *)
(* share no transaction: a timeout, a crash or a seller's own call in      *)
(* between is where they can come apart.                                   *)
(***************************************************************************)
EXTENDS OfferLifecycle

CONSTANTS
  Admins,     \* concurrent Decide calls
  Customers,
  Readers     \* sellers who look contacts up, with an offer or none

ASSUME ContactConstants == None \notin Admins \cup Customers \cup {"GRANTED", "REVOKED"}

VARIABLES
  decision,      \* offer_decision, by offer
  access,        \* contact_access, by offer and customer
  notified,      \* the verdicts enqueued for the offers' sellers
  participants,  \* the customers behind each request, in request-service
  desk,          \* what each admin's Decide is doing
  lookup         \* a contact lookup; it changes nothing, so one at a time shows all

adminVars == <<decision, access, notified, participants, desk, lookup>>
contactVars == <<offerVars, adminVars>>

\* tell: the seller's user id was resolved, so there is somebody to notify.
NoDesk == [pc |-> "idle", id |-> None, verdict |-> None, customers |-> {}, tell |-> FALSE,
           worker |-> None]

\* void: the grants revoked before the lookup began; shown: its last answer.
NoLookup == [pc |-> "idle", reader |-> None, request |-> None, void |-> {}, listed |-> {},
             shown |-> {}]

ContactInit ==
  /\ OfferInit
  /\ decision = [o \in OfferIds |-> None]
  /\ access = [o \in OfferIds |-> [c \in Customers |-> None]]
  /\ notified = {}
  /\ participants = [r \in Requests |-> {}]
  /\ desk = [a \in Admins |-> NoDesk]
  /\ lookup = NoLookup

AccessIn(status) == {oc \in OfferIds \X Customers : access[oc[1]][oc[2]] = status}

AtDesk(a, label) == desk' = [desk EXCEPT ![a].pc = label]

\* inTx's deferred rollback, or a return before the transaction.
CloseDesk(a) == desk' = [desk EXCEPT ![a] = NoDesk]

-----------------------------------------------------------------------------
\* Decide: Offers.Get finds the offer PENDING, and the seller's user id is looked up for
\* the notification.  Any other answer ends the call with nothing done.
BeginDecide(a, o, verdict, tell) ==
  /\ desk[a].pc = "idle"
  /\ offer[o] # None /\ offer[o].status = "PENDING"
  /\ desk' = [desk EXCEPT ![a] =
       [pc |-> IF verdict = "APPROVED" THEN "participants" ELSE "begin", id |-> o,
        verdict |-> verdict, customers |-> {}, tell |-> tell, worker |-> None]]
  /\ UNCHANGED <<offerVars, decision, access, notified, participants, lookup>>

\* Requests.ParticipantCustomerIDs: an approval needs buyers (ErrRequestNoBuyers).
FetchParticipants(a) ==
  LET buyers == participants[offer[desk[a].id].request]
  IN  /\ desk[a].pc = "participants"
      /\ IF buyers = {}
         THEN CloseDesk(a)
         ELSE desk' = [desk EXCEPT ![a].pc = "begin", ![a].customers = buyers]
      /\ UNCHANGED <<offerVars, decision, access, notified, participants, lookup>>

\* A transaction holds the unique index entry of an offer's decision.
Deciding(a, o) == desk[a].id = o /\ desk[a].pc \in {"recorded", "patching", "patched"}

\* RecordDecision and GrantContactAccess in the transaction: the unique constraint makes a
\* second decision wait for the first and then fail (ErrAlreadyDecided).
RecordDecision(a) ==
  /\ desk[a].pc = "begin"
  /\ ~ \E b \in Admins \ {a} : Deciding(b, desk[a].id)
  /\ IF decision[desk[a].id] # None THEN CloseDesk(a) ELSE AtDesk(a, "recorded")
  /\ UNCHANGED <<offerVars, decision, access, notified, participants, lookup>>

Awaited(w) == \E a \in Admins : desk[a].worker = w

\* Offers.SetStatus: a worker of offer-service takes the PATCH up.
SendPatch(a, w) ==
  /\ desk[a].pc = "recorded"
  /\ ~Awaited(w)
  /\ StartSetStatus(w, desk[a].id, desk[a].verdict)
  /\ desk' = [desk EXCEPT ![a].pc = "patching", ![a].worker = w]
  /\ UNCHANGED <<decision, access, notified, participants, lookup>>

\* Mutant: an unexpected status taken for success.
PatchAnsweredLax(a) ==
  /\ desk[a].pc = "patching"
  /\ answer[desk[a].worker] # None
  /\ IF answer[desk[a].worker] \in {"ok", "error", "lost"}
     THEN desk' = [desk EXCEPT ![a].pc = "patched", ![a].worker = None]
     ELSE CloseDesk(a)
  /\ UNCHANGED <<offerVars, decision, access, notified, participants, lookup>>

\* Mutant: the seller told as soon as offer-service accepts, outside the transaction.
PatchAnsweredTells(a) ==
  /\ desk[a].pc = "patching"
  /\ answer[desk[a].worker] # None
  /\ IF answer[desk[a].worker] = "ok"
     THEN /\ desk' = [desk EXCEPT ![a].pc = "patched", ![a].worker = None]
          /\ notified' = notified \cup {<<desk[a].id, desk[a].verdict>>}
     ELSE CloseDesk(a) /\ UNCHANGED notified
  /\ UNCHANGED <<offerVars, decision, access, participants, lookup>>

\* The PATCH is answered: 200 goes on to the commit; 409, 404 and everything else roll the
\* transaction back.
PatchAnswered(a) ==
  /\ desk[a].pc = "patching"
  /\ answer[desk[a].worker] # None
  /\ IF answer[desk[a].worker] = "ok"
     THEN desk' = [desk EXCEPT ![a].pc = "patched", ![a].worker = None]
     ELSE CloseDesk(a)
  /\ UNCHANGED <<offerVars, decision, access, notified, participants, lookup>>

\* The client gives up after HTTP_TIMEOUT (ErrUnavailable): the transaction rolls back, and
\* offer-service goes on serving the PATCH.
PatchTimeout(a) ==
  /\ "timeout" \in Faults
  /\ desk[a].pc = "patching"
  /\ CloseDesk(a)
  /\ UNCHANGED <<offerVars, decision, access, notified, participants, lookup>>

\* Mutant: the grants made from a second look at the request.
CommitDecisionRereads(a) ==
  LET d == desk[a]
  IN  /\ d.pc = "patched"
      /\ decision' = [decision EXCEPT ![d.id] = d.verdict]
      /\ access' = [access EXCEPT ![d.id] = [c \in Customers |->
           IF d.verdict = "APPROVED" /\ c \in participants[offer[d.id].request]
           THEN "GRANTED" ELSE @[c]]]
      /\ notified' = IF d.tell THEN notified \cup {<<d.id, d.verdict>>} ELSE notified
      /\ CloseDesk(a)
      /\ UNCHANGED <<offerVars, participants, lookup>>

\* COMMIT: the decision, its grants and the events for the seller appear together.
CommitDecision(a) ==
  LET d == desk[a]
  IN  /\ d.pc = "patched"
      /\ decision' = [decision EXCEPT ![d.id] = d.verdict]
      /\ access' = [access EXCEPT ![d.id] = [c \in Customers |->
           IF c \in d.customers THEN "GRANTED" ELSE @[c]]]
      /\ notified' = IF d.tell THEN notified \cup {<<d.id, d.verdict>>} ELSE notified
      /\ CloseDesk(a)
      /\ UNCHANGED <<offerVars, participants, lookup>>

\* A dependency or a statement fails, the commit fails, or the process dies.
LoseDecide(a) ==
  /\ "crash" \in Faults
  /\ desk[a].pc # "idle"
  /\ CloseDesk(a)
  /\ UNCHANGED <<offerVars, decision, access, notified, participants, lookup>>

\* Mutant: a status the table does not know.
RevokeUnknownStatus(o, c) ==
  /\ access[o][c] = "GRANTED"
  /\ access' = [access EXCEPT ![o][c] = "CANCELLED"]
  /\ UNCHANGED <<offerVars, decision, notified, participants, desk, lookup>>

\* Mutant: the status flipped whatever it is.
RevokeToggles(o, c) ==
  /\ access[o][c] # None
  /\ access' = [access EXCEPT ![o][c] = IF @ = "GRANTED" THEN "REVOKED" ELSE "GRANTED"]
  /\ UNCHANGED <<offerVars, decision, notified, participants, desk, lookup>>

\* RevokeContactAccess: only a GRANTED row, and by status, not by deletion.
Revoke(o, c) ==
  /\ access[o][c] = "GRANTED"
  /\ access' = [access EXCEPT ![o][c] = "REVOKED"]
  /\ UNCHANGED <<offerVars, decision, notified, participants, desk, lookup>>

-----------------------------------------------------------------------------
\* ContactsForRequest begins: the caller's seller id is resolved.
BeginLookup(s, r) ==
  /\ lookup.pc = "idle"
  /\ lookup' = [NoLookup EXCEPT !.pc = "list", !.reader = s, !.request = r,
                                !.void = AccessIn("REVOKED")]
  /\ UNCHANGED <<offerVars, decision, access, notified, participants, desk>>

\* Mutant: ListGrantedForSellerRequest without its status condition.
GrantedForAny(s, r) ==
  {oc \in AccessIn("GRANTED") \cup AccessIn("REVOKED") :
     offer[oc[1]].seller = s /\ offer[oc[1]].request = r}

\* ListGrantedForSellerRequest.  seller_id and request_id are the offer's own.
GrantedFor(s, r) ==
  {oc \in AccessIn("GRANTED") : offer[oc[1]].seller = s /\ offer[oc[1]].request = r}

\* The grants are read once; with none the lookup is refused (ErrNoContactAccess).
ListGranted ==
  LET found == GrantedFor(lookup.reader, lookup.request)
  IN  /\ lookup.pc = "list"
      /\ lookup' = IF found = {} THEN NoLookup
                   ELSE [lookup EXCEPT !.pc = "resolve", !.listed = found]
      /\ UNCHANGED <<offerVars, decision, access, notified, participants, desk>>

\* Every customer's number has been fetched and the seller is shown them all.
ShowContacts ==
  /\ lookup.pc = "resolve"
  /\ lookup' = [lookup EXCEPT !.pc = "idle", !.shown = lookup.listed, !.listed = {}]
  /\ UNCHANGED <<offerVars, decision, access, notified, participants, desk>>

\* One hop fails and the whole lookup with it.
LoseLookup ==
  /\ "crash" \in Faults
  /\ lookup.pc # "idle"
  /\ lookup' = NoLookup
  /\ UNCHANGED <<offerVars, decision, access, notified, participants, desk>>

\* request-service: customers join and leave.
ChangeParticipants(r, c) ==
  /\ participants' = [participants EXCEPT ![r] = IF c \in @ THEN @ \ {c} ELSE @ \cup {c}]
  /\ UNCHANGED <<offerVars, decision, access, notified, desk, lookup>>

Decide(a) ==
  \/ \E o \in OfferIds, verdict \in Decisions, tell \in BOOLEAN : BeginDecide(a, o, verdict, tell)
  \/ FetchParticipants(a) \/ RecordDecision(a)
  \/ \E w \in Workers : SendPatch(a, w)
  \/ PatchAnswered(a) \/ PatchTimeout(a) \/ CommitDecision(a) \/ LoseDecide(a)

\* offer-service, serving sellers and the PATCHes it was sent.
OfferStep ==
  /\ \/ \E w \in Workers : (SellerCall(w) /\ ~Awaited(w)) \/ Serve(w) \/ Crash(w)
     \/ \E m \in late : ArriveLate(m)
  /\ UNCHANGED adminVars

ContactNext ==
  \/ OfferStep
  \/ \E a \in Admins : Decide(a)
  \/ \E o \in OfferIds, c \in Customers : Revoke(o, c)
  \/ \E s \in Readers, r \in Requests : BeginLookup(s, r)
  \/ ListGranted \/ ShowContacts \/ LoseLookup
  \/ \E r \in Requests, c \in Customers : ChangeParticipants(r, c)

ContactSpec == ContactInit /\ [][ContactNext]_contactVars

-----------------------------------------------------------------------------
(* Properties *)

\* Type correctness of admin-service's tables and calls.
ContactTypeOK ==
  /\ decision \in [OfferIds -> Decisions \cup {None}]
  /\ access \in [OfferIds -> [Customers -> {"GRANTED", "REVOKED", None}]]
  /\ notified \subseteq OfferIds \X Decisions
  /\ participants \in [Requests -> SUBSET Customers]
  /\ desk \in [Admins -> [pc        : {"idle", "participants", "begin", "recorded", "patching",
                                        "patched"},
                          id        : OfferIds \cup {None},
                          verdict   : Decisions \cup {None},
                          customers : SUBSET Customers,
                          tell      : BOOLEAN,
                          worker    : Workers \cup {None}]]
  /\ lookup \in [pc      : {"idle", "list", "resolve"},
                 reader  : Readers \cup {None},
                 request : Requests \cup {None},
                 void    : SUBSET (OfferIds \X Customers),
                 listed  : SUBSET (OfferIds \X Customers),
                 shown   : SUBSET (OfferIds \X Customers)]

\* Whatever times out, crashes or races, a decision is never recorded against an offer that
\* is still waiting for one (Decide: the PATCH before the commit).
NoDecisionOnPendingOffer ==
  \A o \in OfferIds : decision[o] # None => offer[o] # None /\ offer[o].status # "PENDING"

\* R8: an offer gives contact access exactly when an approval of it is on record, and a
\* rejection or a lost decision gives none.
GrantsFollowApproval ==
  \A o \in OfferIds :
    decision[o] = "APPROVED" <=> \E c \in Customers : access[o][c] # None

\* R7: an offer is decided once; the audit record is never replaced, and a revoked grant is
\* never granted again.
AuditIsPermanent ==
  [][\A o \in OfferIds :
       /\ decision[o] # None => decision'[o] = decision[o]
       /\ \A c \in Customers : access[o][c] = "REVOKED" => access'[o][c] = "REVOKED"]_contactVars

\* R9: what a lookup shows was granted by an approved offer of the seller who asked, and was
\* not already revoked when the lookup began.
ShownOnlyWhatIsGranted ==
  \A oc \in lookup.shown :
    /\ oc \notin lookup.void
    /\ decision[oc[1]] = "APPROVED" /\ offer[oc[1]].seller = lookup.reader

\* The sellers are told the verdict that is on record, and only that one.
ToldWhatWasDecided == \A n \in notified : decision[n[1]] = n[2]

\* Decide: "we never leave an approved offer with no grants behind it", looked at when no
\* Decide is under way on the offer.
ApprovedOfferHasGrants ==
  \A o \in OfferIds :
    /\ offer[o] # None /\ offer[o].status = "APPROVED"
    /\ ~ \E a \in Admins : desk[a].id = o
    => \E c \in Customers : access[o][c] # None
=============================================================================
