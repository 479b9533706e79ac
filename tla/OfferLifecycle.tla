--------------------------- MODULE OfferLifecycle ---------------------------
(***************************************************************************)
(* offer-service (app/service.py and its routers) at the grain of its      *)
(* awaits.  Each worker serves one HTTP call at a time with its own        *)
(* session; a call reads an offer, suspends, and writes it later by        *)
(* primary key, so other calls run in between.  The only protection the    *)
(* database adds is the partial unique index on live offers.  After a      *)
(* change the call counts the live offers and reports the number to        *)
(* request-service, best effort, with a timeout.                           *)
(***************************************************************************)
EXTENDS Naturals, FiniteSets

CONSTANTS
  Workers,    \* concurrent HTTP calls
  Sellers,
  Requests,   \* requests that exist in request-service (R5)
  OfferIds,   \* the UUIDs gen_random_uuid() can draw
  Columns,    \* the columns an update writes: quantity, price, picture...
  Values,     \* what a column may hold
  Faults,     \* the faults considered: "report", "late", "crash" (and "timeout")
  None

Terms == [Columns -> Values]

VARIABLES
  offer,        \* committed offers, None where there is none
  announced,    \* offers whose NEW_OFFER event is committed to the outbox
  task,         \* what each worker is doing
  answer,       \* what each worker's last call was answered
  totalOffers,  \* the count request-service has recorded for each request
  late          \* reports the reporter stopped waiting for, still under way

offerVars == <<offer, announced, task, answer, totalOffers, late>>

Statuses == {"PENDING", "APPROVED", "REJECTED", "CANCELLED"}
Live == {"PENDING", "APPROVED"}
Decisions == {"APPROVED", "REJECTED"}

OfferRow == [seller : Sellers, request : Requests, terms : Terms, status : Statuses]

Ops == {"submit", "update", "cancel", "set_status"}

Report == [request : Requests, count : 0..Cardinality(OfferIds)]

\* A call under way.  toAdmins says whether admin_user_ids found somebody to tell, seen is
\* the terms of the row as it was read.
Task == [op       : Ops \cup {None},
         pc       : {"idle", "check", "insert", "inserted", "read", "write", "count", "report"},
         id       : OfferIds \cup {None},
         seller   : Sellers \cup {None},
         request  : Requests \cup {None},
         terms    : Terms \cup {None},
         verdict  : Decisions \cup {None},
         toAdmins : BOOLEAN,
         seen     : Terms \cup {None},
         count    : 0..Cardinality(OfferIds)]

NoTask == [op |-> None, pc |-> "idle", id |-> None, seller |-> None, request |-> None,
           terms |-> None, verdict |-> None, toAdmins |-> FALSE, seen |-> None, count |-> 0]

Answers == {"ok", "already_made", "not_pending", "forbidden", "not_found", "error", "lost"}

ASSUME OfferConstants ==
  /\ IsFiniteSet(OfferIds)
  /\ None \notin Workers \cup Sellers \cup Requests \cup OfferIds \cup Terms \cup Statuses
                   \cup OfferRow \cup Answers

OfferInit ==
  /\ offer = [o \in OfferIds |-> None]
  /\ announced = {}
  /\ task = [w \in Workers |-> NoTask]
  /\ answer = [w \in Workers |-> None]
  /\ totalOffers = [r \in Requests |-> 0]
  /\ late = {}

-----------------------------------------------------------------------------
Stored == {o \in OfferIds : offer[o] # None}

\* The live offers of a seller on a request: live_offer_of, and the partial unique index.
LiveOf(s, r) ==
  {o \in Stored : offer[o].seller = s /\ offer[o].request = r /\ offer[o].status \in Live}

\* count_live_offers
CountLive(r) == Cardinality({o \in Stored : offer[o].request = r /\ offer[o].status \in Live})

Goto(w, label) == task' = [task EXCEPT ![w].pc = label]

\* The call is over: answered, with its session rolled back or closed.
Reply(w, how) ==
  /\ task' = [task EXCEPT ![w] = NoTask]
  /\ answer' = [answer EXCEPT ![w] = how]

Start(w, t) ==
  /\ task[w].pc = "idle"
  /\ task' = [task EXCEPT ![w] = t]
  /\ answer' = [answer EXCEPT ![w] = None]
  /\ UNCHANGED <<offer, announced, totalOffers, late>>

\* POST /api/offers once the seller, the request and the admins are resolved.
StartSubmit(w, s, r, terms, toAdmins) ==
  Start(w, [NoTask EXCEPT !.op = "submit", !.pc = "check", !.seller = s, !.request = r,
                          !.terms = terms, !.toAdmins = toAdmins])

\* PUT /api/offers/{id}
StartUpdate(w, s, o, terms) ==
  Start(w, [NoTask EXCEPT !.op = "update", !.pc = "read", !.seller = s, !.id = o,
                          !.terms = terms])

\* DELETE /api/offers/{id}
StartCancel(w, s, o) ==
  Start(w, [NoTask EXCEPT !.op = "cancel", !.pc = "read", !.seller = s, !.id = o])

\* PATCH /internal/offers/{id}/status
StartSetStatus(w, o, verdict) ==
  Start(w, [NoTask EXCEPT !.op = "set_status", !.pc = "read", !.id = o, !.verdict = verdict])

-----------------------------------------------------------------------------
\* create_offer: the read that turns a repeat into a clear refusal.
CheckLiveOffer(w) ==
  /\ task[w].pc = "check"
  /\ IF LiveOf(task[w].seller, task[w].request) = {}
     THEN Goto(w, "insert") /\ UNCHANGED answer
     ELSE Reply(w, "already_made")
  /\ UNCHANGED <<offer, announced, totalOffers, late>>

\* The index entry of a seller and a request is not held by an uncommitted insert.
IndexFree(s, r) ==
  ~ \E v \in Workers : task[v].pc = "inserted" /\ task[v].seller = s /\ task[v].request = r

Insert(w) ==
  /\ \E o \in OfferIds :
       /\ offer[o] = None
       /\ \A v \in Workers : task[v].pc = "inserted" => task[v].id # o
       /\ task' = [task EXCEPT ![w].pc = "inserted", ![w].id = o]
  /\ UNCHANGED answer

\* Mutant: no unique index behind the read.
FlushOfferUnindexed(w) ==
  /\ task[w].pc = "insert"
  /\ Insert(w)
  /\ UNCHANGED <<offer, announced, totalOffers, late>>

\* Mutant: the event published when the offer is flushed, outside the transaction.
FlushOfferAnnounced(w) ==
  /\ task[w].pc = "insert"
  /\ IndexFree(task[w].seller, task[w].request)
  /\ IF LiveOf(task[w].seller, task[w].request) = {}
     THEN Insert(w) /\ announced' = announced \cup {task'[w].id}
     ELSE Reply(w, "error") /\ UNCHANGED announced
  /\ UNCHANGED <<offer, totalOffers, late>>

\* session.flush(): the INSERT waits for a conflicting insert to end, and the unique index
\* is checked here, before the try block that only guards the commit: a conflict leaves the
\* handler as an unhandled IntegrityError.
FlushOffer(w) ==
  /\ task[w].pc = "insert"
  /\ IndexFree(task[w].seller, task[w].request)
  /\ IF LiveOf(task[w].seller, task[w].request) = {}
     THEN Insert(w)
     ELSE Reply(w, "error")
  /\ UNCHANGED <<offer, announced, totalOffers, late>>

\* session.commit(): the offer, its picture and its NEW_OFFER event appear together.
CommitOffer(w) ==
  /\ task[w].pc = "inserted"
  /\ offer' = [offer EXCEPT ![task[w].id] =
       [seller |-> task[w].seller, request |-> task[w].request,
        terms |-> task[w].terms, status |-> "PENDING"]]
  /\ announced' = IF task[w].toAdmins THEN announced \cup {task[w].id} ELSE announced
  /\ Goto(w, "count")
  /\ UNCHANGED <<answer, totalOffers, late>>

\* Why get_offer or _own_pending_offer refuses what it read, None if it does not.
Refusal(t, o) ==
  CASE o = None -> "not_found"
    [] o # None -> IF t.op # "set_status" /\ o.seller # t.seller THEN "forbidden"
                   ELSE IF o.status # "PENDING" THEN "not_pending" ELSE None

\* get_offer or _own_pending_offer: the read, and the checks on what was read.
ReadOffer(w) ==
  LET why == Refusal(task[w], offer[task[w].id])
  IN  /\ task[w].pc = "read"
      /\ IF why # None
         THEN Reply(w, why)
         ELSE /\ task' = [task EXCEPT ![w].pc = "write",
                                      ![w].request = offer[task[w].id].request,
                                      ![w].seen = offer[task[w].id].terms]
              /\ UNCHANGED answer
      /\ UNCHANGED <<offer, announced, totalOffers, late>>

\* Mutant: the whole row written back as it was read, not only the columns changed.
WrittenWhole(t, o) ==
  CASE t.op = "update" -> [o EXCEPT !.terms = t.terms, !.status = "PENDING"]
    [] t.op = "cancel" -> [o EXCEPT !.status = "CANCELLED"]
    [] t.op = "set_status" -> [o EXCEPT !.status = t.verdict]

\* What a call makes of the row it finds, whatever has become of it since the read: the
\* UPDATE sets the columns whose value differs from the one read, and no others.
Written(t, o) ==
  CASE t.op = "update" -> [o EXCEPT !.terms = [c \in Columns |->
         IF t.terms[c] = t.seen[c] THEN o.terms[c] ELSE t.terms[c]]]
    [] t.op = "cancel" -> [o EXCEPT !.status = "CANCELLED"]
    [] t.op = "set_status" -> [o EXCEPT !.status = t.verdict]

\* UPDATE offer SET ... WHERE offer_id = ..., and the commit.  The index waits for a
\* competing insert, and refuses a second live offer.
WriteOffer(w) ==
  LET t == task[w]
      row == Written(t, offer[t.id])
  IN  /\ t.pc = "write"
      /\ row.status \in Live => IndexFree(row.seller, row.request)
      /\ IF row.status \in Live /\ LiveOf(row.seller, row.request) \ {t.id} # {}
         THEN Reply(w, "error") /\ UNCHANGED offer
         ELSE /\ offer' = [offer EXCEPT ![t.id] = row]
              /\ IF t.op = "update"
                 THEN Reply(w, "ok")
                 ELSE Goto(w, "count") /\ UNCHANGED answer
      /\ UNCHANGED <<announced, totalOffers, late>>

\* count_live_offers, in a transaction of its own after the commit.
CountOffers(w) ==
  /\ task[w].pc = "count"
  /\ task' = [task EXCEPT ![w].pc = "report", ![w].count = CountLive(task[w].request)]
  /\ UNCHANGED <<offer, announced, answer, totalOffers, late>>

\* Mutant: the count sent as the increment of a delta.
ReportCountDelta(w) ==
  /\ task[w].pc = "report"
  /\ totalOffers' = [totalOffers EXCEPT ![task[w].request] = @ + task[w].count]
  /\ Reply(w, "ok")
  /\ UNCHANGED <<offer, announced, late>>

\* report_offer_count: PUT .../offers/count reaches request-service and is answered.
ReportCount(w) ==
  /\ task[w].pc = "report"
  /\ totalOffers' = [totalOffers EXCEPT ![task[w].request] = task[w].count]
  /\ Reply(w, "ok")
  /\ UNCHANGED <<offer, announced, late>>

\* The PUT fails: logged, and the call succeeds all the same.
LoseReport(w) ==
  /\ "report" \in Faults
  /\ task[w].pc = "report"
  /\ Reply(w, "ok")
  /\ UNCHANGED <<offer, announced, totalOffers, late>>

\* The PUT times out, and is still on its way.
OutwaitReport(w) ==
  /\ "late" \in Faults
  /\ task[w].pc = "report"
  /\ late' = late \cup {[request |-> task[w].request, count |-> task[w].count]}
  /\ Reply(w, "ok")
  /\ UNCHANGED <<offer, announced, totalOffers>>

ArriveLate(m) ==
  /\ totalOffers' = [totalOffers EXCEPT ![m.request] = m.count]
  /\ late' = late \ {m}
  /\ UNCHANGED <<offer, announced, task, answer>>

\* The process dies or a statement fails: an uncommitted insert is rolled back, a committed
\* change goes unreported, and the caller learns nothing.
Crash(w) ==
  /\ "crash" \in Faults
  /\ task[w].pc # "idle"
  /\ Reply(w, "lost")
  /\ UNCHANGED <<offer, announced, totalOffers, late>>

Serve(w) ==
  \/ CheckLiveOffer(w) \/ FlushOffer(w) \/ CommitOffer(w) \/ ReadOffer(w) \/ WriteOffer(w)
  \/ CountOffers(w) \/ ReportCount(w) \/ LoseReport(w) \/ OutwaitReport(w)

\* The calls sellers make.
SellerCall(w) ==
  \E s \in Sellers :
    \/ \E r \in Requests, terms \in Terms, toAdmins \in BOOLEAN :
         StartSubmit(w, s, r, terms, toAdmins)
    \/ \E o \in OfferIds, terms \in Terms : StartUpdate(w, s, o, terms)
    \/ \E o \in OfferIds : StartCancel(w, s, o)

\* Decisions relayed by Admin/Contact, here from anywhere.
DecisionCall(w) == \E o \in OfferIds, verdict \in Decisions : StartSetStatus(w, o, verdict)

OfferNext ==
  \/ \E w \in Workers : SellerCall(w) \/ DecisionCall(w) \/ Serve(w) \/ Crash(w)
  \/ \E m \in late : ArriveLate(m)

OfferSpec == OfferInit /\ [][OfferNext]_offerVars

-----------------------------------------------------------------------------
(* Properties *)

\* Type correctness of the offers, the calls under way and the reports.
OfferTypeOK ==
  /\ offer \in [OfferIds -> OfferRow \cup {None}]
  /\ announced \subseteq OfferIds
  /\ task \in [Workers -> Task]
  /\ answer \in [Workers -> Answers \cup {None}]
  /\ totalOffers \in [Requests -> 0..Cardinality(OfferIds)]
  /\ late \subseteq Report

\* However submissions, decisions and cancellations race, a seller never has two live offers
\* on one request: a stale approval cannot revive an offer its seller has since replaced
\* (idx_offer_one_live_per_seller_request).
OneLiveOffer ==
  \A s \in Sellers, r \in Requests : Cardinality(LiveOf(s, r)) <= 1

\* An offer that was decided or cancelled never returns to the review queue, even when an
\* update that read it PENDING is written afterwards (update_offer, set_status).
NeverReopened ==
  [][\A o \in Stored : offer[o].status # "PENDING" => offer'[o].status # "PENDING"]_offerVars

\* The admins are never told of an offer that was not stored, and a stored offer never
\* vanishes: a crash between the insert and the commit leaves neither (create_offer).
AnnouncedIsStored ==
  \A o \in announced : offer[o] # None

\* README: "Only a PENDING offer can be changed or decided".  An offer that was cancelled,
\* approved or rejected keeps its status and its terms (update_offer, cancel_offer, set_status).
OnlyPendingChanges ==
  [][\A o \in Stored : offer[o].status # "PENDING" => offer'[o] = offer[o]]_offerVars
=============================================================================
