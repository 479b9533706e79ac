---------------------------- MODULE OfferProofs ----------------------------
(***************************************************************************)
(* Proofs about OfferLifecycle, for every number of workers, sellers,      *)
(* requests, offers and faults.                                            *)
(***************************************************************************)
EXTENDS OfferLifecycle, FiniteSetTheorems, TLAPS

\* What a call holds at each of its steps.
Equipped(t) ==
  /\ t.pc \in {"check", "insert", "inserted"} =>
       /\ t.op = "submit"
       /\ t.seller \in Sellers /\ t.request \in Requests /\ t.terms \in Terms
  /\ t.pc = "inserted" => t.id \in OfferIds
  /\ t.pc \in {"read", "write"} =>
       /\ t.op \in {"update", "cancel", "set_status"} /\ t.id \in OfferIds
       /\ t.op = "update" => t.terms \in Terms
       /\ t.op = "set_status" => t.verdict \in Decisions
  /\ t.pc = "write" => t.request \in Requests /\ t.seen \in Terms
  /\ t.pc \in {"count", "report"} => t.request \in Requests

\* What a call knows of the database: an uncommitted insert has an id and an index entry of
\* its own, a row that was read is still there, and a decision written stays written.
Informed(t) ==
  /\ t.pc = "inserted" => offer[t.id] = None /\ LiveOf(t.seller, t.request) = {}
  /\ t.pc = "write" => offer[t.id] # None
  /\ t.pc \in {"count", "report"} /\ t.op = "set_status" =>
       t.id \in OfferIds /\ offer[t.id] # None /\ offer[t.id].status # "PENDING"

\* Two uncommitted inserts share neither an id nor an index entry.
Apart(t, u) ==
  t.pc = "inserted" /\ u.pc = "inserted" =>
    t.id # u.id /\ (t.seller # u.seller \/ t.request # u.request)

\* The unique index, offer by offer.
IndexHolds ==
  \A o, p \in Stored :
    /\ offer[o].status \in Live /\ offer[p].status \in Live
    /\ offer[o].seller = offer[p].seller /\ offer[o].request = offer[p].request
    => o = p

\* The inductive invariant of offer-service.
OfferInv ==
  /\ OfferTypeOK
  /\ \A w \in Workers : Equipped(task[w])
  /\ \A w \in Workers : Informed(task[w])
  /\ \A v, w \in Workers : v # w => Apart(task[v], task[w])
  /\ IndexHolds
  /\ AnnouncedIsStored

-----------------------------------------------------------------------------
(* The operators *)

\* A number of offers is one request-service can record.
LEMMA CountInRange ==
  ASSUME NEW S \in SUBSET OfferIds
  PROVE  IsFiniteSet(S) /\ Cardinality(S) \in 0..Cardinality(OfferIds)
<1>1. IsFiniteSet(S) /\ Cardinality(S) <= Cardinality(OfferIds)
  BY FS_Subset, OfferConstants
<1>2. Cardinality(S) \in Nat /\ Cardinality(OfferIds) \in Nat
  BY <1>1, FS_CardinalityType, OfferConstants
<1>3. QED
  BY <1>1, <1>2

LEMMA CountLiveInRange ==
  ASSUME NEW r
  PROVE  CountLive(r) \in 0..Cardinality(OfferIds)
BY CountInRange DEF CountLive, Stored

LEMMA ZeroInRange == 0 \in 0..Cardinality(OfferIds)
BY FS_CardinalityType, OfferConstants

LEMMA NoTaskFits == NoTask \in Task /\ Equipped(NoTask) /\ Informed(NoTask)
BY ZeroInRange DEF NoTask, Task, Equipped, Informed

\* Written changes the terms or the status of a row, never whose it is, and never makes it
\* PENDING.
LEMMA WrittenRow ==
  ASSUME NEW t \in Task, t.pc = "write", Equipped(t), NEW o \in OfferRow
  PROVE  /\ Written(t, o) \in OfferRow
         /\ Written(t, o).seller = o.seller /\ Written(t, o).request = o.request
         /\ o.status # "PENDING" => Written(t, o).status # "PENDING"
         /\ t.op = "update" => Written(t, o).status = o.status
         /\ t.op = "set_status" => Written(t, o).status # "PENDING"
<1>1. CASE t.op = "update"
  <2> DEFINE terms == [c \in Columns |-> IF t.terms[c] = t.seen[c] THEN o.terms[c] ELSE t.terms[c]]
  <2>1. terms \in Terms
    BY <1>1 DEF Terms, Equipped, OfferRow
  <2>2. Written(t, o) = [o EXCEPT !.terms = terms]
    BY <1>1 DEF Written
  <2> HIDE DEF terms
  <2>3. QED
    BY <1>1, <2>1, <2>2 DEF OfferRow
<1>2. CASE t.op = "cancel"
  BY <1>2 DEF Written, OfferRow, Statuses
<1>3. CASE t.op = "set_status"
  BY <1>3 DEF Written, OfferRow, Statuses, Equipped, Decisions
<1>4. QED
  BY <1>1, <1>2, <1>3 DEF Equipped

-----------------------------------------------------------------------------
(* Preservation *)

\* A step of one call that leaves the database alone.
LEMMA LocalStep ==
  ASSUME OfferInv, NEW w \in Workers, NEW t \in Task,
         task' = [task EXCEPT ![w] = t],
         Equipped(t), Informed(t),
         t.pc = "inserted" => \A v \in Workers \ {w} : Apart(t, task[v]),
         UNCHANGED <<offer, announced>>,
         answer' \in [Workers -> Answers \cup {None}],
         totalOffers' \in [Requests -> 0..Cardinality(OfferIds)],
         late' \subseteq Report
  PROVE  OfferInv'
<1>1. task \in [Workers -> Task]
  BY DEF OfferInv, OfferTypeOK
<1>2. task'[w] = t /\ \A v \in Workers \ {w} : task'[v] = task[v]
  BY <1>1
<1>3. OfferTypeOK'
  BY <1>1 DEF OfferInv, OfferTypeOK
<1>4. \A v \in Workers : Equipped(task'[v])
  BY <1>2 DEF OfferInv
<1>5. (\A v \in Workers : Informed(task[v]))'
  <2>1. TAKE v \in Workers
  <2>2. Informed(task'[v])
    BY <1>2 DEF OfferInv
  <2>3. QED
    BY <2>2 DEF Informed, LiveOf, Stored
<1>6. (\A u, v \in Workers : u # v => Apart(task[u], task[v]))'
  BY <1>2 DEF OfferInv, Apart
<1>7. IndexHolds' /\ AnnouncedIsStored'
  BY DEF OfferInv, IndexHolds, Stored, AnnouncedIsStored
<1>8. QED
  BY <1>3, <1>4, <1>5, <1>6, <1>7 DEF OfferInv

\* A call that ends, whatever it reports.
LEMMA ReplyStep ==
  ASSUME OfferInv, NEW w \in Workers, NEW how \in Answers, Reply(w, how),
         UNCHANGED <<offer, announced>>,
         totalOffers' \in [Requests -> 0..Cardinality(OfferIds)],
         late' \subseteq Report
  PROVE  OfferInv'
<1>1. answer' \in [Workers -> Answers \cup {None}]
  BY DEF Reply, OfferInv, OfferTypeOK
<1>2. NoTask.pc # "inserted"
  BY DEF NoTask
<1>3. QED
  BY <1>1, <1>2, NoTaskFits, LocalStep DEF Reply

LEMMA StartStep ==
  ASSUME OfferInv, NEW w \in Workers, NEW t \in Task, Equipped(t), t.pc \in {"check", "read"},
         Start(w, t)
  PROVE  OfferInv'
<1>1. answer' \in [Workers -> Answers \cup {None}]
  BY DEF Start, OfferInv, OfferTypeOK
<1>2. Informed(t)
  BY DEF Informed
<1>3. totalOffers' \in [Requests -> 0..Cardinality(OfferIds)] /\ late' \subseteq Report
  BY DEF Start, OfferInv, OfferTypeOK
<1>4. QED
  BY <1>1, <1>2, <1>3, LocalStep DEF Start

LEMMA SetStatusStarts ==
  ASSUME OfferInv, NEW w \in Workers, NEW o \in OfferIds, NEW verdict \in Decisions,
         StartSetStatus(w, o, verdict)
  PROVE  OfferInv'
<1> DEFINE t == [NoTask EXCEPT !.op = "set_status", !.pc = "read", !.id = o, !.verdict = verdict]
<1>1. t \in Task /\ t.pc = "read"
  BY NoTaskFits DEF NoTask, Task, Ops
<1>2. Equipped(t)
  BY DEF NoTask, Equipped
<1> HIDE DEF t
<1>3. Start(w, t)
  BY DEF StartSetStatus, t
<1>4. QED
  BY <1>1, <1>2, <1>3, StartStep

LEMMA SellerCallStarts ==
  ASSUME OfferInv, NEW w \in Workers, SellerCall(w)
  PROVE  OfferInv'
<1> PICK s \in Sellers :
      \/ \E r \in Requests, terms \in Terms, toAdmins \in BOOLEAN :
           StartSubmit(w, s, r, terms, toAdmins)
      \/ \E o \in OfferIds, terms \in Terms : StartUpdate(w, s, o, terms)
      \/ \E o \in OfferIds : StartCancel(w, s, o)
  BY DEF SellerCall
<1>1. ASSUME NEW r \in Requests, NEW terms \in Terms, NEW toAdmins \in BOOLEAN,
             StartSubmit(w, s, r, terms, toAdmins)
      PROVE  OfferInv'
  <2> DEFINE t == [NoTask EXCEPT !.op = "submit", !.pc = "check", !.seller = s, !.request = r,
                                 !.terms = terms, !.toAdmins = toAdmins]
  <2>1. t \in Task /\ t.pc = "check"
    BY NoTaskFits DEF NoTask, Task, Ops
  <2>2. Equipped(t)
    BY DEF NoTask, Equipped
  <2> HIDE DEF t
  <2>3. Start(w, t)
    BY <1>1 DEF StartSubmit, t
  <2>4. QED
    BY <2>1, <2>2, <2>3, StartStep
<1>2. ASSUME NEW o \in OfferIds, NEW terms \in Terms, StartUpdate(w, s, o, terms)
      PROVE  OfferInv'
  <2> DEFINE t == [NoTask EXCEPT !.op = "update", !.pc = "read", !.seller = s, !.id = o,
                                 !.terms = terms]
  <2>1. t \in Task /\ t.pc = "read"
    BY NoTaskFits DEF NoTask, Task, Ops
  <2>2. Equipped(t)
    BY DEF NoTask, Equipped
  <2> HIDE DEF t
  <2>3. Start(w, t)
    BY <1>2 DEF StartUpdate, t
  <2>4. QED
    BY <2>1, <2>2, <2>3, StartStep
<1>3. ASSUME NEW o \in OfferIds, StartCancel(w, s, o)
      PROVE  OfferInv'
  <2> DEFINE t == [NoTask EXCEPT !.op = "cancel", !.pc = "read", !.seller = s, !.id = o]
  <2>1. t \in Task /\ t.pc = "read"
    BY NoTaskFits DEF NoTask, Task, Ops
  <2>2. Equipped(t)
    BY DEF NoTask, Equipped
  <2> HIDE DEF t
  <2>3. Start(w, t)
    BY <1>3 DEF StartCancel, t
  <2>4. QED
    BY <2>1, <2>2, <2>3, StartStep
<1>4. QED
  BY <1>1, <1>2, <1>3

LEMMA CheckLiveOfferStep ==
  ASSUME OfferInv, NEW w \in Workers, CheckLiveOffer(w)
  PROVE  OfferInv'
<1> USE DEF CheckLiveOffer
<1>1. totalOffers' \in [Requests -> 0..Cardinality(OfferIds)] /\ late' \subseteq Report
  BY DEF OfferInv, OfferTypeOK
<1>2. CASE Reply(w, "already_made")
  BY <1>1, <1>2, ReplyStep DEF Answers
<1>3. CASE Goto(w, "insert") /\ UNCHANGED answer
  <2> DEFINE t == [task[w] EXCEPT !.pc = "insert"]
  <2>1. task[w] \in Task /\ Equipped(task[w]) /\ task[w].pc = "check"
    BY DEF OfferInv, OfferTypeOK
  <2>2. t \in Task /\ t.pc = "insert"
    BY <2>1 DEF Task
  <2>3. Equipped(t)
    BY <2>1 DEF Task, Equipped
  <2>4. Informed(t)
    BY <2>2 DEF Informed
  <2> HIDE DEF t
  <2>5. task' = [task EXCEPT ![w] = t]
    BY <1>3 DEF Goto, t, OfferInv, OfferTypeOK
  <2>6. answer' \in [Workers -> Answers \cup {None}]
    BY <1>3 DEF OfferInv, OfferTypeOK
  <2>7. QED
    BY <1>1, <2>2, <2>3, <2>4, <2>5, <2>6, LocalStep
<1>4. QED
  BY <1>2, <1>3

LEMMA FlushOfferStep ==
  ASSUME OfferInv, NEW w \in Workers, FlushOffer(w)
  PROVE  OfferInv'
<1> USE DEF FlushOffer
<1>1. totalOffers' \in [Requests -> 0..Cardinality(OfferIds)] /\ late' \subseteq Report
  BY DEF OfferInv, OfferTypeOK
<1>2. CASE Reply(w, "error")
  BY <1>1, <1>2, ReplyStep DEF Answers
<1>3. CASE LiveOf(task[w].seller, task[w].request) = {} /\ Insert(w)
  <2>1. PICK o \in OfferIds :
          /\ offer[o] = None
          /\ \A v \in Workers : task[v].pc = "inserted" => task[v].id # o
          /\ task' = [task EXCEPT ![w].pc = "inserted", ![w].id = o]
    BY <1>3 DEF Insert
  <2> DEFINE t == [task[w] EXCEPT !.pc = "inserted", !.id = o]
  <2>2. task[w] \in Task /\ Equipped(task[w]) /\ task[w].pc = "insert"
    BY DEF OfferInv, OfferTypeOK
  <2>3. t \in Task
    BY <2>2 DEF Task
  <2>4. Equipped(t)
    BY <2>2 DEF Task, Equipped
  <2>5. /\ t.pc = "inserted" /\ t.id = o
        /\ t.seller = task[w].seller /\ t.request = task[w].request
    BY <2>2 DEF Task
  <2> HIDE DEF t
  <2>6. Informed(t)
    BY <1>3, <2>1, <2>5 DEF Informed
  <2>7. \A v \in Workers \ {w} : Apart(t, task[v])
    BY <2>1, <2>5 DEF Apart, IndexFree
  <2>8. task' = [task EXCEPT ![w] = t]
    BY <2>1 DEF t, OfferInv, OfferTypeOK
  <2>9. answer' \in [Workers -> Answers \cup {None}]
    BY <1>3 DEF Insert, OfferInv, OfferTypeOK
  <2>10. QED
    BY <1>1, <2>3, <2>4, <2>6, <2>7, <2>8, <2>9, LocalStep
<1>4. QED
  BY <1>2, <1>3

LEMMA ReadOfferStep ==
  ASSUME OfferInv, NEW w \in Workers, ReadOffer(w)
  PROVE  OfferInv'
<1> DEFINE id == task[w].id
           why == Refusal(task[w], offer[id])
           t == [task[w] EXCEPT !.pc = "write", !.request = offer[id].request,
                                !.seen = offer[id].terms]
<1>1. totalOffers' \in [Requests -> 0..Cardinality(OfferIds)] /\ late' \subseteq Report
  BY DEF ReadOffer, OfferInv, OfferTypeOK
<1>2. /\ task[w] \in Task /\ Equipped(task[w]) /\ task[w].pc = "read" /\ id \in OfferIds
      /\ offer[id] \in OfferRow \cup {None}
  BY DEF ReadOffer, OfferInv, OfferTypeOK, Equipped
<1>3. CASE why # None
  <2>1. why \in Answers
    BY <1>3 DEF Refusal, Answers
  <2>2. Reply(w, why) /\ UNCHANGED <<offer, announced>>
    BY <1>3 DEF ReadOffer
  <2>3. QED
    BY <1>1, <2>1, <2>2, ReplyStep
<1>4. CASE why = None
  <2>1. offer[id] # None /\ offer[id] \in OfferRow
    BY <1>2, <1>4, OfferConstants DEF Refusal, Answers
  <2>2. t \in Task
    BY <1>2, <2>1 DEF Task, OfferRow
  <2>3. Equipped(t)
    BY <1>2, <2>1 DEF Task, Equipped, OfferRow
  <2>4. t.pc = "write" /\ t.id = id
    BY <1>2 DEF Task
  <2>5. Informed(t)
    BY <2>1, <2>4 DEF Informed
  <2>6. /\ task' = [task EXCEPT ![w].pc = "write", ![w].request = offer[id].request,
                                ![w].seen = offer[id].terms]
        /\ UNCHANGED <<answer, offer, announced>>
    BY <1>4 DEF ReadOffer
  <2>7. task' = [task EXCEPT ![w] = t]
    BY <2>6 DEF OfferInv, OfferTypeOK
  <2>8. answer' \in [Workers -> Answers \cup {None}]
    BY <2>6 DEF OfferInv, OfferTypeOK
  <2> HIDE DEF t
  <2>9. QED
    BY <1>1, <2>2, <2>3, <2>4, <2>5, <2>6, <2>7, <2>8, LocalStep
<1>5. QED
  BY <1>3, <1>4

LEMMA CountOffersStep ==
  ASSUME OfferInv, NEW w \in Workers, CountOffers(w)
  PROVE  OfferInv'
<1> USE DEF CountOffers
<1> DEFINE n == CountLive(task[w].request)
           t == [task[w] EXCEPT !.pc = "report", !.count = n]
<1>1. task[w] \in Task /\ Equipped(task[w]) /\ Informed(task[w]) /\ task[w].pc = "count"
  BY DEF OfferInv, OfferTypeOK
<1>2. n \in 0..Cardinality(OfferIds)
  BY CountLiveInRange
<1>3. task' = [task EXCEPT ![w].pc = "report", ![w].count = n]
  OBVIOUS
<1> HIDE DEF n
<1>4. t \in Task
  BY <1>1, <1>2 DEF Task
<1>5. Equipped(t)
  BY <1>1 DEF Task, Equipped
<1>6. t.pc = "report" /\ t.op = task[w].op /\ t.id = task[w].id
  BY <1>1 DEF Task
<1>7. task' = [task EXCEPT ![w] = t]
  BY <1>3 DEF OfferInv, OfferTypeOK
<1> HIDE DEF t
<1>8. Informed(t)
  BY <1>1, <1>6 DEF Informed
<1>9. /\ answer' \in [Workers -> Answers \cup {None}]
      /\ totalOffers' \in [Requests -> 0..Cardinality(OfferIds)] /\ late' \subseteq Report
  BY DEF OfferInv, OfferTypeOK
<1>10. QED
  BY <1>4, <1>5, <1>6, <1>7, <1>8, <1>9, LocalStep

LEMMA ReportStep ==
  ASSUME OfferInv, NEW w \in Workers, ReportCount(w) \/ LoseReport(w) \/ OutwaitReport(w)
  PROVE  OfferInv'
<1>1. /\ task[w] \in Task /\ task[w].request \in Requests
      /\ task[w].count \in 0..Cardinality(OfferIds)
  BY DEF OfferInv, OfferTypeOK, Equipped, ReportCount, LoseReport, OutwaitReport, Task
<1>2. Reply(w, "ok") /\ UNCHANGED <<offer, announced>>
  BY DEF ReportCount, LoseReport, OutwaitReport
<1>3. totalOffers' \in [Requests -> 0..Cardinality(OfferIds)]
  BY <1>1 DEF ReportCount, LoseReport, OutwaitReport, OfferInv, OfferTypeOK
<1>4. late' \subseteq Report
  BY <1>1 DEF ReportCount, LoseReport, OutwaitReport, OfferInv, OfferTypeOK, Report
<1>5. QED
  BY <1>2, <1>3, <1>4, ReplyStep DEF Answers

LEMMA CrashStep ==
  ASSUME OfferInv, NEW w \in Workers, Crash(w)
  PROVE  OfferInv'
<1>1. totalOffers' \in [Requests -> 0..Cardinality(OfferIds)] /\ late' \subseteq Report
  BY DEF Crash, OfferInv, OfferTypeOK
<1>2. QED
  BY <1>1, ReplyStep DEF Crash, Answers

\* No call changes, and neither does the offer table.
LEMMA TablesUnchanged ==
  ASSUME OfferInv, UNCHANGED <<offer, announced, task, answer>>,
         totalOffers' \in [Requests -> 0..Cardinality(OfferIds)], late' \subseteq Report
  PROVE  OfferInv'
<1>1. OfferTypeOK'
  BY DEF OfferInv, OfferTypeOK
<1>2. QED
  BY <1>1 DEF OfferInv, Equipped, Informed, Apart, IndexHolds, AnnouncedIsStored, LiveOf, Stored

LEMMA ArriveLateStep ==
  ASSUME OfferInv, NEW m \in late, ArriveLate(m)
  PROVE  OfferInv'
<1>1. totalOffers' \in [Requests -> 0..Cardinality(OfferIds)] /\ late' \subseteq Report
  BY DEF ArriveLate, OfferInv, OfferTypeOK, Report
<1>2. QED
  BY <1>1, TablesUnchanged DEF ArriveLate

\* A step of one call that commits a row: the row competes with no other for the index, and
\* a row it replaces was not decided, or stays decided.
LEMMA RowStep ==
  ASSUME OfferInv, NEW w \in Workers, NEW t \in Task, NEW o \in OfferIds, NEW row \in OfferRow,
         task' = [task EXCEPT ![w] = t],
         t.pc \in {"idle", "count"}, Equipped(t),
         t.pc = "count" /\ t.op = "set_status" => t.id = o /\ row.status # "PENDING",
         offer' = [offer EXCEPT ![o] = row],
         offer[o] # None /\ offer[o].status # "PENDING" => row.status # "PENDING",
         row.status \in Live => LiveOf(row.seller, row.request) \ {o} = {},
         row.status \in Live => \A v \in Workers \ {w} : task[v].pc = "inserted" =>
           task[v].seller # row.seller \/ task[v].request # row.request,
         \A v \in Workers \ {w} : task[v].pc = "inserted" => task[v].id # o,
         announced' \subseteq announced \cup {o},
         answer' \in [Workers -> Answers \cup {None}],
         UNCHANGED <<totalOffers, late>>
  PROVE  OfferInv'
<1>1. task \in [Workers -> Task] /\ offer \in [OfferIds -> OfferRow \cup {None}]
  BY DEF OfferInv, OfferTypeOK
<1>2. task'[w] = t /\ \A v \in Workers \ {w} : task'[v] = task[v]
  BY <1>1
<1>3. offer'[o] = row /\ \A p \in OfferIds \ {o} : offer'[p] = offer[p]
  BY <1>1
<1>4. row # None
  BY OfferConstants
<1>5. OfferTypeOK'
  BY <1>1 DEF OfferInv, OfferTypeOK
<1>6. \A v \in Workers : Equipped(task'[v])
  BY <1>2 DEF OfferInv
<1>7. (\A v \in Workers : Informed(task[v]))'
  <2>1. SUFFICES ASSUME NEW v \in Workers PROVE Informed(task[v])'
    OBVIOUS
  <2>2. CASE v = w
    BY <1>2, <1>3, <1>4, <2>2 DEF Informed
  <2>3. CASE v # w
    <3> DEFINE u == task[v]
    <3>1. task'[v] = u /\ Informed(u) /\ Equipped(u)
      BY <1>2, <2>3 DEF OfferInv
    <3>2. u.pc = "inserted" => offer'[u.id] = None
      BY <1>3, <2>3, <3>1 DEF Informed, Equipped
    <3>3. u.pc = "inserted" => LiveOf(u.seller, u.request)' = {}
      BY <1>2, <1>3, <2>3, <3>1 DEF Informed, LiveOf, Stored
    <3>4. u.pc = "write" => offer'[u.id] # None
      BY <1>3, <1>4, <3>1 DEF Informed, Equipped
    <3>5. u.pc \in {"count", "report"} /\ u.op = "set_status" =>
            u.id \in OfferIds /\ offer'[u.id] # None /\ offer'[u.id].status # "PENDING"
      BY <1>3, <1>4, <3>1 DEF Informed
    <3>6. LiveOf(task[v].seller, task[v].request)' = LiveOf(u.seller, u.request)'
      BY <3>1 DEF LiveOf
    <3>7. QED
      BY <3>1, <3>2, <3>3, <3>4, <3>5, <3>6 DEF Informed
  <2>4. QED
    BY <2>2, <2>3
<1>8. (\A u, v \in Workers : u # v => Apart(task[u], task[v]))'
  BY <1>2 DEF OfferInv, Apart
<1>9. IndexHolds'
  BY <1>3 DEF OfferInv, IndexHolds, LiveOf, Stored
<1>10. AnnouncedIsStored'
  BY <1>3, <1>4 DEF OfferInv, OfferTypeOK, AnnouncedIsStored
<1>11. QED
  BY <1>5, <1>6, <1>7, <1>8, <1>9, <1>10 DEF OfferInv

LEMMA CommitOfferStep ==
  ASSUME OfferInv, NEW w \in Workers, CommitOffer(w)
  PROVE  OfferInv'
<1> DEFINE o == task[w].id
           t == [task[w] EXCEPT !.pc = "count"]
           row == [seller |-> task[w].seller, request |-> task[w].request,
                   terms |-> task[w].terms, status |-> "PENDING"]
<1>1. /\ task[w] \in Task /\ Equipped(task[w]) /\ Informed(task[w]) /\ task[w].pc = "inserted"
      /\ o \in OfferIds
  BY DEF CommitOffer, OfferInv, OfferTypeOK, Equipped
<1>2. t \in Task /\ t.pc = "count" /\ t.op = "submit" /\ Equipped(t)
  BY <1>1 DEF Task, Equipped
<1>3. /\ row \in OfferRow /\ row.status = "PENDING"
      /\ row.seller = task[w].seller /\ row.request = task[w].request
  BY <1>1 DEF OfferRow, Statuses, Equipped
<1>4. offer' = [offer EXCEPT ![o] = row]
  BY DEF CommitOffer
<1>5. task' = [task EXCEPT ![w] = t]
  BY DEF CommitOffer, Goto, OfferInv, OfferTypeOK
<1>6. offer[o] = None /\ LiveOf(row.seller, row.request) \ {o} = {}
  BY <1>1, <1>3 DEF Informed
<1>7. \A v \in Workers \ {w} : task[v].pc = "inserted" =>
        task[v].id # o /\ (task[v].seller # row.seller \/ task[v].request # row.request)
  BY <1>1, <1>3 DEF OfferInv, Apart
<1>8. announced' \subseteq announced \cup {o}
  BY DEF CommitOffer
<1>9. UNCHANGED <<totalOffers, late>> /\ answer' \in [Workers -> Answers \cup {None}]
  BY DEF CommitOffer, OfferInv, OfferTypeOK
<1> HIDE DEF t, row, o
<1>10. /\ t.pc \in {"idle", "count"}
       /\ t.pc = "count" /\ t.op = "set_status" => t.id = o /\ row.status # "PENDING"
       /\ offer[o] # None /\ offer[o].status # "PENDING" => row.status # "PENDING"
  BY <1>2, <1>6
<1>11. /\ row.status \in Live => \A v \in Workers \ {w} : task[v].pc = "inserted" =>
            task[v].seller # row.seller \/ task[v].request # row.request
       /\ \A v \in Workers \ {w} : task[v].pc = "inserted" => task[v].id # o
  BY <1>7
<1>12. QED
  BY <1>1, <1>2, <1>3, <1>4, <1>5, <1>6, <1>8, <1>9, <1>10, <1>11, RowStep

LEMMA WriteOfferStep ==
  ASSUME OfferInv, NEW w \in Workers, WriteOffer(w)
  PROVE  OfferInv'
<1> DEFINE o == task[w].id
           row == Written(task[w], offer[o])
           t == IF task[w].op = "update" THEN NoTask ELSE [task[w] EXCEPT !.pc = "count"]
<1>1. /\ task[w] \in Task /\ Equipped(task[w]) /\ task[w].pc = "write" /\ o \in OfferIds
      /\ offer[o] \in OfferRow
  BY DEF WriteOffer, OfferInv, OfferTypeOK, Equipped, Informed
<1>2. /\ row \in OfferRow
      /\ offer[o].status # "PENDING" => row.status # "PENDING"
      /\ task[w].op = "set_status" => row.status # "PENDING"
  BY <1>1, WrittenRow
<1>3. CASE Reply(w, "error") /\ UNCHANGED offer
  <2>1. /\ UNCHANGED <<offer, announced>>
        /\ totalOffers' \in [Requests -> 0..Cardinality(OfferIds)] /\ late' \subseteq Report
    BY <1>3 DEF WriteOffer, OfferInv, OfferTypeOK
  <2>2. QED
    BY <1>3, <2>1, ReplyStep DEF Answers
<1>4. CASE ~(row.status \in Live /\ LiveOf(row.seller, row.request) \ {o} # {})
  <2>1. /\ offer' = [offer EXCEPT ![o] = row]
        /\ task[w].op = "update" => Reply(w, "ok")
        /\ task[w].op # "update" => Goto(w, "count") /\ UNCHANGED answer
        /\ row.status \in Live => IndexFree(row.seller, row.request)
        /\ UNCHANGED <<announced, totalOffers, late>>
    BY <1>4 DEF WriteOffer
  <2> HIDE DEF row
  <2>2. t \in Task /\ t.pc \in {"idle", "count"} /\ Equipped(t)
    BY <1>1, NoTaskFits DEF Task, Equipped, NoTask
  <2>3. t.pc = "count" /\ t.op = "set_status" => t.id = o /\ row.status # "PENDING"
    BY <1>1, <1>2 DEF Task, NoTask
  <2>4. task' = [task EXCEPT ![w] = t]
    BY <2>1 DEF Reply, Goto, OfferInv, OfferTypeOK
  <2>5. answer' \in [Workers -> Answers \cup {None}]
    BY <2>1 DEF Reply, OfferInv, OfferTypeOK, Answers
  <2>6. \A v \in Workers \ {w} : task[v].pc = "inserted" => task[v].id # o
    BY <1>1, OfferConstants DEF OfferInv, Informed
  <2>7. row.status \in Live => \A v \in Workers \ {w} : task[v].pc = "inserted" =>
          task[v].seller # row.seller \/ task[v].request # row.request
    BY <2>1 DEF IndexFree
  <2> HIDE DEF t, o
  <2>8. QED
    BY <1>1, <1>2, <1>4, <2>1, <2>2, <2>3, <2>4, <2>5, <2>6, <2>7, RowStep
<1>5. QED
  BY <1>3, <1>4 DEF WriteOffer

LEMMA ServeStep ==
  ASSUME OfferInv, NEW w \in Workers, Serve(w)
  PROVE  OfferInv'
BY CheckLiveOfferStep, FlushOfferStep, CommitOfferStep, ReadOfferStep, WriteOfferStep,
   CountOffersStep, ReportStep DEF Serve

\* The invariant is inductive.
LEMMA OfferInvStep == OfferInv /\ [OfferNext]_offerVars => OfferInv'
<1> SUFFICES ASSUME OfferInv, [OfferNext]_offerVars PROVE OfferInv'
  OBVIOUS
<1>1. CASE UNCHANGED offerVars
  BY <1>1, TablesUnchanged DEF offerVars, OfferInv, OfferTypeOK
<1>2. ASSUME NEW w \in Workers, SellerCall(w) \/ DecisionCall(w) \/ Serve(w) \/ Crash(w)
      PROVE  OfferInv'
  BY <1>2, SellerCallStarts, SetStatusStarts, ServeStep, CrashStep DEF DecisionCall
<1>3. ASSUME NEW m \in late, ArriveLate(m)
      PROVE  OfferInv'
  BY <1>3, ArriveLateStep
<1>4. QED
  BY <1>1, <1>2, <1>3 DEF OfferNext

LEMMA OfferInvInit == OfferInit => OfferInv
<1> SUFFICES ASSUME OfferInit PROVE OfferInv
  OBVIOUS
<1>1. OfferTypeOK
  BY NoTaskFits, ZeroInRange DEF OfferInit, OfferTypeOK
<1>2. \A w \in Workers : task[w] = NoTask
  BY DEF OfferInit
<1>3. \A v, w \in Workers : v # w => Apart(task[v], task[w])
  BY <1>2 DEF NoTask, Apart
<1>4. IndexHolds /\ AnnouncedIsStored
  BY DEF OfferInit, IndexHolds, Stored, AnnouncedIsStored
<1>5. QED
  BY <1>1, <1>2, <1>3, <1>4, NoTaskFits DEF OfferInv

\* offer-service keeps its invariant, whatever its callers do.
THEOREM OfferSafety == OfferSpec => []OfferInv
BY OfferInvInit, OfferInvStep, PTL DEF OfferSpec

-----------------------------------------------------------------------------
(* The properties *)

\* The offers, the calls under way and the reports stay within their types.
THEOREM OfferTypeCorrect == OfferSpec => []OfferTypeOK
<1>1. OfferInv => OfferTypeOK
  BY DEF OfferInv
<1>2. QED
  BY <1>1, OfferSafety, PTL

\* However submissions, updates, decisions, cancellations and crashes race, a seller never
\* has two live offers on one request (create_offer, set_status and the partial index).
THEOREM OneLive == OfferSpec => []OneLiveOffer
<1>1. OfferInv => OneLiveOffer
  <2> SUFFICES ASSUME OfferInv, NEW s \in Sellers, NEW r \in Requests
               PROVE  Cardinality(LiveOf(s, r)) <= 1
    BY DEF OneLiveOffer
  <2>1. \A o, p \in LiveOf(s, r) : o = p
    BY DEF OfferInv, IndexHolds, LiveOf
  <2>2. CASE LiveOf(s, r) = {}
    BY <2>2, FS_EmptySet
  <2>3. CASE LiveOf(s, r) # {}
    <3>1. PICK o : LiveOf(s, r) = {o}
      BY <2>1, <2>3
    <3>2. QED
      BY <3>1, FS_Singleton
  <2>4. QED
    BY <2>2, <2>3
<1>2. QED
  BY <1>1, OfferSafety, PTL

\* The admins are never told of an offer that is not stored (create_offer's one commit).
THEOREM AnnouncedStored == OfferSpec => []AnnouncedIsStored
<1>1. OfferInv => AnnouncedIsStored
  BY DEF OfferInv
<1>2. QED
  BY <1>1, OfferSafety, PTL

\* What every step leaves of a stored offer: whose it is, and that it was decided.
Kept(o) ==
  /\ offer'[o] # None
  /\ offer'[o].seller = offer[o].seller /\ offer'[o].request = offer[o].request
  /\ offer[o].status # "PENDING" => offer'[o].status # "PENDING"

\* Offers are never removed, never change hands and are never reopened.
LEMMA OffersKept ==
  ASSUME OfferInv, [OfferNext]_offerVars
  PROVE  \A o \in Stored : Kept(o)
<1>1. CASE UNCHANGED offer
  BY <1>1 DEF Kept, Stored
<1>2. ASSUME NEW w \in Workers, CommitOffer(w)
      PROVE  \A o \in Stored : Kept(o)
  <2>1. task[w].id \in OfferIds /\ offer[task[w].id] = None
    BY <1>2 DEF CommitOffer, OfferInv, Equipped, Informed
  <2>2. \A o \in Stored : offer'[o] = offer[o]
    BY <1>2, <2>1 DEF CommitOffer, Stored, OfferInv, OfferTypeOK
  <2>3. QED
    BY <2>2 DEF Kept, Stored
<1>3. ASSUME NEW w \in Workers, WriteOffer(w)
      PROVE  \A o \in Stored : Kept(o)
  <2> DEFINE id == task[w].id
             row == Written(task[w], offer[id])
  <2>1. /\ task[w] \in Task /\ Equipped(task[w]) /\ task[w].pc = "write" /\ id \in OfferIds
        /\ offer \in [OfferIds -> OfferRow \cup {None}] /\ offer[id] \in OfferRow
    BY <1>3 DEF WriteOffer, OfferInv, OfferTypeOK, Equipped, Informed
  <2>2. /\ row \in OfferRow
        /\ row.seller = offer[id].seller /\ row.request = offer[id].request
        /\ offer[id].status # "PENDING" => row.status # "PENDING"
    BY <2>1, WrittenRow
  <2>3. offer' = [offer EXCEPT ![id] = row] \/ offer' = offer
    BY <1>3 DEF WriteOffer
  <2> HIDE DEF row, id
  <2>4. \A o \in Stored : offer'[o] = offer[o] \/ (o = id /\ offer'[o] = row)
    BY <2>1, <2>3 DEF Stored
  <2>5. row # None
    BY <2>2, OfferConstants
  <2>6. QED
    BY <2>2, <2>4, <2>5 DEF Kept, Stored
<1>4. ASSUME NEW w \in Workers, SellerCall(w) \/ DecisionCall(w) \/ Crash(w) \/ Serve(w)
      PROVE  UNCHANGED offer \/ CommitOffer(w) \/ WriteOffer(w)
  BY <1>4 DEF SellerCall, DecisionCall, Crash, Serve, StartSubmit, StartUpdate, StartCancel,
     StartSetStatus, Start, CheckLiveOffer, FlushOffer, ReadOffer, CountOffers, ReportCount,
     LoseReport, OutwaitReport
<1>5. QED
  BY <1>1, <1>2, <1>3, <1>4 DEF OfferNext, ArriveLate, offerVars

\* An offer that was decided or cancelled never returns to the review queue, even when an
\* update that read it PENDING is written afterwards (update_offer, set_status).
THEOREM DecidedStaysDecided == OfferSpec => NeverReopened
<1>1. OfferInv /\ [OfferNext]_offerVars
      => [\A o \in Stored : offer[o].status # "PENDING" => offer'[o].status # "PENDING"]_offerVars
  BY OffersKept DEF Kept
<1>2. QED
  BY <1>1, OfferSafety, PTL DEF OfferSpec, NeverReopened
=============================================================================
