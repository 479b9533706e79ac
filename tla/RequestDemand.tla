--------------------------- MODULE RequestDemand ---------------------------
(***************************************************************************)
(* request-service (internal/requests/service.go) at the grain of its SQL  *)
(* statements.  Several HTTP handlers run transactions concurrently over   *)
(* one Postgres database at READ COMMITTED: a statement sees what was      *)
(* committed when it began plus its own transaction's writes, row locks    *)
(* and pg_advisory_xact_lock are held to the end of the transaction, and   *)
(* nothing serialises two transactions except the locks the code takes.    *)
(***************************************************************************)
EXTENDS DemandTypes

CONSTANTS
  Handlers,   \* concurrent request handlers, one transaction each
  LockKeys,   \* the values of hashtext()
  HashText    \* [ItemKeys -> LockKeys], not necessarily injective

ASSUME HashTextAssumption == HashText \in [ItemKeys -> LockKeys]
ASSUME HandlerAssumption == None \notin Handlers

VARIABLES
  request,      \* committed purchase_request rows, None where there is none
  participant,  \* committed request_participant lines
  enqueued,     \* the outbox events of the transaction committed last
  nameLock,     \* holder of each advisory lock
  rowLock,      \* holder of the row lock of each purchase_request
  pc, call,     \* what each handler is doing, and the call it serves
  aggregate,    \* the subquery d of a RecalculateDemand under way
  row           \* the request row as the transaction has written it, uncommitted

dbVars == <<request, participant, enqueued>>
txVars == <<pc, call, aggregate, row>>
vars == <<request, participant, enqueued, nameLock, rowLock, pc, call, aggregate, row>>

NamingOps == {"Create", "EnsureForItem"}
LineOps == {"Join", "UpdateQuantity", "Leave"}
RowOps == LineOps \cup {"SetOfferCount"}
\* The calls that add a participant, and so enqueue an event.
JoiningOps == {"Create", "Join"}
WritingOps == LineOps \cup {"Create"}

Call == [op     : NamingOps \cup RowOps \cup {None},
         name   : ItemNames \cup {None},
         req    : RequestIds \cup {None},
         cust   : Customers \cup {None},
         amount : Quantities \cup OfferCounts \cup {0}]

NoCall == [op |-> None, name |-> None, req |-> None, cust |-> None, amount |-> 0]

Named(op, name, c, q) == [op |-> op, name |-> name, req |-> None, cust |-> c, amount |-> q]
OnRequest(op, r, c, n) == [op |-> op, name |-> None, req |-> r, cust |-> c, amount |-> n]

\* The calls the validated handlers pass on to the service.
Calls ==
  {Named("Create", name, c, q) : name \in ItemNames, c \in Customers, q \in Quantities}
    \cup {Named("EnsureForItem", name, None, 0) : name \in ItemNames}
    \cup {OnRequest(op, r, c, q) :
            op \in {"Join", "UpdateQuantity"}, r \in RequestIds, c \in Customers, q \in Quantities}
    \cup {OnRequest("Leave", r, c, 0) : r \in RequestIds, c \in Customers}
    \cup {OnRequest("SetOfferCount", r, None, n) : r \in RequestIds, n \in OfferCounts}

NoAggregate == [totalCustomers |-> 0, totalQuantity |-> 0]

LockOf(name) == HashText[ItemKey[name]]

\* Committed requests carrying the item a spelling stands for, whatever their status.
Carrying(name) ==
  {r \in RequestIds : request[r] # None /\ ItemKey[request[r].item] = ItemKey[name]}

\* The transaction has executed its insert, update or delete.
Written(h) == pc[h] \in {"mutated", "aggregated", "ready"}

\* The lines of the handler's request as its own statements see them.
LinesSeen(h) ==
  LET k == call[h]
  IN  IF k.op \in WritingOps
      THEN [participant[k.req] EXCEPT ![k.cust] = k.amount]
      ELSE participant[k.req]

\* Mutant: the offer count applied as a delta instead of an absolute number.
RowSeenDelta(h) ==
  LET k == call[h]
  IN  CASE k.op \in NamingOps -> row[h]
        [] k.op = "SetOfferCount" -> [request[k.req] EXCEPT !.totalOffers = @ + k.amount]
        [] OTHER -> request[k.req]

\* The request row as the handler's own statements see it before the totals are written.
RowSeen(h) ==
  LET k == call[h]
  IN  CASE k.op \in NamingOps -> row[h]
        [] k.op = "SetOfferCount" -> [request[k.req] EXCEPT !.totalOffers = k.amount]
        [] OTHER -> request[k.req]

Init ==
  /\ request = [r \in RequestIds |-> None]
  /\ participant = [r \in RequestIds |-> NoLines]
  /\ enqueued = {}
  /\ nameLock = [l \in LockKeys |-> None]
  /\ rowLock = [r \in RequestIds |-> None]
  /\ pc = [h \in Handlers |-> "idle"]
  /\ call = [h \in Handlers |-> NoCall]
  /\ aggregate = [h \in Handlers |-> NoAggregate]
  /\ row = [h \in Handlers |-> None]

Goto(h, label) == pc' = [pc EXCEPT ![h] = label]

\* The end of a transaction, committed or not: every lock it holds is released.
Finish(h) ==
  /\ Goto(h, "idle")
  /\ call' = [call EXCEPT ![h] = NoCall]
  /\ aggregate' = [aggregate EXCEPT ![h] = NoAggregate]
  /\ row' = [row EXCEPT ![h] = None]
  /\ nameLock' = [l \in LockKeys |-> IF nameLock[l] = h THEN None ELSE nameLock[l]]
  /\ rowLock' = [r \in RequestIds |-> IF rowLock[r] = h THEN None ELSE rowLock[r]]

\* inTx: a handler begins a transaction for a call.
Begin(h) ==
  /\ pc[h] = "idle"
  /\ \E k \in Calls : call' = [call EXCEPT ![h] = k]
  /\ Goto(h, "begun")
  /\ UNCHANGED <<dbVars, nameLock, rowLock, aggregate, row>>

\* Mutant: a look-up that does not lock the name first.
LockItemNameNot(h) ==
  /\ pc[h] = "begun" /\ call[h].op \in NamingOps
  /\ Goto(h, "named")
  /\ UNCHANGED <<dbVars, nameLock, rowLock, call, aggregate, row>>

\* pg_advisory_xact_lock on the normalised name: waits while another transaction holds it.
LockItemName(h) ==
  /\ pc[h] = "begun" /\ call[h].op \in NamingOps
  /\ nameLock[LockOf(call[h].name)] = None
  /\ nameLock' = [nameLock EXCEPT ![LockOf(call[h].name)] = h]
  /\ Goto(h, "named")
  /\ UNCHANGED <<dbVars, rowLock, call, aggregate, row>>

\* FindRequestByItemName finds nothing: the item is new.
FindNothing(h) ==
  /\ pc[h] = "named"
  /\ Carrying(call[h].name) = {}
  /\ Goto(h, "absent")
  /\ UNCHANGED <<dbVars, nameLock, rowLock, call, aggregate, row>>

\* Mutant: the early return of a refused create keeps the name locked.
FindExistingKeepsLock(h) ==
  /\ pc[h] = "named"
  /\ Carrying(call[h].name) # {}
  /\ Goto(h, "idle")
  /\ call' = [call EXCEPT ![h] = NoCall]
  /\ UNCHANGED <<dbVars, nameLock, rowLock, aggregate, row>>

\* The item has a request: Create is refused and handed it, EnsureForItem returns it.
\* Neither writes anything.
FindExisting(h) ==
  /\ pc[h] = "named"
  /\ Carrying(call[h].name) # {}
  /\ Finish(h)
  /\ UNCHANGED dbVars

\* The INSERT of the request with its column defaults and, for Create, of its creator's
\* line.  Nobody else sees the row, or can lock it, before the commit.
CreateRequest(h) ==
  /\ pc[h] = "absent"
  /\ \E r \in RequestIds :
       /\ request[r] = None /\ rowLock[r] = None
       /\ call' = [call EXCEPT ![h].req = r]
       /\ rowLock' = [rowLock EXCEPT ![r] = h]
       /\ row' = [row EXCEPT ![h] =
            [item |-> call[h].name, createdBy |-> call[h].cust, totalCustomers |-> 0,
             totalQuantity |-> 0, totalOffers |-> 0, status |-> "OPEN"]]
  /\ Goto(h, "mutated")
  /\ UNCHANGED <<dbVars, nameLock, aggregate>>

\* Mutant: SELECT without FOR UPDATE.
LockRequestNot(h) ==
  /\ pc[h] = "begun" /\ call[h].op \in RowOps
  /\ request[call[h].req] # None
  /\ Goto(h, "locked")
  /\ UNCHANGED <<dbVars, nameLock, rowLock, call, aggregate, row>>

\* SELECT ... FOR UPDATE of the request: waits while another transaction holds the row.
LockRequest(h) ==
  /\ pc[h] = "begun" /\ call[h].op \in RowOps
  /\ request[call[h].req] # None
  /\ rowLock[call[h].req] = None
  /\ rowLock' = [rowLock EXCEPT ![call[h].req] = h]
  /\ Goto(h, "locked")
  /\ UNCHANGED <<dbVars, nameLock, call, aggregate, row>>

\* The row is not there, or not committed yet: ErrRequestNotFound.
RequestNotFound(h) ==
  /\ pc[h] = "begun" /\ call[h].op \in RowOps
  /\ request[call[h].req] = None
  /\ Finish(h)
  /\ UNCHANGED dbVars

\* An insert waits for the unique index entry, an update or a delete for the line, while
\* another transaction has written it and not ended.
LineFree(h) ==
  ~ \E g \in Handlers \ {h} :
      /\ Written(g) /\ call[g].op \in WritingOps
      /\ call[g].req = call[h].req /\ call[g].cust = call[h].cust

HasLine(h) == participant[call[h].req][call[h].cust] # 0

\* AddParticipant, UpdateParticipantQuantity or DeleteParticipant succeeds.
MutateLine(h) ==
  /\ pc[h] = "locked" /\ call[h].op \in LineOps
  /\ LineFree(h)
  /\ HasLine(h) <=> call[h].op # "Join"
  /\ Goto(h, "mutated")
  /\ UNCHANGED <<dbVars, nameLock, rowLock, call, aggregate, row>>

\* The unique constraint refuses a second join (ErrAlreadyParticipant); an update or a
\* delete matches no line (ErrNotParticipant).
RefuseLine(h) ==
  /\ pc[h] = "locked" /\ call[h].op \in LineOps
  /\ LineFree(h)
  /\ HasLine(h) <=> call[h].op = "Join"
  /\ Finish(h)
  /\ UNCHANGED dbVars

\* UPDATE purchase_request SET total_offers: takes the row lock if it is not held.
SetOfferCount(h) ==
  /\ pc[h] = "locked" /\ call[h].op = "SetOfferCount"
  /\ rowLock[call[h].req] \in {None, h}
  /\ rowLock' = [rowLock EXCEPT ![call[h].req] = h]
  /\ Goto(h, "mutated")
  /\ UNCHANGED <<dbVars, nameLock, call, aggregate, row>>

\* RecalculateDemand, first half: the subquery counts and sums the lines of its snapshot.
AggregateDemand(h) ==
  /\ pc[h] = "mutated"
  /\ aggregate' = [aggregate EXCEPT ![h] =
       [totalCustomers |-> CountOf(LinesSeen(h)), totalQuantity |-> QuantityOf(LinesSeen(h))]]
  /\ Goto(h, "aggregated")
  /\ UNCHANGED <<dbVars, nameLock, rowLock, call, row>>

\* The SET clause of RecalculateDemand: the other columns keep their values.
WithDemand(old, d) ==
  [item           |-> old.item,
   createdBy      |-> old.createdBy,
   totalCustomers |-> d.totalCustomers,
   totalQuantity  |-> d.totalQuantity,
   totalOffers    |-> old.totalOffers,
   status         |-> StatusOf(d.totalCustomers, old.totalOffers)]

\* RecalculateDemand, second half: the UPDATE waits for the row lock, then writes the
\* aggregates and the status onto the row's latest version.
RecalculateDemand(h) ==
  /\ pc[h] = "aggregated"
  /\ rowLock[call[h].req] \in {None, h}
  /\ rowLock' = [rowLock EXCEPT ![call[h].req] = h]
  /\ row' = [row EXCEPT ![h] = WithDemand(RowSeen(h), aggregate[h])]
  /\ Goto(h, "ready")
  /\ UNCHANGED <<dbVars, nameLock, call, aggregate>>

\* Mutant: the announcement built from the row read before the totals were recomputed.
EnqueueStale(h) ==
  IF call[h].op \in JoiningOps
  THEN {Joined(call[h].cust, call[h].req,
               IF call[h].op = "Join" THEN request[call[h].req] ELSE row[h])}
  ELSE {}

\* The outbox rows events.Enqueue writes in the transaction, from the recalculated row.
Enqueue(h) ==
  IF call[h].op \in JoiningOps
  THEN {Joined(call[h].cust, call[h].req, row[h])}
  ELSE {}

\* COMMIT: the row, the lines and the outbox events become visible together.
Commit(h) ==
  /\ pc[h] = "ready"
  /\ request' = [request EXCEPT ![call[h].req] = row[h]]
  /\ participant' = [participant EXCEPT ![call[h].req] = LinesSeen(h)]
  /\ enqueued' = Enqueue(h)
  /\ Finish(h)

\* A statement, the commit or the process fails, or the caller goes away: nothing is kept.
Rollback(h) ==
  /\ pc[h] # "idle"
  /\ Finish(h)
  /\ UNCHANGED dbVars

Step(h) ==
  \/ LockItemName(h) \/ FindNothing(h) \/ FindExisting(h) \/ CreateRequest(h)
  \/ LockRequest(h) \/ RequestNotFound(h) \/ MutateLine(h) \/ RefuseLine(h)
  \/ SetOfferCount(h) \/ AggregateDemand(h) \/ RecalculateDemand(h) \/ Commit(h)

Next == \E h \in Handlers : Begin(h) \/ Step(h) \/ Rollback(h)

Spec == Init /\ [][Next]_vars

\* A handler that can execute its next statement does; a lock that keeps becoming free is
\* eventually granted, because Postgres queues the waiters of a lock.
Fairness ==
  \A h \in Handlers :
    WF_vars(Step(h)) /\ SF_vars(LockItemName(h)) /\ SF_vars(LockRequest(h))

FairSpec == Spec /\ Fairness

-----------------------------------------------------------------------------
(* Properties *)

\* Type correctness of the database, the locks and the transactions.
TypeOK ==
  /\ request \in [RequestIds -> Row \cup {None}]
  /\ participant \in [RequestIds -> Lines]
  /\ enqueued \subseteq Event
  /\ nameLock \in [LockKeys -> Handlers \cup {None}]
  /\ rowLock \in [RequestIds -> Handlers \cup {None}]
  /\ pc \in [Handlers -> {"idle", "begun", "named", "absent", "locked",
                           "mutated", "aggregated", "ready"}]
  /\ call \in [Handlers -> Call]
  /\ aggregate \in [Handlers -> [totalCustomers : Counts \cup {0},
                                  totalQuantity : Totals \cup {0}]]
  /\ row \in [Handlers -> Row \cup {None}]

\* Whatever creates and offers race, two committed requests never carry the same item: the
\* demand a seller bids against is never split (Create, EnsureForItem, LockItemName).
OneRequestPerItem ==
  \A r, s \in RequestIds :
    /\ request[r] # None /\ request[s] # None
    /\ ItemKey[request[r].item] = ItemKey[request[s].item]
    => r = s

\* R4: the committed totals are those of the committed participants, and a request is
\* INACTIVE exactly when nobody is on it and no offer stands on it, however joins, leaves
\* and offer counts interleave (LockRequest, RecalculateDemand).
DemandMatchesParticipants ==
  \A r \in RequestIds :
    IF request[r] = None
    THEN participant[r] = NoLines
    ELSE /\ request[r].totalCustomers = CountOf(participant[r])
         /\ request[r].totalQuantity = QuantityOf(participant[r])
         /\ request[r].status = "INACTIVE"
              <=> participant[r] = NoLines /\ request[r].totalOffers = 0

\* A customer who appears on a request is told, in the same commit, the demand the request
\* then shows; no other commit tells anybody they joined (Join, events.Enqueue).
JoinersAreToldTheDemand ==
  [][\A r \in RequestIds, c \in Customers :
       LET added == participant[r][c] = 0 /\ participant'[r][c] # 0
       IN  /\ added => Joined(c, r, request'[r]) \in enqueued'
           /\ enqueued' # enqueued /\ ~added =>
                ~ \E e \in enqueued' : e.customer = c /\ e.request = r]_vars

\* No transaction waits for ever: the locks are taken in an order that cannot deadlock and
\* every path through a handler releases them (inTx).
TransactionsEnd == \A h \in Handlers : pc[h] # "idle" ~> pc[h] = "idle"

\* The concurrent transactions implement operations that happen one at a time.
Atomic == INSTANCE AbstractDemand
            WITH board <- request, wanted <- participant, announced <- enqueued

\* Every behaviour of the service is one of the atomic demand board.
RefinesAtomicDemand == Atomic!DemandSpec

-----------------------------------------------------------------------------
(* The inductive invariant behind OneRequestPerItem, DemandMatchesParticipants *)
(* and the refinement.                                                         *)

\* The arguments of a call are the ones its operation takes.
WellFormed(k) ==
  /\ k.op \in NamingOps \cup RowOps
  /\ k.op \in NamingOps => k.name \in ItemNames
  /\ k.op \in RowOps => k.req \in RequestIds
  /\ k.op \in WritingOps => k.cust \in Customers
  /\ k.op = "EnsureForItem" => k.cust = None
  /\ k.op \in {"Create", "Join", "UpdateQuantity"} => k.amount \in Quantities
  /\ k.op = "Leave" => k.amount = 0
  /\ k.op = "SetOfferCount" => k.amount \in OfferCounts

Naming(h) == pc[h] \in {"named", "absent"} \/ (Written(h) /\ call[h].op \in NamingOps)

CallOK(h) ==
  /\ pc[h] # "idle" => WellFormed(call[h])
  /\ pc[h] \in {"named", "absent"} => call[h].op \in NamingOps
  /\ pc[h] = "locked" => call[h].op \in RowOps
  /\ Written(h) => call[h].req \in RequestIds

\* A transaction past its first statement holds the lock its correctness depends on.
HoldsLocks(h) ==
  /\ Naming(h) => nameLock[LockOf(call[h].name)] = h
  /\ pc[h] = "locked" \/ Written(h) => rowLock[call[h].req] = h

\* What a transaction has read is still so: the name is free, the row is as it was.
SnapshotOK(h) ==
  /\ pc[h] = "absent" \/ (Written(h) /\ call[h].op \in NamingOps)
       => Carrying(call[h].name) = {}
  /\ pc[h] = "locked" \/ (Written(h) /\ call[h].op \in RowOps)
       => request[call[h].req] # None
  /\ Written(h) /\ call[h].op \in LineOps => (HasLine(h) <=> call[h].op # "Join")
  /\ Written(h) /\ call[h].op \in NamingOps =>
       /\ request[call[h].req] = None
       /\ row[h] # None
       /\ row[h].item = call[h].name
       /\ row[h].createdBy = call[h].cust
       /\ row[h].totalOffers = 0

\* The aggregates and the row a transaction is about to commit are not stale.
FiguresOK(h) ==
  /\ pc[h] = "aggregated" =>
       /\ aggregate[h].totalCustomers = CountOf(LinesSeen(h))
       /\ aggregate[h].totalQuantity = QuantityOf(LinesSeen(h))
  /\ pc[h] = "ready" =>
       row[h] = Atomic!Derived(RowSeen(h).item, RowSeen(h).createdBy,
                               RowSeen(h).totalOffers, LinesSeen(h))

TransactionOK(h) == CallOK(h) /\ HoldsLocks(h) /\ SnapshotOK(h) /\ FiguresOK(h)

IndInv ==
  /\ TypeOK
  /\ \A h \in Handlers : TransactionOK(h)
  /\ OneRequestPerItem
  /\ DemandMatchesParticipants
=============================================================================
