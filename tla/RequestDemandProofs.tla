------------------------ MODULE RequestDemandProofs ------------------------
(***************************************************************************)
(* Theorems about RequestDemand for every set of handlers, customers,      *)
(* items and requests: type correctness, one request per item, totals and  *)
(* status that match the participants, what a commit announces, and the    *)
(* refinement of the atomic demand board.                                  *)
(***************************************************************************)
EXTENDS RequestDemand, FiniteSetTheorems, TLAPS

-----------------------------------------------------------------------------
(* Facts about the derived figures. *)

\* COUNT(*) is zero exactly when there is no line.
LEMMA CountZero ==
  ASSUME NEW lines \in Lines
  PROVE  CountOf(lines) = 0 <=> lines = NoLines
<1> DEFINE S == {c \in Customers : lines[c] # 0}
<1>1. IsFiniteSet(S)
  BY CustomersAssumption, FS_Subset
<1>2. Cardinality(S) = 0 <=> S = {}
  BY <1>1, FS_EmptySet
<1>3. S = {} <=> lines = NoLines
  BY DEF Lines, NoLines
<1>4. QED
  BY <1>2, <1>3 DEF CountOf

LEMMA FigureTypes ==
  ASSUME NEW lines \in Lines
  PROVE  CountOf(lines) \in Counts /\ QuantityOf(lines) \in Totals
BY DEF Counts, Totals

LEMMA StatusType ==
  ASSUME NEW n, NEW m
  PROVE  StatusOf(n, m) \in {"OPEN", "INACTIVE"}
BY DEF StatusOf

LEMMA WithDemandType ==
  ASSUME NEW old \in Row,
         NEW d \in [totalCustomers : Counts \cup {0}, totalQuantity : Totals \cup {0}]
  PROVE  WithDemand(old, d) \in Row
BY StatusType DEF WithDemand, Row

\* The row the atomic board derives, in this module's terms.
LEMMA DerivedRow ==
  ASSUME NEW item, NEW owner, NEW offers, NEW lines
  PROVE  Atomic!Derived(item, owner, offers, lines) =
           [item |-> item, createdBy |-> owner, totalCustomers |-> CountOf(lines),
            totalQuantity |-> QuantityOf(lines), totalOffers |-> offers,
            status |-> StatusOf(CountOf(lines), offers)]
<1>1. Atomic!CountOf(lines) = CountOf(lines)
  BY Zenon DEF CountOf, Atomic!CountOf, Cardinality, Atomic!Cardinality
<1>2. Atomic!QuantityOf(lines) = QuantityOf(lines)
  BY Zenon DEF QuantityOf, Atomic!QuantityOf, SumFunction, Atomic!SumFunction,
               SumFunctionOnSet, Atomic!SumFunctionOnSet, FoldFunctionOnSet,
               Atomic!FoldFunctionOnSet, MapThenFoldSet, Atomic!MapThenFoldSet
<1>3. Atomic!StatusOf(CountOf(lines), offers) = StatusOf(CountOf(lines), offers)
  BY DEF StatusOf, Atomic!StatusOf
<1>4. QED
  BY <1>1, <1>2, <1>3 DEF Atomic!Derived

LEMMA NoLinesType == NoLines \in Lines
BY DEF NoLines, Lines

\* The calls the handlers pass on have the arguments their operation takes.
LEMMA CallsWellFormed ==
  ASSUME NEW k \in Calls
  PROVE  k \in Call /\ WellFormed(k)
BY NoneAssumption
   DEF Calls, Call, WellFormed, Named, OnRequest, NamingOps, RowOps, LineOps, WritingOps

LEMMA NoCallType == NoCall \in Call
BY DEF NoCall, Call

-----------------------------------------------------------------------------
(* Facts about what a transaction sees. *)

LEMMA LinesSeenType ==
  ASSUME TypeOK, NEW h \in Handlers, CallOK(h), Written(h)
  PROVE  LinesSeen(h) \in Lines
<1>1. /\ WellFormed(call[h])
      /\ call[h].req \in RequestIds
      /\ participant[call[h].req] \in Lines
  BY DEF CallOK, TypeOK, Written
<1>2. call[h].op \in WritingOps =>
        call[h].cust \in Customers /\ call[h].amount \in Quantities \cup {0}
  BY <1>1 DEF WellFormed, WritingOps, LineOps
<1>3. QED
  BY <1>1, <1>2 DEF LinesSeen, Lines

LEMMA RowSeenType ==
  ASSUME TypeOK, NEW h \in Handlers, CallOK(h), SnapshotOK(h), Written(h)
  PROVE  RowSeen(h) \in Row
<1>1. /\ WellFormed(call[h])
      /\ call[h].req \in RequestIds
      /\ request[call[h].req] \in Row \cup {None}
      /\ row[h] \in Row \cup {None}
  BY DEF CallOK, TypeOK, Written
<1>2. CASE call[h].op \in NamingOps
  BY <1>1, <1>2 DEF RowSeen, SnapshotOK, NamingOps
<1>3. CASE call[h].op \in RowOps
  <2>1. request[call[h].req] \in Row
    BY <1>1, <1>3 DEF SnapshotOK
  <2>2. call[h].op = "SetOfferCount" => call[h].amount \in OfferCounts
    BY <1>1 DEF WellFormed
  <2>3. QED
    BY <1>3, <2>1, <2>2 DEF RowSeen, Row, RowOps, LineOps, NamingOps
<1>4. QED
  BY <1>1, <1>2, <1>3 DEF WellFormed
-----------------------------------------------------------------------------
(* Preservation of the inductive invariant. *)

\* A step of h that leaves the database and the other handlers alone, and takes no lock
\* away from them, preserves what the invariant says of them.
LEMMA QuietStep ==
  ASSUME IndInv, TypeOK', NEW h \in Handlers, UNCHANGED dbVars, TransactionOK(h)',
         \A g \in Handlers \ {h} : /\ pc'[g] = pc[g] /\ call'[g] = call[g]
                                   /\ row'[g] = row[g] /\ aggregate'[g] = aggregate[g],
         \A l \in LockKeys : nameLock'[l] = nameLock[l] \/ nameLock[l] \in {h, None},
         \A r \in RequestIds : rowLock'[r] = rowLock[r] \/ rowLock[r] \in {h, None}
  PROVE  IndInv'
<1> USE DEF IndInv, dbVars
<1>1. ASSUME NEW g \in Handlers, g # h
      PROVE  TransactionOK(g)'
  <2>1. TransactionOK(g)
    OBVIOUS
  <2>2. CallOK(g)'
    BY <1>1, <2>1 DEF TransactionOK, CallOK, Written
  <2>3. HoldsLocks(g)'
    <3>1. Naming(g)' => Naming(g) /\ LockOf(call[g].name) \in LockKeys
      BY <1>1, <2>1, ItemKeyAssumption, HashTextAssumption
         DEF Naming, Written, LockOf, TransactionOK, CallOK, WellFormed
    <3>2. (pc'[g] = "locked" \/ Written(g)') =>
            (pc[g] = "locked" \/ Written(g)) /\ call[g].req \in RequestIds
      BY <1>1, <2>1 DEF Written, TransactionOK, CallOK, WellFormed
    <3>3. QED
      BY <1>1, <2>1, <3>1, <3>2, HandlerAssumption DEF TransactionOK, HoldsLocks
  <2>4. SnapshotOK(g)'
    BY <1>1, <2>1 DEF TransactionOK, SnapshotOK, Written, Carrying, HasLine
  <2>5. FiguresOK(g)'
    BY <1>1, <2>1 DEF TransactionOK, FiguresOK, LinesSeen, RowSeen
  <2>6. QED
    BY <2>2, <2>3, <2>4, <2>5 DEF TransactionOK
<1>2. OneRequestPerItem' /\ DemandMatchesParticipants'
  BY DEF OneRequestPerItem, DemandMatchesParticipants
<1>3. QED
  BY <1>1, <1>2

\* Ending a transaction without a commit.
LEMMA EndPreserves ==
  ASSUME IndInv, NEW h \in Handlers, Finish(h), UNCHANGED dbVars
  PROVE  IndInv'
<1> USE DEF Finish, Goto
<1>1. TypeOK'
  BY NoCallType DEF IndInv, TypeOK, NoAggregate, dbVars
<1>2. TransactionOK(h)'
  <2>1. pc'[h] = "idle"
    BY DEF IndInv, TypeOK
  <2>2. QED
    BY <2>1 DEF TransactionOK, CallOK, HoldsLocks, SnapshotOK, FiguresOK, Written, Naming
<1>3. QED
  BY <1>1, <1>2, QuietStep DEF IndInv, TypeOK

LEMMA BeginPreserves ==
  ASSUME IndInv, NEW h \in Handlers, Begin(h)
  PROVE  IndInv'
<1> USE DEF Begin, Goto, dbVars
<1>1. PICK k \in Calls : call' = [call EXCEPT ![h] = k]
  OBVIOUS
<1>2. k \in Call /\ WellFormed(k)
  BY CallsWellFormed
<1>3. TypeOK'
  BY <1>1, <1>2 DEF IndInv, TypeOK
<1>4. pc'[h] = "begun" /\ call'[h] = k
  BY <1>1 DEF IndInv, TypeOK
<1>5. TransactionOK(h)'
  BY <1>2, <1>4 DEF TransactionOK, CallOK, HoldsLocks, SnapshotOK, FiguresOK, Written, Naming
<1>6. QED
  BY <1>1, <1>3, <1>5, QuietStep DEF IndInv, TypeOK

LEMMA LockItemNamePreserves ==
  ASSUME IndInv, NEW h \in Handlers, LockItemName(h)
  PROVE  IndInv'
<1> USE DEF LockItemName, Goto, dbVars
<1>1. TypeOK'
  BY DEF IndInv, TypeOK
<1>2. WellFormed(call[h]) /\ LockOf(call[h].name) \in LockKeys
  BY ItemKeyAssumption, HashTextAssumption
     DEF IndInv, TransactionOK, CallOK, WellFormed, LockOf
<1>3. pc'[h] = "named" /\ nameLock'[LockOf(call[h].name)] = h
  BY <1>2 DEF IndInv, TypeOK
<1>4. TransactionOK(h)'
  BY <1>2, <1>3
     DEF TransactionOK, CallOK, HoldsLocks, SnapshotOK, FiguresOK, Written, Naming
<1>5. QED
  BY <1>1, <1>4, QuietStep DEF IndInv, TypeOK

LEMMA FindNothingPreserves ==
  ASSUME IndInv, NEW h \in Handlers, FindNothing(h)
  PROVE  IndInv'
<1> USE DEF FindNothing, Goto, dbVars
<1>1. TypeOK'
  BY DEF IndInv, TypeOK
<1>2. pc'[h] = "absent"
  BY DEF IndInv, TypeOK
<1>3. TransactionOK(h)
  BY DEF IndInv
<1>4. TransactionOK(h)'
  BY <1>2, <1>3
     DEF TransactionOK, CallOK, HoldsLocks, SnapshotOK, FiguresOK, Written, Naming, Carrying
<1>5. QED
  BY <1>1, <1>4, QuietStep DEF IndInv, TypeOK

LEMMA CreateRequestPreserves ==
  ASSUME IndInv, NEW h \in Handlers, CreateRequest(h)
  PROVE  IndInv'
<1> USE DEF CreateRequest, Goto, dbVars
<1> DEFINE fresh == [item |-> call[h].name, createdBy |-> call[h].cust, totalCustomers |-> 0,
                     totalQuantity |-> 0, totalOffers |-> 0, status |-> "OPEN"]
<1>1. PICK r \in RequestIds :
        /\ request[r] = None /\ rowLock[r] = None
        /\ call' = [call EXCEPT ![h].req = r]
        /\ rowLock' = [rowLock EXCEPT ![r] = h]
        /\ row' = [row EXCEPT ![h] = fresh]
  OBVIOUS
<1>2. TransactionOK(h) /\ call[h].op \in NamingOps /\ WellFormed(call[h])
  BY DEF IndInv, TransactionOK, CallOK
<1>3. fresh \in Row
  BY <1>2, OfferCountAssumption DEF Row, WellFormed, NamingOps, WritingOps
<1>4. TypeOK'
  <2>1. row' \in [Handlers -> Row \cup {None}]
    BY <1>1, <1>3 DEF IndInv, TypeOK
  <2>2. call' \in [Handlers -> Call]
    <3>1. call[h] \in Call
      BY DEF IndInv, TypeOK
    <3>2. [call[h] EXCEPT !.req = r] \in Call
      BY <3>1 DEF Call
    <3>3. QED
      BY <1>1, <3>2 DEF IndInv, TypeOK
  <2>3. rowLock' \in [RequestIds -> Handlers \cup {None}]
    BY <1>1 DEF IndInv, TypeOK
  <2>4. QED
    BY <2>1, <2>2, <2>3 DEF IndInv, TypeOK
<1>5. call[h] \in Call
  BY DEF IndInv, TypeOK
<1>6. /\ pc'[h] = "mutated" /\ row'[h] = fresh /\ rowLock'[r] = h
      /\ call'[h] = [call[h] EXCEPT !.req = r]
  BY <1>1 DEF IndInv, TypeOK
<1>7. /\ call'[h].req = r /\ call'[h].op = call[h].op /\ call'[h].name = call[h].name
      /\ call'[h].cust = call[h].cust /\ call'[h].amount = call[h].amount
  BY <1>5, <1>6 DEF Call
<1>8. CallOK(h)'
  BY <1>2, <1>6, <1>7 DEF CallOK, WellFormed, NamingOps, RowOps, LineOps, Written
<1>9. HoldsLocks(h)'
  BY <1>2, <1>6, <1>7 DEF TransactionOK, HoldsLocks, Naming, Written
<1>10. SnapshotOK(h)'
  BY <1>1, <1>2, <1>3, <1>6, <1>7, NoneAssumption
     DEF TransactionOK, SnapshotOK, Carrying, Written, NamingOps, RowOps, LineOps
<1>11. FiguresOK(h)'
  BY <1>6 DEF FiguresOK
<1>12. QED
  BY <1>1, <1>4, <1>8, <1>9, <1>10, <1>11, QuietStep DEF IndInv, TypeOK, TransactionOK

LEMMA LockRequestPreserves ==
  ASSUME IndInv, NEW h \in Handlers, LockRequest(h)
  PROVE  IndInv'
<1> USE DEF LockRequest, Goto, dbVars
<1>1. TypeOK'
  BY DEF IndInv, TypeOK
<1>2. WellFormed(call[h]) /\ call[h].req \in RequestIds
  BY DEF IndInv, TransactionOK, CallOK, WellFormed
<1>3. pc'[h] = "locked" /\ rowLock'[call[h].req] = h
  BY <1>2 DEF IndInv, TypeOK
<1>4. TransactionOK(h)'
  BY <1>2, <1>3
     DEF TransactionOK, CallOK, HoldsLocks, SnapshotOK, FiguresOK, Written, Naming
<1>5. QED
  BY <1>1, <1>4, QuietStep DEF IndInv, TypeOK

LEMMA MutateLinePreserves ==
  ASSUME IndInv, NEW h \in Handlers, MutateLine(h)
  PROVE  IndInv'
<1> USE DEF MutateLine, Goto, dbVars
<1>1. TypeOK'
  BY DEF IndInv, TypeOK
<1>2. TransactionOK(h) /\ pc'[h] = "mutated"
  BY DEF IndInv, TypeOK
<1>3. TransactionOK(h)'
  BY <1>2 DEF TransactionOK, CallOK, WellFormed, HoldsLocks, SnapshotOK, FiguresOK, Written,
              Naming, HasLine, LineOps, RowOps, NamingOps
<1>4. QED
  BY <1>1, <1>3, QuietStep DEF IndInv, TypeOK

LEMMA SetOfferCountPreserves ==
  ASSUME IndInv, NEW h \in Handlers, SetOfferCount(h)
  PROVE  IndInv'
<1> USE DEF SetOfferCount, Goto, dbVars
<1>1. TypeOK'
  BY DEF IndInv, TypeOK
<1>2. TransactionOK(h) /\ pc'[h] = "mutated"
  BY DEF IndInv, TypeOK
<1>3. call[h].req \in RequestIds /\ rowLock'[call[h].req] = h
  BY <1>2 DEF IndInv, TypeOK, TransactionOK, CallOK, WellFormed
<1>4. TransactionOK(h)'
  BY <1>2, <1>3 DEF TransactionOK, CallOK, HoldsLocks, SnapshotOK, FiguresOK, Written,
                    Naming, LineOps, RowOps, NamingOps
<1>5. QED
  BY <1>1, <1>4, QuietStep DEF IndInv, TypeOK

LEMMA AggregatePreserves ==
  ASSUME IndInv, NEW h \in Handlers, AggregateDemand(h)
  PROVE  IndInv'
<1> USE DEF AggregateDemand, Goto, dbVars
<1>1. TransactionOK(h) /\ TypeOK /\ Written(h)
  BY DEF IndInv, Written
<1>2. LinesSeen(h) \in Lines
  BY <1>1, LinesSeenType DEF TransactionOK
<1>3. CountOf(LinesSeen(h)) \in Counts /\ QuantityOf(LinesSeen(h)) \in Totals
  BY <1>2, FigureTypes
<1>4. TypeOK'
  BY <1>3 DEF IndInv, TypeOK
<1>5. /\ pc'[h] = "aggregated"
      /\ aggregate'[h] = [totalCustomers |-> CountOf(LinesSeen(h)),
                          totalQuantity |-> QuantityOf(LinesSeen(h))]
      /\ LinesSeen(h)' = LinesSeen(h)
  BY DEF IndInv, TypeOK, LinesSeen
<1>6. CallOK(h)' /\ HoldsLocks(h)'
  BY <1>1, <1>5 DEF TransactionOK, CallOK, HoldsLocks, Written, Naming
<1>7. SnapshotOK(h)'
  BY <1>1, <1>5 DEF TransactionOK, SnapshotOK, Written, Carrying, HasLine
<1>8. FiguresOK(h)'
  BY <1>5 DEF FiguresOK
<1>9. QED
  BY <1>4, <1>6, <1>7, <1>8, QuietStep DEF IndInv, TypeOK, TransactionOK

LEMMA RecalculatePreserves ==
  ASSUME IndInv, NEW h \in Handlers, RecalculateDemand(h)
  PROVE  IndInv'
<1> USE DEF RecalculateDemand, Goto, dbVars
<1> DEFINE new == WithDemand(RowSeen(h), aggregate[h])
<1>1. TransactionOK(h) /\ TypeOK /\ Written(h) /\ call[h].req \in RequestIds
  BY DEF IndInv, Written, TransactionOK, CallOK
<1>2. new \in Row
  BY <1>1, RowSeenType, WithDemandType DEF TransactionOK, TypeOK
<1>3. TypeOK'
  <2>1. row' \in [Handlers -> Row \cup {None}]
    BY <1>1, <1>2 DEF TypeOK
  <2>2. rowLock' \in [RequestIds -> Handlers \cup {None}]
    BY <1>1 DEF TypeOK
  <2>3. QED
    BY <1>1, <2>1, <2>2 DEF TypeOK
<1>4. /\ pc'[h] = "ready" /\ row'[h] = new /\ rowLock'[call[h].req] = h
      /\ LinesSeen(h)' = LinesSeen(h)
  BY <1>1 DEF TypeOK, LinesSeen
<1>5. /\ new.item = RowSeen(h).item
      /\ new.createdBy = RowSeen(h).createdBy
      /\ new.totalOffers = RowSeen(h).totalOffers
  BY DEF WithDemand
<1>6. /\ RowSeen(h)'.item = RowSeen(h).item
      /\ RowSeen(h)'.createdBy = RowSeen(h).createdBy
      /\ RowSeen(h)'.totalOffers = RowSeen(h).totalOffers
  <2>1. CASE call[h].op \in NamingOps
    <3>1. RowSeen(h)' = new
      BY <1>4, <2>1 DEF RowSeen, NamingOps
    <3>2. QED
      BY <1>5, <3>1
  <2>2. CASE call[h].op \notin NamingOps
    BY <2>2 DEF RowSeen
  <2>3. QED
    BY <2>1, <2>2
<1>7. CallOK(h)' /\ HoldsLocks(h)'
  BY <1>1, <1>4 DEF TransactionOK, CallOK, HoldsLocks, Written, Naming
<1>8. SnapshotOK(h)'
  <2>1. call[h].op \in NamingOps => RowSeen(h) = row[h]
    BY DEF RowSeen, NamingOps
  <2>2. new # None
    BY <1>2, NoneAssumption
  <2>3. QED
    BY <1>1, <1>4, <1>5, <2>1, <2>2 DEF TransactionOK, SnapshotOK, Written, Carrying, HasLine
<1>9. FiguresOK(h)'
  <2>1. /\ aggregate[h].totalCustomers = CountOf(LinesSeen(h))
        /\ aggregate[h].totalQuantity = QuantityOf(LinesSeen(h))
    BY <1>1 DEF TransactionOK, FiguresOK
  <2>2. Atomic!Derived(RowSeen(h)'.item, RowSeen(h)'.createdBy,
                       RowSeen(h)'.totalOffers, LinesSeen(h)') = new
    BY <1>4, <1>6, <2>1, DerivedRow DEF WithDemand
  <2>3. QED
    BY <1>4, <2>2 DEF FiguresOK
<1>10. QED
  BY <1>1, <1>3, <1>7, <1>8, <1>9, QuietStep DEF IndInv, TypeOK, TransactionOK

\* What a transaction that is ready to commit is about to publish.
LEMMA ReadyToCommit ==
  ASSUME IndInv, NEW h \in Handlers, pc[h] = "ready"
  PROVE  /\ WellFormed(call[h]) /\ call[h].req \in RequestIds
         /\ rowLock[call[h].req] = h
         /\ LinesSeen(h) \in Lines
         /\ row[h] \in Row
         /\ row[h].totalCustomers = CountOf(LinesSeen(h))
         /\ row[h].totalQuantity = QuantityOf(LinesSeen(h))
         /\ row[h].status = StatusOf(CountOf(LinesSeen(h)), row[h].totalOffers)
         /\ row[h].item = RowSeen(h).item
         /\ row[h].createdBy = RowSeen(h).createdBy
         /\ row[h].totalOffers = RowSeen(h).totalOffers
<1>1. TransactionOK(h) /\ TypeOK /\ Written(h)
  BY DEF IndInv, Written
<1>2. WellFormed(call[h]) /\ call[h].req \in RequestIds /\ rowLock[call[h].req] = h
  BY <1>1 DEF TransactionOK, CallOK, HoldsLocks
<1>3. LinesSeen(h) \in Lines
  BY <1>1, LinesSeenType DEF TransactionOK
<1>4. row[h] = [item |-> RowSeen(h).item, createdBy |-> RowSeen(h).createdBy,
                totalCustomers |-> CountOf(LinesSeen(h)),
                totalQuantity |-> QuantityOf(LinesSeen(h)),
                totalOffers |-> RowSeen(h).totalOffers,
                status |-> StatusOf(CountOf(LinesSeen(h)), RowSeen(h).totalOffers)]
  BY <1>1, DerivedRow DEF TransactionOK, FiguresOK
<1>5. row[h] \in Row
  <2>1. RowSeen(h) \in Row
    BY <1>1, RowSeenType DEF TransactionOK
  <2>2. QED
    BY <1>3, <1>4, <2>1, FigureTypes, StatusType DEF Row
<1>6. QED
  BY <1>2, <1>3, <1>4, <1>5

LEMMA CommitPreserves ==
  ASSUME IndInv, NEW h \in Handlers, Commit(h)
  PROVE  IndInv'
<1> DEFINE r == call[h].req
<1>1. /\ TransactionOK(h) /\ TypeOK /\ Written(h) /\ pc[h] = "ready"
      /\ \A g \in Handlers : TransactionOK(g)
  BY DEF IndInv, Commit, Written
<1>2. /\ request' = [request EXCEPT ![r] = row[h]]
      /\ participant' = [participant EXCEPT ![r] = LinesSeen(h)]
      /\ enqueued' = Enqueue(h)
  BY DEF Commit
<1>3. /\ WellFormed(call[h]) /\ r \in RequestIds /\ rowLock[r] = h
      /\ LinesSeen(h) \in Lines /\ row[h] \in Row
      /\ row[h].totalCustomers = CountOf(LinesSeen(h))
      /\ row[h].totalQuantity = QuantityOf(LinesSeen(h))
      /\ row[h].status = StatusOf(CountOf(LinesSeen(h)), row[h].totalOffers)
      /\ row[h].item = RowSeen(h).item
  BY <1>1, ReadyToCommit
<1>4. Enqueue(h) \subseteq Event
  <2>1. call[h].op \in JoiningOps => call[h].cust \in Customers
    BY <1>3 DEF WellFormed, JoiningOps, WritingOps, LineOps
  <2>2. /\ row[h].totalCustomers \in Counts \cup {0}
        /\ row[h].totalQuantity \in Totals \cup {0}
    BY <1>3 DEF Row
  <2>3. QED
    BY <1>3, <2>1, <2>2 DEF Enqueue, Joined, Event
<1>5. TypeOK'
  <2>1. request' \in [RequestIds -> Row \cup {None}] /\ participant' \in [RequestIds -> Lines]
    BY <1>1, <1>2, <1>3 DEF TypeOK
  <2>2. QED
    BY <1>1, <1>2, <1>4, <2>1, NoCallType DEF TypeOK, Commit, Finish, Goto, NoAggregate
<1>6. /\ \A g \in Handlers \ {h} : /\ pc'[g] = pc[g] /\ call'[g] = call[g]
                                   /\ row'[g] = row[g] /\ aggregate'[g] = aggregate[g]
      /\ pc'[h] = "idle"
      /\ \A l \in LockKeys : nameLock'[l] = nameLock[l] \/ nameLock[l] = h
      /\ \A s \in RequestIds : rowLock'[s] = rowLock[s] \/ rowLock[s] = h
  BY <1>1 DEF TypeOK, Commit, Finish, Goto
<1>7. request'[r] = row[h] /\ participant'[r] = LinesSeen(h) /\ row[h] # None
  BY <1>1, <1>2, <1>3, NoneAssumption DEF TypeOK
<1>8. \A s \in RequestIds \ {r} : request'[s] = request[s] /\ participant'[s] = participant[s]
  BY <1>1, <1>2 DEF TypeOK
<1>9. /\ OneRequestPerItem'
      /\ \A g \in Handlers \ {h} :
           Naming(g) /\ Carrying(call[g].name) = {} => Carrying(call[g].name)' = {}
  <2>1. \A g \in Handlers \ {h} : Naming(g) => call'[g].name = call[g].name
    BY <1>6
  <2>2. CASE call[h].op \in NamingOps
    <3>1. /\ row[h].item = call[h].name /\ Carrying(call[h].name) = {}
          /\ nameLock[LockOf(call[h].name)] = h
      BY <1>1, <2>2 DEF TransactionOK, SnapshotOK, HoldsLocks, Naming
    <3>2. \A g \in Handlers \ {h} : Naming(g) => ItemKey[call[g].name] # ItemKey[call[h].name]
      BY <1>1, <3>1 DEF TransactionOK, HoldsLocks, LockOf
    <3>3. OneRequestPerItem'
      BY <1>7, <1>8, <3>1 DEF IndInv, OneRequestPerItem, Carrying
    <3>4. QED
      BY <1>7, <1>8, <2>1, <3>1, <3>2, <3>3 DEF Carrying
  <2>3. CASE call[h].op \in RowOps
    <3>1. request[r] # None /\ row[h].item = request[r].item
      <4>1. request[r] # None /\ request[r] \in Row
        BY <1>1, <1>3, <2>3 DEF TransactionOK, SnapshotOK, TypeOK
      <4>2. QED
        BY <1>3, <2>3, <4>1 DEF RowSeen, Row, NamingOps, RowOps, LineOps
    <3>2. OneRequestPerItem'
      BY <1>7, <1>8, <3>1 DEF IndInv, OneRequestPerItem
    <3>3. QED
      BY <1>7, <1>8, <2>1, <3>1, <3>2 DEF Carrying
  <2>4. QED
    BY <1>3, <2>2, <2>3 DEF WellFormed
<1>10. ASSUME NEW g \in Handlers, g # h
       PROVE  TransactionOK(g)'
  <2>1. TransactionOK(g) /\ pc'[g] = pc[g] /\ call'[g] = call[g] /\ row'[g] = row[g]
        /\ aggregate'[g] = aggregate[g]
    BY <1>1, <1>6, <1>10
  <2>2. CallOK(g)'
    BY <2>1 DEF TransactionOK, CallOK, Written
  <2>3. Naming(g) => LockOf(call[g].name) \in LockKeys
    BY <2>1, ItemKeyAssumption, HashTextAssumption
       DEF Naming, Written, LockOf, TransactionOK, CallOK, WellFormed
  <2>4. pc[g] = "locked" \/ Written(g) => call[g].req \in RequestIds \ {r}
    BY <1>3, <1>10, <2>1 DEF Written, TransactionOK, CallOK, WellFormed, HoldsLocks
  <2>5. HoldsLocks(g)'
    BY <1>6, <1>10, <2>1, <2>3, <2>4 DEF TransactionOK, HoldsLocks, Naming, Written
  <2>6. SnapshotOK(g)'
    <3>1. (pc[g] = "absent" \/ (Written(g) /\ call[g].op \in NamingOps)) =>
             Carrying(call[g].name)' = {}
      BY <1>9, <1>10, <2>1 DEF TransactionOK, SnapshotOK, Naming
    <3>2. QED
      BY <1>8, <2>1, <2>4, <3>1 DEF TransactionOK, SnapshotOK, Written, HasLine
  <2>7. FiguresOK(g)'
    BY <1>8, <2>1, <2>4 DEF TransactionOK, FiguresOK, LinesSeen, RowSeen, Written
  <2>8. QED
    BY <2>2, <2>5, <2>6, <2>7 DEF TransactionOK
<1>11. TransactionOK(h)'
  BY <1>6 DEF TransactionOK, CallOK, HoldsLocks, SnapshotOK, FiguresOK, Written, Naming
<1>12. DemandMatchesParticipants'
  <2> SUFFICES ASSUME NEW s \in RequestIds
               PROVE  IF request'[s] = None
                      THEN participant'[s] = NoLines
                      ELSE /\ request'[s].totalCustomers = CountOf(participant'[s])
                           /\ request'[s].totalQuantity = QuantityOf(participant'[s])
                           /\ request'[s].status = "INACTIVE"
                                <=> participant'[s] = NoLines /\ request'[s].totalOffers = 0
    BY DEF DemandMatchesParticipants
  <2>1. CASE s # r
    BY <1>8, <2>1 DEF IndInv, DemandMatchesParticipants
  <2>2. CASE s = r
    <3>1. StatusOf(CountOf(LinesSeen(h)), row[h].totalOffers) = "INACTIVE"
            <=> LinesSeen(h) = NoLines /\ row[h].totalOffers = 0
      BY <1>3, CountZero DEF StatusOf
    <3>2. QED
      BY <1>3, <1>7, <2>2, <3>1
  <2>3. QED
    BY <2>1, <2>2
<1>13. QED
  BY <1>5, <1>9, <1>10, <1>11, <1>12 DEF IndInv

-----------------------------------------------------------------------------
(* The theorems. *)

LEMMA InitIndInv == Init => IndInv
<1> SUFFICES ASSUME Init PROVE IndInv
  OBVIOUS
<1> USE DEF Init
<1>1. TypeOK
  BY NoCallType, NoLinesType DEF TypeOK, NoAggregate
<1>2. \A h \in Handlers : TransactionOK(h)
  BY DEF TransactionOK, CallOK, HoldsLocks, SnapshotOK, FiguresOK, Written, Naming
<1>3. OneRequestPerItem /\ DemandMatchesParticipants
  BY DEF OneRequestPerItem, DemandMatchesParticipants
<1>4. QED
  BY <1>1, <1>2, <1>3 DEF IndInv

\* No transaction step, in any interleaving, breaks the inductive invariant.
LEMMA NextIndInv == IndInv /\ [Next]_vars => IndInv'
<1> SUFFICES ASSUME IndInv, [Next]_vars PROVE IndInv'
  OBVIOUS
<1>1. ASSUME NEW h \in Handlers, Begin(h) PROVE IndInv'
  BY <1>1, BeginPreserves
<1>2. ASSUME NEW h \in Handlers, Step(h) PROVE IndInv'
  <2>1. CASE LockItemName(h)
    BY <2>1, LockItemNamePreserves
  <2>2. CASE FindNothing(h)
    BY <2>2, FindNothingPreserves
  <2>3. CASE FindExisting(h)
    BY <2>3, EndPreserves DEF FindExisting
  <2>4. CASE CreateRequest(h)
    BY <2>4, CreateRequestPreserves
  <2>5. CASE LockRequest(h)
    BY <2>5, LockRequestPreserves
  <2>6. CASE RequestNotFound(h)
    BY <2>6, EndPreserves DEF RequestNotFound
  <2>7. CASE MutateLine(h)
    BY <2>7, MutateLinePreserves
  <2>8. CASE RefuseLine(h)
    BY <2>8, EndPreserves DEF RefuseLine
  <2>9. CASE SetOfferCount(h)
    BY <2>9, SetOfferCountPreserves
  <2>10. CASE AggregateDemand(h)
    BY <2>10, AggregatePreserves
  <2>11. CASE RecalculateDemand(h)
    BY <2>11, RecalculatePreserves
  <2>12. CASE Commit(h)
    BY <2>12, CommitPreserves
  <2>13. QED
    BY <1>2, <2>1, <2>2, <2>3, <2>4, <2>5, <2>6, <2>7, <2>8, <2>9, <2>10, <2>11, <2>12
       DEF Step
<1>3. ASSUME NEW h \in Handlers, Rollback(h) PROVE IndInv'
  BY <1>3, EndPreserves DEF Rollback
<1>4. CASE UNCHANGED vars
  <2> USE <1>4 DEF vars
  <2>1. TypeOK'
    BY DEF IndInv, TypeOK
  <2>2. \A h \in Handlers : TransactionOK(h)'
    BY DEF IndInv, TransactionOK, CallOK, HoldsLocks, SnapshotOK, FiguresOK, Written, Naming,
           Carrying, HasLine, LinesSeen, RowSeen
  <2>3. OneRequestPerItem' /\ DemandMatchesParticipants'
    BY DEF IndInv, OneRequestPerItem, DemandMatchesParticipants
  <2>4. QED
    BY <2>1, <2>2, <2>3 DEF IndInv
<1>5. QED
  BY <1>1, <1>2, <1>3, <1>4 DEF Next

LEMMA Invariance == Spec => []IndInv
BY InitIndInv, NextIndInv, PTL DEF Spec

\* Every reachable state of request-service's transactions is well typed.
THEOREM TypeCorrect == Spec => []TypeOK
<1>1. IndInv => TypeOK
  BY DEF IndInv
<1>2. QED
  BY <1>1, Invariance, PTL

\* Any number of concurrent creates and offers never give an item a second request.
THEOREM OneRequest == Spec => []OneRequestPerItem
<1>1. IndInv => OneRequestPerItem
  BY DEF IndInv
<1>2. QED
  BY <1>1, Invariance, PTL

\* R4, for any number of concurrent joins, leaves, quantity changes and offer counts: the
\* committed totals and status are those of the committed participants.
THEOREM DemandMatches == Spec => []DemandMatchesParticipants
<1>1. IndInv => DemandMatchesParticipants
  BY DEF IndInv
<1>2. QED
  BY <1>1, Invariance, PTL

-----------------------------------------------------------------------------
(* Refinement: a commit is one operation of the atomic demand board, every *)
(* other statement of a transaction is a stutter.                          *)

LEMMA CommitIsAtomicOperation ==
  ASSUME IndInv, NEW h \in Handlers, Commit(h)
  PROVE  Atomic!DemandNext
<1> DEFINE k == call[h]
           r == call[h].req
<1>1. /\ TransactionOK(h) /\ TypeOK /\ Written(h) /\ pc[h] = "ready"
  BY DEF IndInv, Commit, Written
<1>2. WellFormed(k) /\ r \in RequestIds
  BY <1>1, ReadyToCommit
<1>3. row[h] = Atomic!Derived(RowSeen(h).item, RowSeen(h).createdBy,
                              RowSeen(h).totalOffers, LinesSeen(h))
  BY <1>1 DEF TransactionOK, FiguresOK
<1>4. /\ Atomic!Publish(r, row[h], LinesSeen(h))
      /\ enqueued' = Enqueue(h)
  BY DEF Commit, Atomic!Publish
<1>5. Atomic!Joined(k.cust, r, row[h]) = Joined(k.cust, r, row[h])
  BY DEF Joined, Atomic!Joined
<1>6. CASE k.op \in NamingOps
  <2>1. /\ request[r] = None /\ Carrying(k.name) = {} /\ RowSeen(h) = row[h]
        /\ row[h].item = k.name /\ row[h].createdBy = k.cust /\ row[h].totalOffers = 0
    BY <1>1, <1>6 DEF TransactionOK, SnapshotOK, RowSeen, NamingOps
  <2>2. Atomic!Unclaimed(k.name) /\ k.name \in ItemNames
    BY <1>2, <1>6, <2>1 DEF Atomic!Unclaimed, Carrying, WellFormed
  <2>3. row[h] = Atomic!Derived(k.name, k.cust, 0, LinesSeen(h))
    BY <1>3, <2>1
  <2>4. CASE k.op = "Create"
    <3>1. LinesSeen(h) = [participant[r] EXCEPT ![k.cust] = k.amount]
      BY <2>4 DEF LinesSeen, WritingOps
    <3>2. k.cust \in Customers /\ k.amount \in Quantities
      BY <1>2, <2>4 DEF WellFormed, WritingOps
    <3>3. enqueued' = {Joined(k.cust, r, row[h])}
      BY <1>4, <2>4 DEF Enqueue, JoiningOps
    <3>4. Atomic!Open(r, k.name, k.cust, k.amount)
      BY <1>4, <1>5, <2>1, <2>2, <2>3, <3>1, <3>3 DEF Atomic!Open
    <3>5. QED
      BY <1>2, <2>2, <3>2, <3>4 DEF Atomic!DemandNext
  <2>5. CASE k.op = "EnsureForItem"
    <3>1. LinesSeen(h) = participant[r] /\ k.cust = None /\ enqueued' = {}
      BY <1>2, <1>4, <2>5 DEF LinesSeen, WritingOps, LineOps, WellFormed, Enqueue, JoiningOps
    <3>2. Atomic!OpenEmpty(r, k.name)
      BY <1>4, <2>1, <2>2, <2>3, <3>1 DEF Atomic!OpenEmpty
    <3>3. QED
      BY <1>2, <2>2, <3>2 DEF Atomic!DemandNext
  <2>6. QED
    BY <1>6, <2>4, <2>5 DEF NamingOps
<1>7. CASE k.op \in LineOps
  <2>1. /\ request[r] # None /\ RowSeen(h) = request[r]
        /\ LinesSeen(h) = [participant[r] EXCEPT ![k.cust] = k.amount]
        /\ HasLine(h) <=> k.op # "Join"
    BY <1>1, <1>7 DEF TransactionOK, SnapshotOK, RowSeen, LinesSeen, NamingOps, RowOps, LineOps,
                      WritingOps
  <2>2. k.cust \in Customers /\ k.amount \in Quantities \cup {0}
    BY <1>2, <1>7 DEF WellFormed, WritingOps, LineOps
  <2>3. participant[r][k.cust] # 0 \/ k.amount # 0
    BY <1>2, <1>7, <2>1, QuantityAssumption DEF WellFormed, LineOps, HasLine
  <2>4. enqueued' = IF participant[r][k.cust] = 0 THEN {Joined(k.cust, r, row[h])} ELSE {}
    BY <1>4, <1>7, <2>1 DEF Enqueue, JoiningOps, LineOps, HasLine
  <2>5. Atomic!ChangeLine(r, k.cust, k.amount)
    BY <1>3, <1>4, <1>5, <2>1, <2>3, <2>4 DEF Atomic!ChangeLine
  <2>6. QED
    BY <1>2, <2>2, <2>5 DEF Atomic!DemandNext
<1>8. CASE k.op = "SetOfferCount"
  <2>1. request[r] # None /\ request[r] \in Row
    BY <1>1, <1>2, <1>8 DEF TransactionOK, SnapshotOK, RowOps, TypeOK
  <2>2. /\ RowSeen(h) = [request[r] EXCEPT !.totalOffers = k.amount]
        /\ LinesSeen(h) = participant[r] /\ enqueued' = {}
    BY <1>4, <1>8 DEF RowSeen, LinesSeen, NamingOps, LineOps, WritingOps, Enqueue, JoiningOps
  <2>3. /\ RowSeen(h).item = request[r].item /\ RowSeen(h).createdBy = request[r].createdBy
        /\ RowSeen(h).totalOffers = k.amount
    BY <2>1, <2>2 DEF Row
  <2>4. k.amount \in OfferCounts
    BY <1>2, <1>8 DEF WellFormed
  <2>5. Atomic!ChangeOffers(r, k.amount)
    BY <1>3, <1>4, <2>1, <2>2, <2>3 DEF Atomic!ChangeOffers
  <2>6. QED
    BY <1>2, <2>4, <2>5 DEF Atomic!DemandNext
<1>9. QED
  BY <1>2, <1>6, <1>7, <1>8 DEF WellFormed, RowOps

\* Every statement but the commit leaves the database as others see it.
LEMMA OnlyCommitsWrite ==
  ASSUME NEW h \in Handlers, Begin(h) \/ Rollback(h) \/ (Step(h) /\ ~Commit(h))
  PROVE  UNCHANGED dbVars
BY DEF Begin, Rollback, Step, LockItemName, FindNothing, FindExisting, CreateRequest,
       LockRequest, RequestNotFound, MutateLine, RefuseLine, SetOfferCount,
       AggregateDemand, RecalculateDemand

LEMMA StepRefines == IndInv /\ [Next]_vars => [Atomic!DemandNext]_(Atomic!demandVars)
<1> SUFFICES ASSUME IndInv, [Next]_vars PROVE Atomic!DemandNext \/ UNCHANGED dbVars
  BY DEF Atomic!demandVars, dbVars
<1>1. ASSUME NEW h \in Handlers, Commit(h) PROVE Atomic!DemandNext
  BY <1>1, CommitIsAtomicOperation
<1>2. ASSUME NEW h \in Handlers, Begin(h) \/ Rollback(h) \/ (Step(h) /\ ~Commit(h))
      PROVE  UNCHANGED dbVars
  BY <1>2, OnlyCommitsWrite
<1>3. QED
  BY <1>1, <1>2 DEF Next, vars, dbVars

\* The transactions of any number of concurrent handlers implement the atomic demand board:
\* whatever a reader sees of request-service, one-at-a-time operations would show as well.
THEOREM Refinement == Spec => RefinesAtomicDemand
<1>1. Init => Atomic!DemandInit
  BY DEF Init, Atomic!DemandInit, NoLines, Atomic!NoLines
<1>2. QED
  BY <1>1, StepRefines, Invariance, PTL DEF Spec, RefinesAtomicDemand, Atomic!DemandSpec


-----------------------------------------------------------------------------
(* What a commit announces. *)

\* A commit that adds a line announces its row to that customer, and nothing else.
LEMMA CommitAnnounces ==
  ASSUME IndInv, NEW h \in Handlers, Commit(h), NEW r \in RequestIds, NEW c \in Customers
  PROVE  LET added == participant[r][c] = 0 /\ participant'[r][c] # 0
         IN  /\ added => Joined(c, r, request'[r]) \in enqueued'
             /\ ~added => ~ \E e \in enqueued' : e.customer = c /\ e.request = r
<1> DEFINE k == call[h]
<1>1. /\ TransactionOK(h) /\ TypeOK /\ Written(h)
      /\ WellFormed(k) /\ k.req \in RequestIds
  BY ReadyToCommit DEF IndInv, Commit, Written
<1>2. /\ request' = [request EXCEPT ![k.req] = row[h]]
      /\ participant' = [participant EXCEPT ![k.req] = LinesSeen(h)]
      /\ enqueued' = Enqueue(h)
  BY DEF Commit
<1>3. /\ request'[k.req] = row[h] /\ participant'[k.req] = LinesSeen(h)
      /\ r # k.req => participant'[r] = participant[r]
  BY <1>1, <1>2 DEF TypeOK
<1>4. participant[r] \in Lines /\ participant[k.req] \in Lines
  BY <1>1 DEF TypeOK
<1>5. CASE k.op \in JoiningOps
  <2>1. k.cust \in Customers /\ k.amount \in Quantities /\ k.amount # 0
    BY <1>1, <1>5, QuantityAssumption DEF WellFormed, JoiningOps, WritingOps, LineOps
  <2>2. LinesSeen(h) = [participant[k.req] EXCEPT ![k.cust] = k.amount]
    BY <1>5 DEF LinesSeen, JoiningOps, WritingOps, LineOps
  <2>3. participant[k.req][k.cust] = 0
    <3>1. CASE k.op = "Join"
      BY <1>1, <3>1 DEF TransactionOK, SnapshotOK, HasLine, RowOps, LineOps
    <3>2. CASE k.op = "Create"
      BY <1>1, <3>2, <2>1 DEF TransactionOK, SnapshotOK, NamingOps, IndInv,
                              DemandMatchesParticipants, NoLines
    <3>3. QED
      BY <1>5, <3>1, <3>2 DEF JoiningOps
  <2>4. enqueued' = {Joined(k.cust, k.req, row[h])}
    BY <1>2, <1>5 DEF Enqueue
  <2>5. CASE r = k.req /\ c = k.cust
    BY <1>3, <1>4, <2>1, <2>2, <2>3, <2>4, <2>5 DEF Lines
  <2>6. CASE r # k.req \/ c # k.cust
    <3>1. participant'[r][c] = participant[r][c]
      BY <1>3, <1>4, <2>2, <2>6 DEF Lines
    <3>2. ~ \E e \in enqueued' : e.customer = c /\ e.request = r
      BY <2>4, <2>6 DEF Joined
    <3>3. QED
      BY <3>1, <3>2
  <2>7. QED
    BY <2>5, <2>6
<1>6. CASE k.op \notin JoiningOps
  <2>1. enqueued' = {}
    BY <1>2, <1>6 DEF Enqueue
  <2>2. participant[r][c] = 0 => participant'[r][c] = 0
    <3>1. CASE k.op \in WritingOps
      <4>1. k.op = "Leave" \/ k.op = "UpdateQuantity"
        BY <1>6, <3>1 DEF JoiningOps, WritingOps, LineOps
      <4>2. participant[k.req][k.cust] # 0
        BY <1>1, <4>1 DEF TransactionOK, SnapshotOK, HasLine, RowOps, LineOps
      <4>3. LinesSeen(h) = [participant[k.req] EXCEPT ![k.cust] = k.amount]
        BY <3>1 DEF LinesSeen
      <4>4. QED
        BY <1>3, <1>4, <4>2, <4>3 DEF Lines
    <3>2. CASE k.op \notin WritingOps
      BY <1>3, <3>2 DEF LinesSeen
    <3>3. QED
      BY <3>1, <3>2
  <2>3. QED
    BY <2>1, <2>2
<1>7. QED
  BY <1>5, <1>6

\* Whatever handlers commit around it, a customer who appears on a request is announced in
\* that commit with the demand the request then shows, and nobody else is (Join, Create).
THEOREM JoinersTold == Spec => JoinersAreToldTheDemand
<1> DEFINE Told ==
      \A r \in RequestIds, c \in Customers :
        LET added == participant[r][c] = 0 /\ participant'[r][c] # 0
        IN  /\ added => Joined(c, r, request'[r]) \in enqueued'
            /\ enqueued' # enqueued /\ ~added =>
                 ~ \E e \in enqueued' : e.customer = c /\ e.request = r
<1>1. IndInv /\ [Next]_vars => [Told]_vars
  <2> SUFFICES ASSUME IndInv, Next PROVE Told
    OBVIOUS
  <2>1. ASSUME NEW h \in Handlers, Commit(h) PROVE Told
    BY <2>1, CommitAnnounces
  <2>2. CASE UNCHANGED dbVars
    BY <2>2 DEF dbVars
  <2>3. ASSUME NEW h \in Handlers, Begin(h) \/ Rollback(h) \/ (Step(h) /\ ~Commit(h))
        PROVE  UNCHANGED dbVars
    BY <2>3, OnlyCommitsWrite
  <2>4. QED
    BY <2>1, <2>2, <2>3 DEF Next
<1>2. QED
  BY <1>1, Invariance, PTL DEF Spec, JoinersAreToldTheDemand
=============================================================================
