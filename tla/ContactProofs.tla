--------------------------- MODULE ContactProofs ---------------------------
(***************************************************************************)
(* Proofs about ContactDecision, for every number of admins, customers and *)
(* readers beside those of offer-service.  Every step of the composition   *)
(* is a step of offer-service or leaves it alone, so the invariant of      *)
(* OfferProofs holds in it and carries the proofs.                         *)
(***************************************************************************)
EXTENDS ContactDecision, OfferProofs

DeskStates == {"idle", "participants", "begin", "recorded", "patching", "patched"}

\* The states in which a desk's transaction holds the index entry of its decision.
Holding == {"recorded", "patching", "patched"}

Desk == [pc : DeskStates, id : OfferIds \cup {None}, verdict : Decisions \cup {None},
         customers : SUBSET Customers, tell : BOOLEAN, worker : Workers \cup {None}]

\* A worker serves the PATCH of an offer, or has answered it; "ok" only once it is decided.
Relays(w, o) ==
  \/ /\ task[w].pc # "idle" /\ answer[w] = None
     /\ task[w].op = "set_status" /\ task[w].id = o
  \/ /\ task[w].pc = "idle" /\ answer[w] # None
     /\ answer[w] = "ok" => offer[o].status # "PENDING"

\* What a Decide holds at each of its steps.
DeskFits(d) ==
  /\ d.pc # "idle" => d.id \in OfferIds /\ offer[d.id] # None /\ d.verdict \in Decisions
  /\ d.pc = "participants" => d.verdict = "APPROVED"
  /\ d.pc \in {"begin"} \cup Holding => (d.verdict = "APPROVED" <=> d.customers # {})
  /\ d.pc \in Holding => decision[d.id] = None
  /\ IF d.pc = "patching" THEN d.worker \in Workers /\ Relays(d.worker, d.id)
                          ELSE d.worker = None
  /\ d.pc = "patched" => offer[d.id].status # "PENDING"

\* Two Decides wait for different workers, and their transactions hold different offers.
DesksApart(d, e) ==
  /\ d.worker = e.worker => d.worker = None
  /\ d.pc \in Holding /\ e.pc \in Holding => d.id # e.id

\* What a lookup listed or showed.
GrantedTo(s, oc) ==
  /\ access[oc[1]][oc[2]] # None
  /\ offer[oc[1]].seller = s

LookupFits ==
  /\ \A oc \in lookup.void : access[oc[1]][oc[2]] = "REVOKED"
  /\ \A oc \in lookup.listed \cup lookup.shown :
       oc \notin lookup.void /\ GrantedTo(lookup.reader, oc)

\* The inductive invariant of the composition.
ContactInv ==
  /\ OfferInv
  /\ ContactTypeOK
  /\ \A a \in Admins : DeskFits(desk[a])
  /\ \A a, b \in Admins : a # b => DesksApart(desk[a], desk[b])
  /\ NoDecisionOnPendingOffer
  /\ GrantsFollowApproval
  /\ ToldWhatWasDecided
  /\ LookupFits

-----------------------------------------------------------------------------
(* offer-service inside the composition *)

\* Every step of the composition is one offer-service allows.
LEMMA OfferAllows ==
  ASSUME ContactInv, [ContactNext]_contactVars
  PROVE  [OfferNext]_offerVars
<1>1. CASE UNCHANGED contactVars
  BY <1>1 DEF contactVars, offerVars
<1>2. CASE OfferStep
  BY <1>2 DEF OfferStep, OfferNext
<1>3. ASSUME NEW a \in Admins, NEW w \in Workers, SendPatch(a, w)
      PROVE  OfferNext
  <2>1. desk[a].id \in OfferIds /\ desk[a].verdict \in Decisions
    BY <1>3 DEF SendPatch, ContactInv, DeskFits
  <2>2. DecisionCall(w)
    BY <1>3, <2>1 DEF SendPatch, DecisionCall
  <2>3. QED
    BY <2>2 DEF OfferNext
<1>4. ASSUME NEW a \in Admins, Decide(a), ~ \E w \in Workers : SendPatch(a, w)
      PROVE  UNCHANGED offerVars
  BY <1>4 DEF Decide, BeginDecide, FetchParticipants, RecordDecision, PatchAnswered,
     PatchTimeout, CommitDecision, LoseDecide
<1>5. ASSUME \/ \E o \in OfferIds, c \in Customers : Revoke(o, c)
             \/ \E s \in Readers, r \in Requests : BeginLookup(s, r)
             \/ ListGranted \/ ShowContacts \/ LoseLookup
             \/ \E r \in Requests, c \in Customers : ChangeParticipants(r, c)
      PROVE  UNCHANGED offerVars
  BY <1>5 DEF Revoke, BeginLookup, ListGranted, ShowContacts, LoseLookup, ChangeParticipants
<1>6. QED
  BY <1>1, <1>2, <1>3, <1>4, <1>5 DEF ContactNext

LEMMA OfferKeeps ==
  ASSUME ContactInv, [ContactNext]_contactVars
  PROVE  OfferInv' /\ \A o \in Stored : Kept(o)
<1>1. OfferInv /\ [OfferNext]_offerVars
  BY OfferAllows DEF ContactInv
<1>2. QED
  BY <1>1, OfferInvStep, OffersKept

\* A worker changes no other's call.
LEMMA OneWorker ==
  ASSUME OfferInv, NEW w \in Workers,
         \/ SellerCall(w) \/ Serve(w) \/ Crash(w)
         \/ \E o \in OfferIds, verdict \in Decisions : StartSetStatus(w, o, verdict)
  PROVE  \A v \in Workers \ {w} : task'[v] = task[v] /\ answer'[v] = answer[v]
<1>1. task \in [Workers -> Task] /\ answer \in [Workers -> Answers \cup {None}]
  BY DEF OfferInv, OfferTypeOK
<1>2. ASSUME NEW how, Reply(w, how)
      PROVE  \A v \in Workers \ {w} : task'[v] = task[v] /\ answer'[v] = answer[v]
  BY <1>1, <1>2 DEF Reply
<1>3. ASSUME NEW label, Goto(w, label), UNCHANGED answer
      PROVE  \A v \in Workers \ {w} : task'[v] = task[v] /\ answer'[v] = answer[v]
  BY <1>1, <1>3 DEF Goto
<1>4. ASSUME NEW t, Start(w, t)
      PROVE  \A v \in Workers \ {w} : task'[v] = task[v] /\ answer'[v] = answer[v]
  BY <1>1, <1>4 DEF Start
<1>5. CASE SellerCall(w) \/ \E o \in OfferIds, verdict \in Decisions : StartSetStatus(w, o, verdict)
  BY <1>4, <1>5 DEF SellerCall, StartSubmit, StartUpdate, StartCancel, StartSetStatus
<1>6. CASE CheckLiveOffer(w) \/ CommitOffer(w) \/ WriteOffer(w)
  BY <1>2, <1>3, <1>6 DEF CheckLiveOffer, CommitOffer, WriteOffer
<1>7. CASE FlushOffer(w)
  BY <1>1, <1>2, <1>7 DEF FlushOffer, Insert
<1>8. CASE ReadOffer(w)
  BY <1>1, <1>2, <1>8 DEF ReadOffer
<1>9. CASE CountOffers(w)
  BY <1>1, <1>9 DEF CountOffers
<1>10. CASE ReportCount(w) \/ LoseReport(w) \/ OutwaitReport(w) \/ Crash(w)
  BY <1>2, <1>10 DEF ReportCount, LoseReport, OutwaitReport, Crash
<1>11. QED
  BY <1>5, <1>6, <1>7, <1>8, <1>9, <1>10 DEF Serve

\* What becomes of a PATCH while its worker serves it.
LEMMA PatchServed ==
  ASSUME OfferInv, NEW w \in Workers, NEW o \in OfferIds, offer[o] # None, Kept(o),
         Relays(w, o), Serve(w) \/ Crash(w)
  PROVE  Relays(w, o)'
<1>1. /\ task[w] \in Task /\ Equipped(task[w]) /\ Informed(task[w])
      /\ task \in [Workers -> Task] /\ answer \in [Workers -> Answers \cup {None}]
  BY DEF OfferInv, OfferTypeOK
<1>2. task[w].pc # "idle" /\ answer[w] = None /\ task[w].op = "set_status" /\ task[w].id = o
  BY DEF Relays, Serve, Crash, CheckLiveOffer, FlushOffer, CommitOffer, ReadOffer, WriteOffer,
     CountOffers, ReportCount, LoseReport, OutwaitReport
<1>3. task[w].pc \in {"read", "write", "count", "report"}
  BY <1>1, <1>2 DEF Task, Equipped
<1>4. ASSUME NEW how \in Answers, Reply(w, how), how = "ok" => offer[o].status # "PENDING"
      PROVE  Relays(w, o)'
  <2>1. task'[w] = NoTask /\ answer'[w] = how /\ how # None
    BY <1>1, <1>4, OfferConstants DEF Reply
  <2>2. QED
    BY <1>4, <2>1 DEF Relays, NoTask, Kept
<1>5. CASE ReadOffer(w)
  <2> DEFINE why == Refusal(task[w], offer[task[w].id])
  <2>1. CASE why # None
    <3>1. why \in Answers /\ why # "ok" /\ Reply(w, why)
      BY <1>5, <2>1 DEF ReadOffer, Refusal, Answers
    <3>2. QED
      BY <1>4, <3>1
  <2>2. CASE why = None
    <3>1. /\ UNCHANGED answer
          /\ task' = [task EXCEPT ![w].pc = "write", ![w].request = offer[task[w].id].request,
                                  ![w].seen = offer[task[w].id].terms]
      BY <1>5, <2>2 DEF ReadOffer
    <3>2. task'[w].pc = "write" /\ task'[w].op = task[w].op /\ task'[w].id = task[w].id
      BY <1>1, <3>1 DEF Task
    <3>3. QED
      BY <1>2, <3>1, <3>2 DEF Relays
  <2>3. QED
    BY <2>1, <2>2
<1>6. CASE WriteOffer(w)
  <2>1. Reply(w, "error") \/ (Goto(w, "count") /\ UNCHANGED answer)
    BY <1>2, <1>6 DEF WriteOffer
  <2>2. CASE Reply(w, "error")
    BY <1>4, <2>2 DEF Answers
  <2>3. CASE Goto(w, "count") /\ UNCHANGED answer
    <3>1. task'[w].pc = "count" /\ task'[w].op = task[w].op /\ task'[w].id = task[w].id
      BY <1>1, <2>3 DEF Goto, Task
    <3>2. QED
      BY <1>2, <2>3, <3>1 DEF Relays
  <2>4. QED
    BY <2>1, <2>2, <2>3
<1>7. CASE CountOffers(w)
  <2>1. /\ task'[w].pc = "report" /\ task'[w].op = task[w].op /\ task'[w].id = task[w].id
        /\ UNCHANGED answer
    BY <1>1, <1>7 DEF CountOffers, Task
  <2>2. QED
    BY <1>2, <2>1 DEF Relays
<1>8. CASE ReportCount(w) \/ LoseReport(w) \/ OutwaitReport(w)
  <2>1. Reply(w, "ok") /\ task[w].pc = "report"
    BY <1>8 DEF ReportCount, LoseReport, OutwaitReport
  <2>2. offer[o].status # "PENDING"
    BY <1>1, <1>2, <2>1 DEF Informed
  <2>3. QED
    BY <1>4, <2>1, <2>2 DEF Answers
<1>9. CASE Crash(w)
  BY <1>4, <1>9 DEF Crash, Answers
<1>10. QED
  BY <1>3, <1>5, <1>6, <1>7, <1>8, <1>9 DEF Serve, CheckLiveOffer, FlushOffer, CommitOffer

-----------------------------------------------------------------------------
(* What steps leave alone *)

\* A stored offer stays what a decision or a grant relies on.
LEMMA RecordsKept ==
  ASSUME ContactInv, [ContactNext]_contactVars, UNCHANGED <<decision, access, notified>>
  PROVE  NoDecisionOnPendingOffer' /\ GrantsFollowApproval' /\ ToldWhatWasDecided'
<1>1. \A o \in Stored : Kept(o)
  BY OfferKeeps
<1>2. NoDecisionOnPendingOffer'
  BY <1>1 DEF ContactInv, NoDecisionOnPendingOffer, Kept, Stored
<1>3. GrantsFollowApproval' /\ ToldWhatWasDecided'
  BY DEF ContactInv, GrantsFollowApproval, ToldWhatWasDecided
<1>4. QED
  BY <1>2, <1>3

LEMMA LookupKept ==
  ASSUME ContactInv, [ContactNext]_contactVars, UNCHANGED lookup,
         \A o \in OfferIds, c \in Customers :
           /\ access[o][c] # None => access'[o][c] # None
           /\ access[o][c] = "REVOKED" => access'[o][c] = "REVOKED"
  PROVE  LookupFits'
<1>1. \A o \in Stored : Kept(o)
  BY OfferKeeps
<1>2. lookup.void \subseteq OfferIds \X Customers
  BY DEF ContactInv, ContactTypeOK
<1>3. lookup.listed \cup lookup.shown \subseteq OfferIds \X Customers
  BY DEF ContactInv, ContactTypeOK
<1>4. \A oc \in lookup.void : access'[oc[1]][oc[2]] = "REVOKED"
  BY <1>2 DEF ContactInv, LookupFits
<1>5. ASSUME NEW oc \in lookup.listed \cup lookup.shown
      PROVE  oc \notin lookup.void /\ GrantedTo(lookup.reader, oc)'
  <2>1. oc[1] \in OfferIds /\ oc[2] \in Customers
    BY <1>3
  <2>2. oc \notin lookup.void /\ access[oc[1]][oc[2]] # None /\ offer[oc[1]].seller = lookup.reader
    BY DEF ContactInv, LookupFits, GrantedTo
  <2>3. decision[oc[1]] = "APPROVED"
    BY <2>1, <2>2 DEF ContactInv, GrantsFollowApproval
  <2>4. oc[1] \in Stored
    BY <2>1, <2>3, OfferConstants
       DEF ContactInv, NoDecisionOnPendingOffer, Stored, Statuses
  <2>5. QED
    BY <1>1, <2>1, <2>2, <2>4 DEF GrantedTo, Kept
<1>6. QED
  BY <1>4, <1>5 DEF LookupFits

\* A Decide that another's step leaves alone.
LEMMA DeskKept ==
  ASSUME ContactInv, [ContactNext]_contactVars, NEW b \in Admins, desk'[b] = desk[b],
         desk[b].pc \in Holding => decision'[desk[b].id] = decision[desk[b].id],
         desk[b].pc = "patching" => Relays(desk[b].worker, desk[b].id)'
  PROVE  DeskFits(desk[b])'
<1> DEFINE d == desk[b]
<1>1. DeskFits(d)
  BY DEF ContactInv
<1>2. d.pc # "idle" => Kept(d.id)
  BY <1>1, OfferKeeps DEF DeskFits, Stored
<1>3. QED
  BY <1>1, <1>2 DEF DeskFits, Kept, Holding

LEMMA RelaysUnchanged ==
  ASSUME NEW w, NEW o, Relays(w, o), UNCHANGED <<task, answer, offer>>
  PROVE  Relays(w, o)'
BY DEF Relays

LEMMA RelaysElsewhere ==
  ASSUME NEW w, NEW o, Relays(w, o), task'[w] = task[w], answer'[w] = answer[w], Kept(o)
  PROVE  Relays(w, o)'
BY DEF Relays, Kept

LEMMA ContactTypes ==
  ASSUME ContactInv
  PROVE  /\ desk \in [Admins -> Desk]
         /\ \A a \in Admins : desk[a] \in Desk
BY DEF ContactInv, ContactTypeOK, Desk, DeskStates

-----------------------------------------------------------------------------
(* Preservation *)

\* A step of one Decide that writes no table.
LEMMA DeskStep ==
  ASSUME ContactInv, [ContactNext]_contactVars, NEW a \in Admins, NEW d \in Desk,
         desk' = [desk EXCEPT ![a] = d], DeskFits(d)',
         \A b \in Admins \ {a} : DesksApart(d, desk[b]),
         \A b \in Admins \ {a} : desk[b].pc = "patching" => Relays(desk[b].worker, desk[b].id)',
         UNCHANGED <<decision, access, notified, participants, lookup>>
  PROVE  ContactInv'
<1>1. desk'[a] = d /\ \A b \in Admins \ {a} : desk'[b] = desk[b]
  BY ContactTypes
<1>2. OfferInv'
  BY OfferKeeps
<1>3. ContactTypeOK'
  BY ContactTypes DEF ContactInv, ContactTypeOK, Desk, DeskStates
<1>4. (\A b \in Admins : DeskFits(desk[b]))'
  <2>1. SUFFICES ASSUME NEW b \in Admins PROVE DeskFits(desk[b])'
    OBVIOUS
  <2>2. CASE b = a
    BY <1>1, <2>2 DEF DeskFits, Relays
  <2>3. CASE b # a
    BY <1>1, <2>3, DeskKept
  <2>4. QED
    BY <2>2, <2>3
<1>5. (\A b, c \in Admins : b # c => DesksApart(desk[b], desk[c]))'
  BY <1>1 DEF ContactInv, DesksApart
<1>6. LookupFits'
  BY LookupKept
<1>7. QED
  BY <1>2, <1>3, <1>4, <1>5, <1>6, RecordsKept DEF ContactInv

\* The same while offer-service rests.
LEMMA QuietDeskStep ==
  ASSUME ContactInv, [ContactNext]_contactVars, NEW a \in Admins, NEW d \in Desk,
         desk' = [desk EXCEPT ![a] = d], DeskFits(d),
         \A b \in Admins \ {a} : DesksApart(d, desk[b]),
         UNCHANGED <<offerVars, decision, access, notified, participants, lookup>>
  PROVE  ContactInv'
<1>1. DeskFits(d)'
  BY DEF DeskFits, Relays, offerVars
<1>2. \A b \in Admins \ {a} : desk[b].pc = "patching" => Relays(desk[b].worker, desk[b].id)'
  BY RelaysUnchanged DEF ContactInv, DeskFits, offerVars
<1>3. QED
  BY <1>1, <1>2, DeskStep

\* The deferred rollback, or a return before the transaction.
LEMMA CloseDeskStep ==
  ASSUME ContactInv, [ContactNext]_contactVars, NEW a \in Admins, CloseDesk(a),
         UNCHANGED <<offerVars, decision, access, notified, participants, lookup>>
  PROVE  ContactInv'
<1>1. NoDesk \in Desk /\ DeskFits(NoDesk) /\ \A e : DesksApart(NoDesk, e)
  BY DEF NoDesk, Desk, DeskStates, DeskFits, DesksApart, Holding
<1>2. QED
  BY <1>1, QuietDeskStep DEF CloseDesk

LEMMA BeginDecideStep ==
  ASSUME ContactInv, [ContactNext]_contactVars, NEW a \in Admins, NEW o \in OfferIds,
         NEW verdict \in Decisions, NEW tell \in BOOLEAN, BeginDecide(a, o, verdict, tell)
  PROVE  ContactInv'
<1> DEFINE d == [pc |-> IF verdict = "APPROVED" THEN "participants" ELSE "begin", id |-> o,
                 verdict |-> verdict, customers |-> {}, tell |-> tell, worker |-> None]
<1>1. d \in Desk
  BY DEF Desk, DeskStates
<1>2. DeskFits(d) /\ \A b \in Admins : DesksApart(d, desk[b])
  BY DEF BeginDecide, DeskFits, DesksApart, Holding
<1>3. desk' = [desk EXCEPT ![a] = d]
  BY DEF BeginDecide
<1> HIDE DEF d
<1>4. QED
  BY <1>1, <1>2, <1>3, QuietDeskStep DEF BeginDecide

LEMMA FetchParticipantsStep ==
  ASSUME ContactInv, [ContactNext]_contactVars, NEW a \in Admins, FetchParticipants(a)
  PROVE  ContactInv'
<1> DEFINE buyers == participants[offer[desk[a].id].request]
           d == [desk[a] EXCEPT !.pc = "begin", !.customers = buyers]
<1>1. CASE buyers = {}
  BY <1>1, CloseDeskStep DEF FetchParticipants
<1>2. CASE buyers # {}
  <2>1. desk[a] \in Desk /\ DeskFits(desk[a]) /\ desk[a].pc = "participants"
    BY ContactTypes DEF ContactInv, FetchParticipants
  <2>2. offer[desk[a].id] \in OfferRow
    BY <2>1 DEF DeskFits, ContactInv, OfferInv, OfferTypeOK
  <2>3. buyers \in SUBSET Customers
    BY <2>2 DEF ContactInv, ContactTypeOK, OfferRow
  <2>4. desk' = [desk EXCEPT ![a].pc = "begin", ![a].customers = buyers]
    BY <1>2 DEF FetchParticipants
  <2> HIDE DEF buyers
  <2>5. d \in Desk
    BY <2>1, <2>3 DEF Desk, DeskStates
  <2>6. /\ d.pc = "begin" /\ d.customers = buyers
        /\ d.id = desk[a].id /\ d.verdict = desk[a].verdict /\ d.worker = desk[a].worker
    BY <2>1 DEF Desk
  <2>7. desk' = [desk EXCEPT ![a] = d]
    BY <2>4, ContactTypes
  <2> HIDE DEF d
  <2>8. DeskFits(d) /\ \A b \in Admins : DesksApart(d, desk[b])
    BY <1>2, <2>1, <2>6 DEF DeskFits, DesksApart, Holding
  <2>9. QED
    BY <2>5, <2>7, <2>8, QuietDeskStep DEF FetchParticipants
<1>3. QED
  BY <1>1, <1>2

LEMMA RecordDecisionStep ==
  ASSUME ContactInv, [ContactNext]_contactVars, NEW a \in Admins, RecordDecision(a)
  PROVE  ContactInv'
<1> DEFINE d == [desk[a] EXCEPT !.pc = "recorded"]
<1>1. CASE decision[desk[a].id] # None
  BY <1>1, CloseDeskStep DEF RecordDecision
<1>2. CASE decision[desk[a].id] = None
  <2>1. desk[a] \in Desk /\ DeskFits(desk[a]) /\ desk[a].pc = "begin"
    BY ContactTypes DEF ContactInv, RecordDecision
  <2>2. d \in Desk
    BY <2>1 DEF Desk, DeskStates
  <2>3. /\ d.pc = "recorded" /\ d.customers = desk[a].customers
        /\ d.id = desk[a].id /\ d.verdict = desk[a].verdict /\ d.worker = desk[a].worker
    BY <2>1 DEF Desk
  <2>4. desk' = [desk EXCEPT ![a] = d]
    BY <1>2, ContactTypes DEF RecordDecision, AtDesk
  <2> HIDE DEF d
  <2>5. DeskFits(d)
    BY <1>2, <2>1, <2>3 DEF DeskFits, Holding
  <2>6. \A b \in Admins \ {a} : DesksApart(d, desk[b])
    BY <2>1, <2>3 DEF RecordDecision, Deciding, DesksApart, DeskFits, Holding
  <2>7. QED
    BY <2>2, <2>4, <2>5, <2>6, QuietDeskStep DEF RecordDecision
<1>3. QED
  BY <1>1, <1>2

LEMMA SendPatchStep ==
  ASSUME ContactInv, [ContactNext]_contactVars, NEW a \in Admins, NEW w \in Workers,
         SendPatch(a, w)
  PROVE  ContactInv'
<1> DEFINE o == desk[a].id
<1>1. /\ desk[a] \in Desk /\ DeskFits(desk[a]) /\ desk[a].pc = "recorded"
      /\ o \in OfferIds /\ desk[a].verdict \in Decisions
  BY ContactTypes DEF ContactInv, SendPatch, DeskFits
<1>2. PICK d \in Desk : d = [desk[a] EXCEPT !.pc = "patching", !.worker = w]
  BY <1>1 DEF Desk, DeskStates
<1>3. /\ d.pc = "patching" /\ d.customers = desk[a].customers /\ d.worker = w
      /\ d.id = desk[a].id /\ d.verdict = desk[a].verdict
  BY <1>1, <1>2 DEF Desk
<1>4. desk' = [desk EXCEPT ![a] = d]
  BY <1>2, ContactTypes DEF SendPatch
<1>5. StartSetStatus(w, o, desk[a].verdict)
  BY DEF SendPatch
<1>6. UNCHANGED offer
  BY <1>5 DEF StartSetStatus, Start
<1>7. task'[w].pc = "read" /\ task'[w].op = "set_status" /\ task'[w].id = o /\ answer'[w] = None
  BY <1>5 DEF StartSetStatus, Start, NoTask, ContactInv, OfferInv, OfferTypeOK
<1>8. \A v \in Workers \ {w} : task'[v] = task[v] /\ answer'[v] = answer[v]
  BY <1>1, <1>5, OneWorker DEF ContactInv
<1>9. DeskFits(d)'
  BY <1>1, <1>3, <1>6, <1>7 DEF DeskFits, Relays, Holding, SendPatch
<1>10. \A b \in Admins \ {a} : DesksApart(d, desk[b])
  BY <1>1, <1>3, OfferConstants DEF SendPatch, Awaited, DesksApart, ContactInv, Holding
<1>11. ASSUME NEW b \in Admins \ {a}, desk[b].pc = "patching"
       PROVE  Relays(desk[b].worker, desk[b].id)'
  <2>1. desk[b].worker \in Workers \ {w} /\ Relays(desk[b].worker, desk[b].id)
    BY <1>11 DEF ContactInv, DeskFits, SendPatch, Awaited
  <2>2. desk'[b] = desk[b]
    BY <1>4, ContactTypes
  <2>3. QED
    BY <1>6, <1>8, <2>1, <2>2 DEF Relays
<1>12. QED
  BY <1>2, <1>4, <1>9, <1>10, <1>11, DeskStep DEF SendPatch

LEMMA PatchAnsweredStep ==
  ASSUME ContactInv, [ContactNext]_contactVars, NEW a \in Admins, PatchAnswered(a)
  PROVE  ContactInv'
<1> DEFINE d == [desk[a] EXCEPT !.pc = "patched", !.worker = None]
<1>1. CASE answer[desk[a].worker] # "ok"
  BY <1>1, CloseDeskStep DEF PatchAnswered
<1>2. CASE answer[desk[a].worker] = "ok"
  <2>1. desk[a] \in Desk /\ DeskFits(desk[a]) /\ desk[a].pc = "patching"
    BY ContactTypes DEF ContactInv, PatchAnswered
  <2>2. d \in Desk
    BY <2>1 DEF Desk, DeskStates
  <2>3. /\ d.pc = "patched" /\ d.customers = desk[a].customers /\ d.worker = None
        /\ d.id = desk[a].id /\ d.verdict = desk[a].verdict
    BY <2>1 DEF Desk
  <2>4. desk' = [desk EXCEPT ![a] = d]
    BY <1>2, ContactTypes DEF PatchAnswered
  <2> HIDE DEF d
  <2>5. offer[desk[a].id].status # "PENDING"
    BY <1>2, <2>1 DEF DeskFits, Relays, PatchAnswered
  <2>6. DeskFits(d)
    BY <2>1, <2>3, <2>5 DEF DeskFits, Holding
  <2>7. \A b \in Admins \ {a} : DesksApart(d, desk[b])
    BY <2>1, <2>3 DEF ContactInv, DesksApart, Holding
  <2>8. QED
    BY <2>2, <2>4, <2>6, <2>7, QuietDeskStep DEF PatchAnswered
<1>3. QED
  BY <1>1, <1>2

LEMMA CommitDecisionStep ==
  ASSUME ContactInv, [ContactNext]_contactVars, NEW a \in Admins, CommitDecision(a)
  PROVE  ContactInv'
<1> DEFINE d == desk[a]
           o == desk[a].id
<1>1. /\ d \in Desk /\ DeskFits(d) /\ d.pc = "patched" /\ o \in OfferIds
      /\ d.verdict \in Decisions /\ decision[o] = None
      /\ offer[o] # None /\ offer[o].status # "PENDING"
      /\ d.verdict = "APPROVED" <=> d.customers # {}
  BY ContactTypes DEF ContactInv, CommitDecision, DeskFits, Holding
<1>2. UNCHANGED <<offer, task, answer, lookup, participants>>
  BY DEF CommitDecision, offerVars
<1>3. desk'[a] = NoDesk /\ \A b \in Admins \ {a} : desk'[b] = desk[b]
  BY ContactTypes DEF CommitDecision, CloseDesk
<1>4. /\ decision \in [OfferIds -> Decisions \cup {None}]
      /\ access \in [OfferIds -> [Customers -> {"GRANTED", "REVOKED", None}]]
      /\ notified \subseteq OfferIds \X Decisions
  BY DEF ContactInv, ContactTypeOK
<1>5. decision'[o] = d.verdict /\ \A p \in OfferIds \ {o} : decision'[p] = decision[p]
  BY <1>1, <1>4 DEF CommitDecision
<1>6. \A c \in Customers : access[o][c] = None
  BY <1>1, OfferConstants DEF ContactInv, GrantsFollowApproval, Statuses
<1>7. /\ access'[o] = [c \in Customers |-> IF c \in d.customers THEN "GRANTED" ELSE access[o][c]]
      /\ \A p \in OfferIds \ {o} : access'[p] = access[p]
  BY <1>1, <1>4 DEF CommitDecision
<1>8. notified' \subseteq notified \cup {<<o, d.verdict>>}
  BY DEF CommitDecision
<1>9. d.customers \subseteq Customers
  BY <1>1 DEF Desk
<1>10. ContactTypeOK'
  <2>1. decision' \in [OfferIds -> Decisions \cup {None}]
    BY <1>1, <1>4 DEF CommitDecision
  <2>2. access' \in [OfferIds -> [Customers -> {"GRANTED", "REVOKED", None}]]
    BY <1>1, <1>4 DEF CommitDecision
  <2>3. notified' \subseteq OfferIds \X Decisions
    BY <1>1, <1>4, <1>8
  <2>4. desk' \in [Admins -> Desk]
    BY ContactTypes DEF CommitDecision, CloseDesk, NoDesk, Desk, DeskStates
  <2>5. QED
    BY <1>2, <2>1, <2>2, <2>3, <2>4 DEF ContactInv, ContactTypeOK, Desk, DeskStates
<1>11. (\A b \in Admins : DeskFits(desk[b]))'
  <2>1. SUFFICES ASSUME NEW b \in Admins PROVE DeskFits(desk[b])'
    OBVIOUS
  <2>2. CASE b = a
    BY <1>3, <2>2 DEF DeskFits, NoDesk, Holding
  <2>3. CASE b # a
    <3>1. desk[b].pc \in Holding => desk[b].id # o /\ desk[b].id \in OfferIds
      BY <1>1, <2>3 DEF ContactInv, DesksApart, DeskFits, Holding
    <3>2. desk[b].pc = "patching" => Relays(desk[b].worker, desk[b].id)'
      BY <1>2, <1>3, <2>3 DEF ContactInv, DeskFits, Relays
    <3>3. QED
      BY <1>3, <1>5, <2>3, <3>1, <3>2, DeskKept
  <2>4. QED
    BY <2>2, <2>3
<1>12. (\A b, c \in Admins : b # c => DesksApart(desk[b], desk[c]))'
  BY <1>3 DEF ContactInv, DesksApart, NoDesk, Holding
<1>13. NoDecisionOnPendingOffer'
  BY <1>1, <1>2, <1>5 DEF ContactInv, NoDecisionOnPendingOffer
<1>14. GrantsFollowApproval'
  <2>1. SUFFICES ASSUME NEW p \in OfferIds
                 PROVE  decision'[p] = "APPROVED" <=> \E c \in Customers : access'[p][c] # None
    BY DEF GrantsFollowApproval
  <2>2. CASE p = o
    BY <1>1, <1>5, <1>6, <1>7, <1>9, <2>2, ContactConstants
  <2>3. CASE p # o
    BY <1>5, <1>7, <2>3 DEF ContactInv, GrantsFollowApproval
  <2>4. QED
    BY <2>2, <2>3
<1>15. ToldWhatWasDecided'
  <2>1. SUFFICES ASSUME NEW n \in notified' PROVE decision'[n[1]] = n[2]
    BY DEF ToldWhatWasDecided
  <2>2. CASE n = <<o, d.verdict>>
    BY <1>5, <2>2
  <2>3. CASE n \in notified
    <3>1. n[1] \in OfferIds /\ n[2] \in Decisions /\ decision[n[1]] = n[2]
      BY <1>4, <2>3 DEF ContactInv, ToldWhatWasDecided
    <3>2. n[1] # o
      BY <1>1, <3>1, OfferConstants DEF Decisions, Statuses
    <3>3. QED
      BY <1>5, <3>1, <3>2
  <2>4. QED
    BY <1>8, <2>2, <2>3
<1>16. LookupFits'
  <2>1. \A p \in OfferIds, c \in Customers :
          /\ access[p][c] # None => access'[p][c] # None
          /\ access[p][c] = "REVOKED" => access'[p][c] = "REVOKED"
    BY <1>6, <1>7, ContactConstants
  <2>2. QED
    BY <1>2, <2>1, LookupKept
<1>17. QED
  BY <1>10, <1>11, <1>12, <1>13, <1>14, <1>15, <1>16, OfferKeeps DEF ContactInv

\* The Decides under way, when a step leaves them, the decisions and offer-service alone.
LEMMA DesksRest ==
  ASSUME ContactInv, UNCHANGED <<offerVars, decision, desk>>
  PROVE  /\ (\A b \in Admins : DeskFits(desk[b]))'
         /\ (\A b, c \in Admins : b # c => DesksApart(desk[b], desk[c]))'
BY DEF ContactInv, DeskFits, DesksApart, Relays, offerVars

LEMMA RevokeStep ==
  ASSUME ContactInv, [ContactNext]_contactVars, NEW o \in OfferIds, NEW c \in Customers,
         Revoke(o, c)
  PROVE  ContactInv'
<1>1. /\ access \in [OfferIds -> [Customers -> {"GRANTED", "REVOKED", None}]]
      /\ access[o][c] = "GRANTED" /\ access' = [access EXCEPT ![o][c] = "REVOKED"]
      /\ UNCHANGED <<offerVars, decision, notified, participants, desk, lookup>>
  BY DEF ContactInv, ContactTypeOK, Revoke
<1>2. /\ access' \in [OfferIds -> [Customers -> {"GRANTED", "REVOKED", None}]]
      /\ access'[o][c] = "REVOKED"
      /\ \A p \in OfferIds, e \in Customers : p # o \/ e # c => access'[p][e] = access[p][e]
  BY <1>1
<1>3. \A p \in OfferIds, e \in Customers :
        /\ access[p][e] # None <=> access'[p][e] # None
        /\ access[p][e] = "REVOKED" => access'[p][e] = "REVOKED"
  BY <1>1, <1>2, ContactConstants
<1>4. ContactTypeOK'
  BY <1>1, <1>2 DEF ContactInv, ContactTypeOK
<1>5. GrantsFollowApproval'
  BY <1>1, <1>3 DEF ContactInv, GrantsFollowApproval
<1>6. NoDecisionOnPendingOffer' /\ ToldWhatWasDecided'
  BY <1>1 DEF ContactInv, NoDecisionOnPendingOffer, ToldWhatWasDecided, offerVars
<1>7. LookupFits'
  BY <1>1, <1>3, LookupKept
<1>8. QED
  BY <1>1, <1>4, <1>5, <1>6, <1>7, DesksRest, OfferKeeps DEF ContactInv

\* A step of the lookup, which writes nothing.
LEMMA LookupStep ==
  ASSUME ContactInv, [ContactNext]_contactVars,
         \/ \E s \in Readers, r \in Requests : BeginLookup(s, r)
         \/ ListGranted \/ ShowContacts \/ LoseLookup
  PROVE  ContactInv'
<1> DEFINE Lookup == [pc      : {"idle", "list", "resolve"},
                      reader  : Readers \cup {None},
                      request : Requests \cup {None},
                      void    : SUBSET (OfferIds \X Customers),
                      listed  : SUBSET (OfferIds \X Customers),
                      shown   : SUBSET (OfferIds \X Customers)]
<1>1. UNCHANGED <<offerVars, decision, access, notified, participants, desk>>
  BY DEF BeginLookup, ListGranted, ShowContacts, LoseLookup
<1>2. lookup \in Lookup
  BY DEF ContactInv, ContactTypeOK
<1>3. NoLookup \in Lookup
  BY DEF NoLookup
<1>4. CASE \E s \in Readers, r \in Requests : BeginLookup(s, r)
  <2> PICK s \in Readers, r \in Requests : BeginLookup(s, r)
    BY <1>4
  <2>1. lookup' = [NoLookup EXCEPT !.pc = "list", !.reader = s, !.request = r,
                                   !.void = AccessIn("REVOKED")]
    BY DEF BeginLookup
  <2>2. AccessIn("REVOKED") \in SUBSET (OfferIds \X Customers)
    BY DEF AccessIn
  <2>3. lookup' \in Lookup
    BY <2>1, <2>2 DEF NoLookup
  <2>4. lookup'.void = AccessIn("REVOKED") /\ lookup'.listed = {} /\ lookup'.shown = {}
    BY <2>1 DEF NoLookup
  <2>5. LookupFits'
    BY <1>1, <2>4 DEF LookupFits, AccessIn
  <2>6. QED
    BY <2>3, <2>5, <1>1, RecordsKept, DesksRest, OfferKeeps DEF ContactInv, ContactTypeOK
<1>5. CASE ListGranted /\ lookup' # NoLookup
  <2> DEFINE found == GrantedFor(lookup.reader, lookup.request)
  <2>1. lookup' = [lookup EXCEPT !.pc = "resolve", !.listed = found]
    BY <1>5 DEF ListGranted
  <2>2. found \in SUBSET (OfferIds \X Customers)
    BY DEF GrantedFor, AccessIn
  <2>3. ASSUME NEW oc \in found
        PROVE  oc \notin lookup.void /\ GrantedTo(lookup.reader, oc)
    BY ContactConstants DEF GrantedFor, AccessIn, ContactInv, LookupFits, GrantedTo
  <2> HIDE DEF found
  <2>4. lookup' \in Lookup
    BY <1>2, <2>1, <2>2
  <2>5. /\ lookup'.void = lookup.void /\ lookup'.reader = lookup.reader
        /\ lookup'.listed = found /\ lookup'.shown = lookup.shown
    BY <1>2, <2>1
  <2>6. LookupFits'
    BY <1>1, <2>3, <2>5 DEF ContactInv, LookupFits, GrantedTo, offerVars
  <2>7. QED
    BY <2>4, <2>6, <1>1, RecordsKept, DesksRest, OfferKeeps DEF ContactInv, ContactTypeOK
<1>6. CASE ShowContacts
  <2>1. lookup' = [lookup EXCEPT !.pc = "idle", !.shown = lookup.listed, !.listed = {}]
    BY <1>6 DEF ShowContacts
  <2>2. lookup' \in Lookup
    BY <1>2, <2>1
  <2>3. /\ lookup'.void = lookup.void /\ lookup'.reader = lookup.reader
        /\ lookup'.listed = {} /\ lookup'.shown = lookup.listed
    BY <1>2, <2>1
  <2>4. LookupFits'
    BY <1>1, <2>3 DEF ContactInv, LookupFits, GrantedTo, offerVars
  <2>5. QED
    BY <2>2, <2>4, <1>1, RecordsKept, DesksRest, OfferKeeps DEF ContactInv, ContactTypeOK
<1>7. CASE lookup' = NoLookup
  <2>1. LookupFits'
    BY <1>7 DEF LookupFits, NoLookup
  <2>2. QED
    BY <1>3, <1>7, <2>1, <1>1, RecordsKept, DesksRest, OfferKeeps DEF ContactInv, ContactTypeOK
<1>8. QED
  BY <1>4, <1>5, <1>6, <1>7 DEF LoseLookup

LEMMA ChangeParticipantsStep ==
  ASSUME ContactInv, [ContactNext]_contactVars, NEW r \in Requests, NEW c \in Customers,
         ChangeParticipants(r, c)
  PROVE  ContactInv'
<1>1. UNCHANGED <<offerVars, decision, access, notified, desk, lookup>>
  BY DEF ChangeParticipants
<1>2. ContactTypeOK'
  BY <1>1 DEF ChangeParticipants, ContactInv, ContactTypeOK
<1>3. LookupFits'
  BY <1>1, LookupKept
<1>4. QED
  BY <1>1, <1>2, <1>3, RecordsKept, DesksRest, OfferKeeps DEF ContactInv

\* offer-service moves: every PATCH a Decide waits for is still being served, or answered.
LEMMA OfferStepKeeps ==
  ASSUME ContactInv, [ContactNext]_contactVars, OfferStep
  PROVE  ContactInv'
<1>1. UNCHANGED <<decision, access, notified, participants, desk, lookup>>
  BY DEF OfferStep, adminVars
<1>2. ASSUME NEW b \in Admins, desk[b].pc = "patching"
      PROVE  Relays(desk[b].worker, desk[b].id)'
  <2>1. PICK v \in Workers, o \in OfferIds : v = desk[b].worker /\ o = desk[b].id
    BY <1>2 DEF ContactInv, DeskFits
  <2>2. Relays(v, o) /\ offer[o] # None /\ Kept(o) /\ Awaited(v)
    BY <1>2, <2>1, OfferKeeps DEF ContactInv, DeskFits, Stored, Awaited
  <2>3. Relays(v, o)'
    <3>1. ASSUME NEW m \in late, ArriveLate(m)
          PROVE  Relays(v, o)'
      BY <2>2, <3>1, RelaysElsewhere DEF ArriveLate
    <3>2. ASSUME NEW w \in Workers, (SellerCall(w) /\ ~Awaited(w)) \/ Serve(w) \/ Crash(w)
          PROVE  Relays(v, o)'
      <4>1. CASE v = w
        BY <2>2, <3>2, <4>1, PatchServed DEF ContactInv
      <4>2. CASE v # w
        <5>1. task'[v] = task[v] /\ answer'[v] = answer[v]
          BY <3>2, <4>2, OneWorker DEF ContactInv
        <5>2. QED
          BY <2>2, <5>1, RelaysElsewhere
      <4>3. QED
        BY <4>1, <4>2
    <3>3. QED
      BY <3>1, <3>2 DEF OfferStep
  <2>4. QED
    BY <1>1, <2>1, <2>3 DEF Relays
<1>3. (\A b \in Admins : DeskFits(desk[b]))'
  BY <1>1, <1>2, DeskKept
<1>4. (\A b, c \in Admins : b # c => DesksApart(desk[b], desk[c]))'
  BY <1>1 DEF ContactInv, DesksApart
<1>5. ContactTypeOK'
  BY <1>1 DEF ContactInv, ContactTypeOK
<1>6. LookupFits'
  BY <1>1, LookupKept
<1>7. QED
  BY <1>1, <1>3, <1>4, <1>5, <1>6, RecordsKept, OfferKeeps DEF ContactInv

LEMMA DecideStep ==
  ASSUME ContactInv, [ContactNext]_contactVars, NEW a \in Admins, Decide(a)
  PROVE  ContactInv'
<1>1. ASSUME PatchTimeout(a) \/ LoseDecide(a)
      PROVE  ContactInv'
  BY <1>1, CloseDeskStep DEF PatchTimeout, LoseDecide
<1>2. QED
  BY <1>1, BeginDecideStep, FetchParticipantsStep, RecordDecisionStep, SendPatchStep,
     PatchAnsweredStep, CommitDecisionStep DEF Decide

LEMMA ContactInvStep == ContactInv /\ [ContactNext]_contactVars => ContactInv'
<1> SUFFICES ASSUME ContactInv, [ContactNext]_contactVars PROVE ContactInv'
  OBVIOUS
<1>1. CASE UNCHANGED contactVars
  <2>1. UNCHANGED <<offerVars, decision, access, notified, participants, desk, lookup>>
    BY <1>1 DEF contactVars, adminVars
  <2>2. ContactTypeOK'
    BY <2>1 DEF ContactInv, ContactTypeOK
  <2>3. LookupFits'
    BY <2>1, LookupKept
  <2>4. QED
    BY <2>1, <2>2, <2>3, RecordsKept, DesksRest, OfferKeeps DEF ContactInv
<1>2. QED
  BY <1>1, OfferStepKeeps, DecideStep, RevokeStep, LookupStep, ChangeParticipantsStep
     DEF ContactNext

LEMMA ContactInvInit == ContactInit => ContactInv
<1> SUFFICES ASSUME ContactInit PROVE ContactInv
  OBVIOUS
<1>1. OfferInv
  BY OfferInvInit DEF ContactInit
<1>2. ContactTypeOK
  BY DEF ContactInit, ContactTypeOK, NoDesk, NoLookup
<1>3. \A a \in Admins : desk[a] = NoDesk
  BY DEF ContactInit
<1>4. \A a \in Admins : DeskFits(desk[a])
  BY <1>3 DEF DeskFits, NoDesk, Holding
<1>5. \A a, b \in Admins : a # b => DesksApart(desk[a], desk[b])
  BY <1>3 DEF DesksApart, NoDesk, Holding
<1>6. \A o \in OfferIds : decision[o] = None /\ \A c \in Customers : access[o][c] = None
  BY DEF ContactInit
<1>7. NoDecisionOnPendingOffer /\ GrantsFollowApproval
  BY <1>6, OfferConstants DEF NoDecisionOnPendingOffer, GrantsFollowApproval, Statuses
<1>8. ToldWhatWasDecided /\ LookupFits
  BY DEF ContactInit, NoLookup, ToldWhatWasDecided, LookupFits
<1>9. QED
  BY <1>1, <1>2, <1>4, <1>5, <1>7, <1>8 DEF ContactInv

\* admin-service and offer-service together keep their invariant.
THEOREM ContactSafety == ContactSpec => []ContactInv
BY ContactInvInit, ContactInvStep, PTL DEF ContactSpec

-----------------------------------------------------------------------------
(* The properties *)

\* admin-service drives offer-service only in ways offer-service allows: what is proved of
\* offer-service alone holds of the two together.
THEOREM ContactImplementsOffer == ContactSpec => OfferSpec
<1>1. ContactInit => OfferInit
  BY DEF ContactInit
<1>2. ContactInv /\ [ContactNext]_contactVars => [OfferNext]_offerVars
  BY OfferAllows
<1>3. QED
  BY <1>1, <1>2, ContactSafety, PTL DEF ContactSpec, OfferSpec

\* admin-service's tables and calls stay within their types.
THEOREM ContactTypeCorrect == ContactSpec => []ContactTypeOK
<1>1. ContactInv => ContactTypeOK
  BY DEF ContactInv
<1>2. QED
  BY <1>1, ContactSafety, PTL

\* Whatever times out, crashes or races, a decision is never recorded against an offer that
\* still waits for one (Decide: the PATCH before the commit).
THEOREM DecidedIsNotPending == ContactSpec => []NoDecisionOnPendingOffer
<1>1. ContactInv => NoDecisionOnPendingOffer
  BY DEF ContactInv
<1>2. QED
  BY <1>1, ContactSafety, PTL

\* R8: contact access exists exactly for the offers with an approval on record.
THEOREM GrantsMatchApprovals == ContactSpec => []GrantsFollowApproval
<1>1. ContactInv => GrantsFollowApproval
  BY DEF ContactInv
<1>2. QED
  BY <1>1, ContactSafety, PTL

\* The sellers are told the verdict that is on record, and only that one.
THEOREM ToldTheVerdict == ContactSpec => []ToldWhatWasDecided
<1>1. ContactInv => ToldWhatWasDecided
  BY DEF ContactInv
<1>2. QED
  BY <1>1, ContactSafety, PTL

\* R9: a lookup shows grants of the reader's own approved offers, none of them revoked when
\* the lookup began.
THEOREM ShownIsGranted == ContactSpec => []ShownOnlyWhatIsGranted
<1>1. ContactInv => ShownOnlyWhatIsGranted
  <2> SUFFICES ASSUME ContactInv, NEW oc \in lookup.shown
               PROVE  /\ oc \notin lookup.void
                      /\ decision[oc[1]] = "APPROVED" /\ offer[oc[1]].seller = lookup.reader
    BY DEF ShownOnlyWhatIsGranted
  <2>1. oc[1] \in OfferIds /\ oc[2] \in Customers
    BY DEF ContactInv, ContactTypeOK
  <2>2. oc \notin lookup.void /\ GrantedTo(lookup.reader, oc)
    BY DEF ContactInv, LookupFits
  <2>3. QED
    BY <2>1, <2>2 DEF GrantedTo, ContactInv, GrantsFollowApproval
<1>2. QED
  BY <1>1, ContactSafety, PTL

\* R7: a decision on record is never replaced, and a revoked grant never granted again.
THEOREM AuditPermanent == ContactSpec => AuditIsPermanent
<1>1. ASSUME ContactInv, [ContactNext]_contactVars, NEW o \in OfferIds
      PROVE  /\ decision[o] # None => decision'[o] = decision[o]
             /\ \A c \in Customers : access[o][c] = "REVOKED" => access'[o][c] = "REVOKED"
  <2>1. CASE UNCHANGED <<decision, access>>
    BY <2>1
  <2>2. ASSUME NEW a \in Admins, CommitDecision(a)
        PROVE  /\ decision[o] # None => decision'[o] = decision[o]
               /\ \A c \in Customers : access[o][c] = "REVOKED" => access'[o][c] = "REVOKED"
    <3>1. desk[a].id \in OfferIds /\ decision[desk[a].id] = None
      BY <1>1, <2>2 DEF CommitDecision, ContactInv, DeskFits, Holding
    <3>2. \A c \in Customers : access[desk[a].id][c] = None
      BY <1>1, <3>1, OfferConstants DEF ContactInv, GrantsFollowApproval, Statuses
    <3>3. o # desk[a].id => decision'[o] = decision[o] /\ access'[o] = access[o]
      BY <1>1, <2>2, <3>1 DEF CommitDecision, ContactInv, ContactTypeOK
    <3>4. QED
      BY <3>1, <3>2, <3>3, ContactConstants
  <2>3. ASSUME NEW p \in OfferIds, NEW e \in Customers, Revoke(p, e)
        PROVE  /\ decision' = decision
               /\ \A c \in Customers : access[o][c] = "REVOKED" => access'[o][c] = "REVOKED"
    BY <1>1, <2>3 DEF Revoke, ContactInv, ContactTypeOK
  <2>4. ASSUME NEW a \in Admins, Decide(a), ~CommitDecision(a)
        PROVE  UNCHANGED <<decision, access>>
    BY <2>4 DEF Decide, BeginDecide, FetchParticipants, RecordDecision, SendPatch, PatchAnswered,
       PatchTimeout, LoseDecide
  <2>5. QED
    BY <1>1, <2>1, <2>2, <2>3, <2>4 DEF ContactNext, OfferStep, adminVars, contactVars, BeginLookup,
       ListGranted, ShowContacts, LoseLookup, ChangeParticipants
<1>2. ContactInv /\ [ContactNext]_contactVars =>
        [\A o \in OfferIds :
           /\ decision[o] # None => decision'[o] = decision[o]
           /\ \A c \in Customers : access[o][c] = "REVOKED" => access'[o][c] = "REVOKED"
        ]_contactVars
  BY <1>1
<1>3. QED
  BY <1>2, ContactSafety, PTL DEF ContactSpec, AuditIsPermanent
=============================================================================
