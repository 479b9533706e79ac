----------------------------- MODULE PagesProofs -----------------------------
(***************************************************************************)
(* Proofs about the pages of StorePages: what each slice shows or sends is   *)
(* right in whatever order its calls are answered, lost or orphaned, for any  *)
(* number of calls in flight, offers, items and cases.                       *)
(***************************************************************************)
EXTENDS StorePages, FiniteSetTheorems, TLAPS

ThunkKeys == {"thunk", "arg", "at", "data", "own"}

\* The calls are records of the slots.
CallsFit ==
  /\ DOMAIN calls = CallSlots
  /\ \A i \in CallSlots : DOMAIN calls[i] = ThunkKeys

SentCall(thunk, arg) ==
  [thunk |-> thunk, arg |-> arg, at |-> "wire", data |-> None, own |-> FALSE]
AwaitedCall(thunk, arg) ==
  [thunk |-> thunk, arg |-> arg, at |-> "wire", data |-> None, own |-> TRUE]

\* A dispatch leaves every slot as it was or holding the new call.
LEMMA SentSlots ==
  ASSUME NEW flight, DOMAIN flight = CallSlots, NEW thunk, NEW arg
  PROVE  /\ DOMAIN Sent(flight, thunk, arg) = CallSlots
         /\ \A i \in CallSlots : \/ Sent(flight, thunk, arg)[i] = flight[i]
                                 \/ Sent(flight, thunk, arg)[i] = SentCall(thunk, arg)
<1> DEFINE slot == CHOOSE i \in FreeIn(flight) : TRUE
           call == SentCall(thunk, arg)
<1>1. Sent(flight, thunk, arg) = [flight EXCEPT ![slot] = call]
  BY DEF Sent, Put, SentCall
<1> HIDE DEF slot, call
<1>2. DOMAIN [flight EXCEPT ![slot] = call] = CallSlots
  OBVIOUS
<1>3. \A i \in CallSlots :
        [flight EXCEPT ![slot] = call][i] = IF i = slot THEN call ELSE flight[i]
  OBVIOUS
<1>4. QED
  BY <1>1, <1>2, <1>3 DEF call

LEMMA AwaitedSlots ==
  ASSUME NEW flight, DOMAIN flight = CallSlots, NEW thunk, NEW arg
  PROVE  /\ DOMAIN Awaited(flight, thunk, arg) = CallSlots
         /\ \A i \in CallSlots : \/ Awaited(flight, thunk, arg)[i] = flight[i]
                                 \/ Awaited(flight, thunk, arg)[i] = AwaitedCall(thunk, arg)
<1> DEFINE slot == CHOOSE i \in FreeIn(flight) : TRUE
           call == AwaitedCall(thunk, arg)
<1>1. Awaited(flight, thunk, arg) = [flight EXCEPT ![slot] = call]
  BY DEF Awaited, Put, AwaitedCall
<1> HIDE DEF slot, call
<1>2. DOMAIN [flight EXCEPT ![slot] = call] = CallSlots
  OBVIOUS
<1>3. \A i \in CallSlots :
        [flight EXCEPT ![slot] = call][i] = IF i = slot THEN call ELSE flight[i]
  OBVIOUS
<1>4. QED
  BY <1>1, <1>2, <1>3 DEF call

\* With a slot free, the call takes one that was, and the others stay.
LEMMA SentTakesFree ==
  ASSUME NEW flight, DOMAIN flight = CallSlots, NEW thunk, NEW arg,
         NEW free \in CallSlots, flight[free] = NoThunk
  PROVE  \E s \in CallSlots :
           /\ flight[s] = NoThunk /\ Sent(flight, thunk, arg)[s] = SentCall(thunk, arg)
           /\ \A j \in CallSlots : j # s => Sent(flight, thunk, arg)[j] = flight[j]
<1> DEFINE slot == CHOOSE i \in FreeIn(flight) : TRUE
           call == SentCall(thunk, arg)
<1>1. Sent(flight, thunk, arg) = [flight EXCEPT ![slot] = call]
  BY DEF Sent, Put, SentCall
<1>2. slot \in CallSlots /\ flight[slot] = NoThunk
  BY DEF FreeIn
<1> HIDE DEF slot, call
<1>3. /\ [flight EXCEPT ![slot] = call][slot] = call
      /\ \A j \in CallSlots : j # slot => [flight EXCEPT ![slot] = call][j] = flight[j]
  BY <1>2
<1>4. QED
  BY <1>1, <1>2, <1>3 DEF call

LEMMA AwaitedTakesFree ==
  ASSUME NEW flight, DOMAIN flight = CallSlots, NEW thunk, NEW arg,
         NEW free \in CallSlots, flight[free] = NoThunk
  PROVE  \E s \in CallSlots :
           /\ flight[s] = NoThunk /\ Awaited(flight, thunk, arg)[s] = AwaitedCall(thunk, arg)
           /\ \A j \in CallSlots : j # s => Awaited(flight, thunk, arg)[j] = flight[j]
<1> DEFINE slot == CHOOSE i \in FreeIn(flight) : TRUE
           call == AwaitedCall(thunk, arg)
<1>1. Awaited(flight, thunk, arg) = [flight EXCEPT ![slot] = call]
  BY DEF Awaited, Put, AwaitedCall
<1>2. slot \in CallSlots /\ flight[slot] = NoThunk
  BY DEF FreeIn
<1> HIDE DEF slot, call
<1>3. /\ [flight EXCEPT ![slot] = call][slot] = call
      /\ \A j \in CallSlots : j # slot => [flight EXCEPT ![slot] = call][j] = flight[j]
  BY <1>2
<1>4. QED
  BY <1>1, <1>2, <1>3 DEF call

\* A handler that finds room finds a slot for its call, and another for a second one.
LEMMA RoomIsFree ==
  ASSUME Room
  PROVE  \E s, t \in CallSlots : s # t /\ calls[s] = NoThunk /\ calls[t] = NoThunk
<1>1. Cardinality(CallSlots) \in Nat
  BY ThunkConstants, FS_CardinalityType
<1>2. FreeIn(calls) # {}
  BY <1>1, ThunkConstants, FS_EmptySet DEF Room
<1>3. PICK s \in FreeIn(calls) : TRUE
  BY <1>2
<1>4. FreeIn(calls) # {s}
  BY <1>1, ThunkConstants, FS_Singleton DEF Room
<1>5. PICK t \in FreeIn(calls) : t # s
  BY <1>3, <1>4
<1>6. QED
  BY <1>3, <1>5 DEF FreeIn

\* The fields of an empty slot.
LEMMA NoThunkFields ==
  /\ DOMAIN NoThunk = ThunkKeys /\ NoThunk.thunk = None /\ NoThunk.arg = None
  /\ NoThunk.at = None /\ NoThunk.data = None /\ NoThunk.own = FALSE
BY DEF NoThunk, ThunkKeys

\* A settled call leaves its slot empty.
LEMMA Freed ==
  ASSUME CallsFit, NEW i \in CallSlots
  PROVE  /\ DOMAIN Done(i) = CallSlots
         /\ \A j \in CallSlots : Done(i)[j] = IF j = i THEN NoThunk ELSE calls[j]
BY DEF Done, CallsFit

\* A failure is a refusal that stays in its slot.
LEMMA FailedCall ==
  ASSUME CallsFit, NEW i \in CallSlots, FailThunk(i)
  PROVE  /\ CallsFit' /\ calls'[i].at = "rejected" /\ calls'[i].data = None
         /\ \A j \in CallSlots :
              /\ calls'[j].thunk = calls[j].thunk /\ calls'[j].arg = calls[j].arg
              /\ calls'[j].own = calls[j].own
              /\ j # i => calls'[j] = calls[j]
BY DEF FailThunk, Refuse, CallsFit, ThunkKeys

\* Orphaning leaves an empty slot empty, takes the owners away and leaves the rest.
LEMMA OrphanedKeepsFree ==
  ASSUME NEW flight, NEW s \in CallSlots, flight[s] = NoThunk
  PROVE  Orphaned(flight)[s] = NoThunk
<1>1. NoThunk = [f \in DOMAIN NoThunk |-> NoThunk[f]]
  BY DEF NoThunk
<1>2. [NoThunk EXCEPT !.own = FALSE] = NoThunk
  BY <1>1, NoThunkFields
<1>3. QED
  BY <1>2 DEF Orphaned

LEMMA OrphanedFields ==
  ASSUME NEW flight, DOMAIN flight = CallSlots,
         \A i \in CallSlots : DOMAIN flight[i] = ThunkKeys
  PROVE  /\ DOMAIN Orphaned(flight) = CallSlots
         /\ \A i \in CallSlots :
              /\ DOMAIN Orphaned(flight)[i] = ThunkKeys
              /\ Orphaned(flight)[i].thunk = flight[i].thunk
              /\ Orphaned(flight)[i].arg = flight[i].arg
              /\ Orphaned(flight)[i].at = flight[i].at
              /\ Orphaned(flight)[i].data = flight[i].data
              /\ Orphaned(flight)[i].own = FALSE
BY DEF Orphaned, ThunkKeys


-----------------------------------------------------------------------------
(* The admin's and the contacts' pages.  REVOKED is final, so an answer read before a   *)
(* revocation and settled after it can only show too little, never too much.            *)

\* The grants as a list of cs, or of states before, could show them.
GrantsFit(grants, cs) ==
  /\ DOMAIN grants \subseteq Cases
  /\ \A c \in DOMAIN grants :
       /\ grants[c] \in {"GRANTED", "REVOKED"}
       /\ grants[c] = "REVOKED" => cs[c] = "REVOKED"

\* A call of these pages asks about a case, and its answer is true of the cases for good.
DeskCall(call, cs) ==
  /\ call.at = "wire" =>
       /\ call.thunk \in {"revokeGrant", "fetchContacts"} => call.arg \in Cases
       /\ call.thunk = "decideOffer" =>
            call.arg.case \in Cases /\ call.arg.verdict \in {"GRANTED", "REJECTED"}
  /\ call.at = "fulfilled" =>
       /\ call.thunk = "fetchPending" => call.data \subseteq Cases
       /\ call.thunk = "fetchGrants" => GrantsFit(call.data, cs)
       /\ call.thunk = "revokeGrant" => call.data \in Cases /\ cs[call.data] = "REVOKED"
       /\ call.thunk = "fetchContacts" => call.data \in Cases

SliceFits(slice, cs) ==
  /\ DOMAIN slice = {"pending", "grants", "contacts", "loading"}
  /\ slice.pending \subseteq Cases /\ slice.loading \in BOOLEAN
  /\ slice.contacts \in Cases \cup {None}
  /\ GrantsFit(slice.grants, cs)

DeskInv ==
  /\ cases \in [Cases -> CaseStates]
  /\ SliceFits(adminSlice, cases)
  /\ tour \in DeskTours => CallsFit /\ \A i \in CallSlots : DeskCall(calls[i], cases)

\* What the cases may do while the pages are read.
CasesAdvance(cs, next) ==
  next \in [Cases -> CaseStates] /\ \A c \in Cases : cs[c] = "REVOKED" => next[c] = "REVOKED"

LEMMA AdvanceKeepsFit ==
  ASSUME NEW cs, NEW next, CasesAdvance(cs, next)
  PROVE  /\ \A grants : GrantsFit(grants, cs) => GrantsFit(grants, next)
         /\ \A call : DeskCall(call, cs) => DeskCall(call, next)
         /\ \A slice : SliceFits(slice, cs) => SliceFits(slice, next)
<1>1. \A grants : GrantsFit(grants, cs) => GrantsFit(grants, next)
  BY DEF CasesAdvance, GrantsFit
<1>2. QED
  BY <1>1 DEF CasesAdvance, DeskCall, SliceFits

LEMMA NoThunkAtDesk ==
  ASSUME NEW cs
  PROVE  DeskCall(NoThunk, cs)
BY NoThunkFields, ThunkConstants DEF DeskCall

\* A dispatch of these pages.
LEMMA DeskSends ==
  ASSUME CallsFit, \A i \in CallSlots : DeskCall(calls[i], cases), NEW thunk, NEW arg,
         calls' = Sent(calls, thunk, arg), UNCHANGED cases,
         thunk \in {"revokeGrant", "fetchContacts"} => arg \in Cases,
         thunk = "decideOffer" => arg.case \in Cases /\ arg.verdict \in {"GRANTED", "REJECTED"}
  PROVE  CallsFit' /\ \A i \in CallSlots : DeskCall(calls'[i], cases')
<1> DEFINE call == SentCall(thunk, arg)
<1>1. /\ DOMAIN calls' = CallSlots
      /\ \A i \in CallSlots : calls'[i] = calls[i] \/ calls'[i] = call
  BY SentSlots DEF CallsFit
<1>2. /\ DOMAIN call = ThunkKeys /\ call.thunk = thunk /\ call.arg = arg
      /\ call.at = "wire"
  BY DEF SentCall, ThunkKeys
<1> HIDE DEF call
<1>3. DeskCall(call, cases)
  BY <1>2 DEF DeskCall
<1>4. QED
  BY <1>1, <1>2, <1>3 DEF CallsFit

\* The handlers of the three pages.
LEMMA DeskActs ==
  ASSUME DeskInv, tour \in DeskTours, UNCHANGED tour,
         AdminActs \/ ContactReaderActs
  PROVE  DeskInv'
<1>1. CallsFit /\ \A i \in CallSlots : DeskCall(calls[i], cases)
  BY DEF DeskInv
<1>2. ASSUME NEW page, Visit(page)
      PROVE  DeskInv'
  <2>1. UNCHANGED cases
    BY <1>2 DEF Visit
  <2>2. SliceFits(adminSlice', cases')
    BY <1>2, <2>1 DEF Visit, DeskInv, SliceFits
  <2>3. \/ UNCHANGED calls
        \/ \E thunk \in {"fetchPending", "fetchGrants"} : calls' = Sent(calls, thunk, None)
    BY <1>2 DEF Visit
  <2>4. CallsFit' /\ \A i \in CallSlots : DeskCall(calls'[i], cases')
    <3>1. CASE UNCHANGED calls
      BY <1>1, <2>1, <3>1 DEF CallsFit
    <3>2. ASSUME NEW thunk \in {"fetchPending", "fetchGrants"},
                 calls' = Sent(calls, thunk, None)
          PROVE  CallsFit' /\ \A i \in CallSlots : DeskCall(calls'[i], cases')
      BY <1>1, <2>1, <3>2, DeskSends
    <3>3. QED
      BY <2>3, <3>1, <3>2
  <2>5. QED
    BY <2>1, <2>2, <2>4 DEF DeskInv
<1>3. ASSUME NEW page, NEW shown, NEW thunk, NEW arg, Press(page, shown, thunk, arg),
             thunk \in {"revokeGrant", "fetchContacts"} => arg \in Cases,
             thunk = "decideOffer" => arg.case \in Cases /\ arg.verdict \in {"GRANTED", "REJECTED"}
      PROVE  DeskInv'
  <2>1. calls' = Sent(calls, thunk, arg) /\ UNCHANGED cases /\ UNCHANGED adminSlice
    BY <1>3 DEF Press, adminPageVars
  <2>2. CallsFit' /\ \A i \in CallSlots : DeskCall(calls'[i], cases')
    BY <1>1, <1>3, <2>1, DeskSends
  <2>3. QED
    BY <2>1, <2>2 DEF DeskInv
<1>4. ASSUME NEW c \in Cases, PressDecide(c, "GRANTED") \/ PressDecide(c, "REJECTED")
      PROVE  DeskInv'
  <2>1. PICK verdict \in {"GRANTED", "REJECTED"} : PressDecide(c, verdict)
    BY <1>4
  <2>2. QED
    BY <1>3, <2>1 DEF PressDecide
<1>5. ASSUME NEW c \in Cases, PressRevoke(c) \/ PressShow(c)
      PROVE  DeskInv'
  BY <1>3, <1>5 DEF PressRevoke, PressShow
<1>6. CASE PressHide
  <2>1. SliceFits(adminSlice', cases') /\ UNCHANGED <<cases, calls>>
    BY <1>6 DEF PressHide, DeskInv, SliceFits
  <2>2. QED
    BY <1>1, <2>1 DEF DeskInv, CallsFit
<1>7. ASSUME NEW c \in Cases, CaseMoves(c)
      PROVE  DeskInv'
  <2>1. CasesAdvance(cases, cases') /\ UNCHANGED <<calls, adminSlice>>
    BY <1>7 DEF CaseMoves, CasesAdvance, DeskInv, CaseStates
  <2>2. /\ \A call : DeskCall(call, cases) => DeskCall(call, cases')
        /\ \A slice : SliceFits(slice, cases) => SliceFits(slice, cases')
    BY <2>1, AdvanceKeepsFit
  <2>3. QED
    BY <1>1, <2>1, <2>2 DEF DeskInv, CallsFit, CasesAdvance
<1>8. QED
  BY <1>2, <1>4, <1>5, <1>6, <1>7 DEF AdminActs, ContactReaderActs


\* admin-service's answers.
LEMMA DeskServed ==
  ASSUME DeskInv, tour \in DeskTours, UNCHANGED tour, NEW i \in CallSlots, ServeAdmin(i)
  PROVE  DeskInv'
<1>1. CallsFit /\ (\A j \in CallSlots : DeskCall(calls[j], cases)) /\ UNCHANGED adminSlice
  BY DEF DeskInv, ServeAdmin
<1>2. PICK at \in {"fulfilled", "rejected"} :
        \E data : calls' = [calls EXCEPT ![i].at = at, ![i].data = data]
  BY DEF ServeAdmin, ServeAdminRead, ServeAdminChange, Moved, Answer, Refuse
<1>3. PICK data : calls' = [calls EXCEPT ![i].at = at, ![i].data = data]
  BY <1>2
<1>4. /\ CallsFit' /\ calls'[i].at = at /\ calls'[i].data = data
      /\ calls'[i].thunk = calls[i].thunk
      /\ \A j \in CallSlots : j # i => calls'[j] = calls[j]
  BY <1>1, <1>3 DEF CallsFit, ThunkKeys
<1>5. CasesAdvance(cases, cases')
  BY <1>1 DEF DeskInv, ServeAdmin, ServeAdminRead, ServeAdminChange, Moved, CasesAdvance,
              CaseStates, On, DeskCall
<1>6. DeskCall(calls'[i], cases')
  <2>1. CASE at = "rejected"
    BY <1>4, <2>1 DEF DeskCall
  <2>2. CASE at = "fulfilled"
    <3>1. ASSUME NEW x, Answer(i, x)
          PROVE  data = x
      BY <1>1, <1>4, <3>1 DEF Answer, CallsFit, ThunkKeys
    <3>2. ASSUME NEW x
          PROVE  ~Refuse(i, x)
      BY <1>1, <1>4, <2>2, <3>2 DEF Refuse, CallsFit, ThunkKeys
    <3>3. CASE ServeAdminRead(i)
      <4>1. UNCHANGED cases /\ cases \in [Cases -> CaseStates]
        BY <3>3 DEF ServeAdminRead, DeskInv
      <4>2. CASE On(i, "fetchPending") /\ Answer(i, Standing({"PENDING"}))
        BY <1>4, <2>2, <3>1, <4>2 DEF DeskCall, On, Standing
      <4>3. CASE On(i, "fetchGrants")
                 /\ Answer(i, [g \in Standing({"GRANTED", "REVOKED"}) |-> cases[g]])
        <5>1. data = [g \in Standing({"GRANTED", "REVOKED"}) |-> cases[g]]
          BY <3>1, <4>3
        <5>2. GrantsFit(data, cases')
          BY <4>1, <5>1 DEF GrantsFit, Standing
        <5>3. QED
          BY <1>4, <2>2, <4>3, <5>2 DEF DeskCall, On
      <4>4. CASE On(i, "fetchContacts") /\ Answer(i, calls[i].arg)
        BY <1>1, <1>4, <2>2, <3>1, <4>4 DEF DeskCall, On
      <4>5. QED
        BY <3>2, <3>3, <4>2, <4>3, <4>4 DEF ServeAdminRead
    <3>4. CASE ServeAdminChange(i)
      <4>1. CASE On(i, "decideOffer")
        BY <1>4, <2>2, <4>1 DEF DeskCall, On
      <4>2. CASE On(i, "revokeGrant") /\ Moved(i, calls[i].arg, "GRANTED", "REVOKED")
        <5>1. calls[i].arg \in Cases
          BY <1>1, <4>2 DEF DeskCall, On
        <5>2. data = calls[i].arg /\ cases' = [cases EXCEPT ![calls[i].arg] = "REVOKED"]
          BY <3>1, <3>2, <4>2 DEF Moved
        <5>3. QED
          BY <1>4, <2>2, <4>2, <5>1, <5>2 DEF DeskCall, On, DeskInv
      <4>3. QED
        BY <3>4, <4>1, <4>2 DEF ServeAdminChange
    <3>5. QED
      BY <3>3, <3>4 DEF ServeAdmin
  <2>3. QED
    BY <2>1, <2>2
<1>7. /\ \A call : DeskCall(call, cases) => DeskCall(call, cases')
      /\ \A slice : SliceFits(slice, cases) => SliceFits(slice, cases')
  BY <1>5, AdvanceKeepsFit
<1>8. QED
  BY <1>1, <1>4, <1>5, <1>6, <1>7 DEF DeskInv, CasesAdvance

\* The slice takes an answer or a failure.
LEMMA DeskSettled ==
  ASSUME DeskInv, tour \in DeskTours, UNCHANGED tour, NEW i \in CallSlots, SettleAdmin(i)
  PROVE  DeskInv'
<1>1. CallsFit /\ (\A j \in CallSlots : DeskCall(calls[j], cases)) /\ UNCHANGED cases
  BY DEF DeskInv, SettleAdmin
<1>2. /\ DOMAIN calls' = CallSlots
      /\ \A j \in CallSlots : calls'[j] = IF j = i THEN NoThunk ELSE calls[j]
  BY <1>1, Freed DEF SettleAdmin
<1>3. CallsFit' /\ \A j \in CallSlots : DeskCall(calls'[j], cases')
  BY <1>1, <1>2, NoThunkFields, NoThunkAtDesk DEF CallsFit
<1>4. SliceFits(adminSlice, cases) /\ DeskCall(calls[i], cases)
  BY <1>1 DEF DeskInv
<1>5. SliceFits(adminSlice', cases)
  <2>1. CASE AdminRejected(i)
    BY <1>4, <2>1 DEF AdminRejected, SliceFits
  <2>2. CASE Fulfilled(i, "fetchPending")
             /\ adminSlice' = [adminSlice EXCEPT !.pending = calls[i].data, !.loading = FALSE]
    BY <1>4, <2>2 DEF Fulfilled, DeskCall, SliceFits
  <2>3. CASE adminSlice' = [adminSlice EXCEPT !.pending = @ \ {calls[i].data}]
    BY <1>4, <2>3 DEF SliceFits
  <2>4. CASE Fulfilled(i, "fetchGrants")
             /\ adminSlice' = [adminSlice EXCEPT !.grants = calls[i].data]
    BY <1>4, <2>4 DEF Fulfilled, DeskCall, SliceFits
  <2>5. CASE Fulfilled(i, "revokeGrant")
             /\ adminSlice' = [adminSlice EXCEPT !.grants =
                   [g \in DOMAIN @ |-> IF g = calls[i].data THEN "REVOKED" ELSE @[g]]]
    <3> DEFINE marked == [g \in DOMAIN adminSlice.grants |->
                            IF g = calls[i].data THEN "REVOKED" ELSE adminSlice.grants[g]]
    <3>1. GrantsFit(marked, cases)
      BY <1>4, <2>5 DEF Fulfilled, DeskCall, SliceFits, GrantsFit
    <3>2. adminSlice' = [adminSlice EXCEPT !.grants = marked]
      BY <2>5
    <3> HIDE DEF marked
    <3>3. QED
      BY <1>4, <3>1, <3>2 DEF SliceFits
  <2>6. CASE Fulfilled(i, "fetchContacts")
             /\ adminSlice' = [adminSlice EXCEPT !.contacts = calls[i].data]
    BY <1>4, <2>6 DEF Fulfilled, DeskCall, SliceFits
  <2>7. QED
    BY <2>1, <2>2, <2>3, <2>4, <2>5, <2>6 DEF SettleAdmin, AdminFulfilled
<1>6. QED
  BY <1>1, <1>3, <1>5 DEF DeskInv


\* A step of another tour leaves the cases and the slice.
LEMMA DeskElsewhere ==
  ASSUME DeskInv, tour \notin DeskTours, UNCHANGED <<tour, adminPageVars>>
  PROVE  DeskInv'
BY DEF DeskInv, adminPageVars

\* A call that fails.
LEMMA DeskFails ==
  ASSUME DeskInv, NEW i \in CallSlots, FailThunk(i), UNCHANGED <<tour, adminPageVars>>
  PROVE  DeskInv'
<1>1. CASE tour \in DeskTours
  <2>1. CallsFit /\ (\A j \in CallSlots : DeskCall(calls[j], cases))
    BY <1>1 DEF DeskInv
  <2>2. /\ CallsFit' /\ calls'[i].at = "rejected"
        /\ \A j \in CallSlots : j # i => calls'[j] = calls[j]
    BY <2>1, FailedCall
  <2>3. DeskCall(calls'[i], cases)
    BY <2>2 DEF DeskCall
  <2>4. QED
    BY <2>1, <2>2, <2>3 DEF DeskInv, adminPageVars
<1>2. QED
  BY <1>1, DeskElsewhere

LEMMA DeskInvariant == Spec => []DeskInv
<1>1. Init => DeskInv
  <2> SUFFICES ASSUME Init PROVE DeskInv
    OBVIOUS
  <2>1. SliceFits(adminSlice, cases) /\ cases \in [Cases -> CaseStates]
    BY DEF Init, AdminPagesInit, SliceFits, GrantsFit, CaseStates
  <2>2. CallsFit /\ \A i \in CallSlots : calls[i] = NoThunk
    BY NoThunkFields DEF Init, NothingInFlight, CallsFit
  <2>3. QED
    BY <2>1, <2>2, NoThunkAtDesk DEF DeskInv
<1>2. DeskInv /\ [Next]_vars => DeskInv'
  <2> SUFFICES ASSUME DeskInv, [Next]_vars
               PROVE  DeskInv'
    OBVIOUS
  <2>1. CASE UserActs
    <3>1. CASE tour \in DeskTours
      BY <2>1, <3>1, DeskActs DEF UserActs, DeskTours, ForDesk
    <3>2. CASE tour \notin DeskTours
      BY <2>1, <3>2, DeskElsewhere
      DEF UserActs, DeskTours, ForShop, ForOffers, ForInbox, ForPicture, ForField
    <3>3. QED
      BY <3>1, <3>2
  <2>2. CASE Timers
    BY <2>2, DeskElsewhere DEF Timers, ForShop, ShopTours, DeskTours
  <2>3. ASSUME NEW i \in CallSlots, Serve(i)
        PROVE  DeskInv'
    BY <2>3, DeskServed, DeskElsewhere
    DEF Serve, ForShop, ForOffers, ForDesk, ForInbox, ForPicture, ShopTours, DeskTours
  <2>4. ASSUME NEW i \in CallSlots, Settle(i)
        PROVE  DeskInv'
    BY <2>4, DeskSettled, DeskElsewhere
    DEF Settle, ForShop, ForOffers, ForDesk, ForInbox, ForPicture, ShopTours, DeskTours
  <2>5. ASSUME NEW i \in CallSlots, Fail(i)
        PROVE  DeskInv'
    BY <2>5, DeskFails DEF Fail
  <2>6. CASE UNCHANGED vars
    BY <2>6 DEF vars, DeskInv, CallsFit, adminPageVars
  <2>7. QED
    BY <2>1, <2>2, <2>3, <2>4, <2>5, <2>6 DEF Next
<1>3. QED
  BY <1>1, <1>2, PTL DEF Spec

\* A grant that Access.tsx shows as revoked is revoked, though lists and revocations are
\* answered in any order, another admin revokes too, and any call may be lost.
THEOREM RevokedIsRevoked == Spec => []RevokedShownIsRevoked
<1>1. DeskInv => RevokedShownIsRevoked
  BY DEF DeskInv, SliceFits, GrantsFit, RevokedShownIsRevoked
<1>2. QED
  BY <1>1, DeskInvariant, PTL


-----------------------------------------------------------------------------
(* The seller's pages.  A form's terms are always the ones of its key, and so are those   *)
(* an update carries; a form or dialog that saves owns a call, which only its own landing  *)
(* or a new mount takes away.                                                            *)

Changes == {"createOffer", "updateOffer", "cancelOffer"}

\* FromDialog and FromForm, of a call.
DialogCall(call) == call.thunk = "createOffer" /\ call.arg.from = "browse"
FormCall(call) == call.thunk \in Changes /\ ~DialogCall(call)

OffersFit(held) ==
  /\ DOMAIN held \subseteq Ids
  /\ \A o \in DOMAIN held :
       /\ DOMAIN held[o] = {"request", "status", "terms"}
       /\ held[o].request \in Requests /\ held[o].terms = o

\* The form is on a request's page and only there, seeded from the offer of its key.
FormFits(form, page) ==
  /\ DOMAIN form = {"mounted", "key", "terms", "saving"}
  /\ form.mounted \in BOOLEAN /\ (form.mounted <=> page \in Requests)
  /\ form.key \in Ids \cup {0} /\ form.terms = form.key
  /\ form.saving \in BOOLEAN
  /\ page \notin Requests => form.key = 0 /\ ~form.saving

\* The dialog is Browse's.
DialogFits(dialog, page) ==
  /\ DOMAIN dialog = {"open", "saving"}
  /\ dialog.open \in BOOLEAN /\ dialog.saving \in BOOLEAN
  /\ dialog.open \/ dialog.saving => page = "browse"

SellCall(call) ==
  /\ call.at # None /\ call.thunk \in Changes =>
       call.arg.on \in Requests /\ call.arg.terms = call.arg.offer
  /\ call.at = "fulfilled" /\ call.thunk = "fetchOffersForRequest" => DOMAIN call.data \subseteq Ids

\* The calls in flight, of which some may be the form's or the dialog's.
FlightFits(flight) ==
  /\ DOMAIN flight = CallSlots
  /\ \A i \in CallSlots : DOMAIN flight[i] = ThunkKeys /\ SellCall(flight[i])

SavingAwaited(form, dialog, flight) ==
  /\ form.saving => \E i \in CallSlots : flight[i].own = TRUE /\ FormCall(flight[i])
  /\ dialog.saving => \E i \in CallSlots : flight[i].own = TRUE /\ DialogCall(flight[i])

SellInv ==
  /\ OffersFit(offers)
  /\ DOMAIN forRequest \subseteq Ids
  /\ offerPage \in Requests \cup {"browse", "mine"}
  /\ FormFits(offerForm, offerPage)
  /\ DialogFits(itemDialog, offerPage)
  /\ tour = "offers" => FlightFits(calls) /\ SavingAwaited(offerForm, itemDialog, calls)
  /\ tour # "offers" => ~offerForm.saving /\ ~itemDialog.saving

LEMMA NoThunkSells == SellCall(NoThunk)
BY NoThunkFields, ThunkConstants DEF SellCall

LEMMA OrphanedFits ==
  ASSUME NEW flight, FlightFits(flight)
  PROVE  FlightFits(Orphaned(flight))
<1>1. /\ DOMAIN Orphaned(flight) = CallSlots
      /\ \A i \in CallSlots :
           /\ DOMAIN Orphaned(flight)[i] = ThunkKeys
           /\ Orphaned(flight)[i].thunk = flight[i].thunk
           /\ Orphaned(flight)[i].arg = flight[i].arg
           /\ Orphaned(flight)[i].at = flight[i].at
           /\ Orphaned(flight)[i].data = flight[i].data
  BY OrphanedFields DEF FlightFits
<1>2. QED
  BY <1>1 DEF FlightFits, SellCall

LEMMA DoneFits ==
  ASSUME FlightFits(calls), NEW i \in CallSlots
  PROVE  /\ FlightFits(Done(i)) /\ Done(i)[i] = NoThunk
         /\ \A j \in CallSlots : j # i => Done(i)[j] = calls[j]
BY NoThunkSells, NoThunkFields DEF FlightFits, Done

LEMMA SentFits ==
  ASSUME NEW flight, FlightFits(flight), NEW thunk, NEW arg, thunk \notin Changes
  PROVE  FlightFits(Sent(flight, thunk, arg))
<1> DEFINE call == SentCall(thunk, arg)
<1>1. DOMAIN call = ThunkKeys /\ call.thunk = thunk /\ call.at = "wire"
  BY DEF SentCall, ThunkKeys
<1>2. /\ DOMAIN Sent(flight, thunk, arg) = CallSlots
      /\ \A i \in CallSlots :
           Sent(flight, thunk, arg)[i] = flight[i] \/ Sent(flight, thunk, arg)[i] = call
  BY SentSlots DEF FlightFits
<1> HIDE DEF call
<1>3. SellCall(call)
  BY <1>1 DEF SellCall
<1>4. QED
  BY <1>1, <1>2, <1>3 DEF FlightFits

LEMMA AwaitedFits ==
  ASSUME NEW flight, FlightFits(flight), NEW thunk, NEW arg,
         arg.on \in Requests, arg.terms = arg.offer, thunk \in Changes
  PROVE  FlightFits(Awaited(flight, thunk, arg))
<1> DEFINE call == AwaitedCall(thunk, arg)
<1>1. DOMAIN call = ThunkKeys /\ call.thunk = thunk /\ call.at = "wire" /\ call.arg = arg
  BY DEF AwaitedCall, ThunkKeys
<1>2. /\ DOMAIN Awaited(flight, thunk, arg) = CallSlots
      /\ \A i \in CallSlots :
           Awaited(flight, thunk, arg)[i] = flight[i] \/ Awaited(flight, thunk, arg)[i] = call
  BY AwaitedSlots DEF FlightFits
<1> HIDE DEF call
<1>3. SellCall(call)
  BY <1>1, ThunkConstants DEF SellCall, Changes
<1>4. QED
  BY <1>1, <1>2, <1>3 DEF FlightFits

\* A dispatch to a free slot takes no call away that a form or dialog waits for.
LEMMA SentKeepsWaits ==
  ASSUME NEW flight, FlightFits(flight), NEW form, NEW dialog,
         SavingAwaited(form, dialog, flight), NEW thunk, NEW arg,
         NEW free \in CallSlots, flight[free] = NoThunk
  PROVE  SavingAwaited(form, dialog, Sent(flight, thunk, arg))
<1>0. DOMAIN flight = CallSlots
  BY DEF FlightFits
<1>1. PICK s \in CallSlots :
        /\ flight[s] = NoThunk /\ Sent(flight, thunk, arg)[s] = SentCall(thunk, arg)
        /\ \A j \in CallSlots : j # s => Sent(flight, thunk, arg)[j] = flight[j]
  BY <1>0, SentTakesFree
<1>2. \A j \in CallSlots :
        flight[j].own = TRUE => Sent(flight, thunk, arg)[j] = flight[j]
  BY <1>1, NoThunkFields
<1>3. QED
  BY <1>2 DEF SavingAwaited


\* Drawing a page again gives a form that fits it, and one that saves only if it is the
\* same form.
LEMMA RekeyedFits ==
  ASSUME FormFits(offerForm, offerPage), NEW p \in Requests \cup {"browse", "mine"},
         NEW held, DOMAIN held \subseteq Ids
  PROVE  /\ FormFits(Rekeyed(p, held), p)
         /\ Rekeyed(p, held).saving => Rekeyed(p, held) = offerForm
<1> DEFINE key == MyOffer(held)
<1>1. key \in Ids \cup {0}
  BY DEF MyOffer
<1> HIDE DEF key
<1>2. FormFits(Mounted(key), p) \/ p \notin Requests
  BY <1>1 DEF FormFits, Mounted
<1>3. Mounted(key).saving = FALSE /\ Unmounted.saving = FALSE
  BY DEF Mounted, Unmounted
<1>4. FormFits(Unmounted, p) \/ p \in Requests
  BY DEF FormFits, Unmounted
<1>5. FormFits(offerForm, p) \/ p \notin Requests \/ ~offerForm.mounted
  BY DEF FormFits
<1>6. CASE p \notin Requests
  BY <1>3, <1>4, <1>6 DEF Rekeyed, OnDetail
<1>7. CASE p \in Requests /\ offerForm.mounted /\ offerForm.key = key
  BY <1>5, <1>7 DEF Rekeyed, OnDetail, key
<1>8. CASE p \in Requests /\ ~(offerForm.mounted /\ offerForm.key = key)
  <2>1. Rekeyed(p, held) = Mounted(key)
    BY <1>8 DEF Rekeyed, OnDetail, key
  <2>2. QED
    BY <1>2, <1>3, <1>8, <2>1
<1>9. QED
  BY <1>6, <1>7, <1>8

\* The slice's answer is drawn: whoever still waits owns its call still.
LEMMA OrphansKeepWaits ==
  ASSUME FormFits(offerForm, offerPage), NEW p \in Requests \cup {"browse", "mine"},
         FormFits(offerForm', p), DialogFits(itemDialog, offerPage), NEW dialog,
         dialog.saving => itemDialog.saving /\ p = "browse",
         offerForm'.saving =>
           /\ offerForm.saving
           /\ offerForm'.mounted = offerForm.mounted /\ offerForm'.key = offerForm.key,
         NEW flight, FlightFits(flight), SavingAwaited(offerForm', dialog, flight)
  PROVE  FlightFits(Orphans(flight)) /\ SavingAwaited(offerForm', dialog, Orphans(flight))
<1>1. CASE offerForm'.mounted = offerForm.mounted /\ offerForm'.key = offerForm.key
  BY <1>1 DEF Orphans
<1>2. CASE ~(offerForm'.mounted = offerForm.mounted /\ offerForm'.key = offerForm.key)
  <2>1. Orphans(flight) = Orphaned(flight) /\ ~offerForm'.saving
    BY <1>2 DEF Orphans
  <2>2. ~dialog.saving
    BY <1>2, OfferPageConstants DEF FormFits, DialogFits
  <2>3. QED
    BY <2>1, <2>2, OrphanedFits DEF SavingAwaited
<1>3. QED
  BY <1>1, <1>2


\* Moving between the pages.
LEMMA SellMoves ==
  ASSUME SellInv, tour = "offers", UNCHANGED tour,
         GoBrowse \/ GoMine \/ \E r \in Requests : OpenRequest(r)
  PROVE  SellInv'
<1>1. /\ FlightFits(calls) /\ FormFits(offerForm, offerPage) /\ DOMAIN forRequest \subseteq Ids
      /\ DialogFits(itemDialog, offerPage) /\ FlightFits(Orphaned(calls))
  BY OrphanedFits DEF SellInv
<1>2. PICK p \in Requests \cup {"browse", "mine"} :
        Drawn(p, forRequest) /\ (p \in Requests => offerPage \notin Requests)
  BY OfferPageConstants DEF GoBrowse, GoMine, OpenRequest, OnDetail
<1>3. UNCHANGED offers /\ forRequest' = forRequest /\ offerPage' = p
      /\ offerForm' = Rekeyed(p, forRequest)
  BY <1>2 DEF Drawn, GoBrowse, GoMine, OpenRequest
<1>4. FormFits(offerForm', p) /\ (offerForm'.saving => offerForm' = offerForm)
  BY <1>1, <1>3, RekeyedFits
<1>5. ~offerForm'.saving
  BY <1>1, <1>2, <1>4 DEF FormFits
<1>6. \/ itemDialog' = NoItemDialog
      \/ itemDialog' = itemDialog /\ p = "browse" /\ offerPage # "browse"
  BY <1>3, OfferPageConstants DEF GoBrowse, GoMine, OpenRequest, Drawn
<1>7. DialogFits(itemDialog', p) /\ ~itemDialog'.saving
  <2>1. CASE itemDialog' = NoItemDialog
    BY <2>1 DEF DialogFits, NoItemDialog
  <2>2. CASE itemDialog' = itemDialog /\ p = "browse" /\ offerPage # "browse"
    BY <1>1, <2>2 DEF DialogFits
  <2>3. QED
    BY <1>6, <2>1, <2>2
<1>8. FlightFits(calls')
  <2>1. CASE calls' = Orphaned(calls)
    BY <1>1, <2>1
  <2>2. CASE calls' = Sent(Orphaned(calls), "fetchMyOffers", None)
    BY <1>1, <2>2, SentFits DEF Changes
  <2>3. ASSUME NEW r \in Requests,
               calls' = Sent(Orphaned(calls), "fetchOffersForRequest", r)
        PROVE  FlightFits(calls')
    BY <1>1, <2>3, SentFits DEF Changes
  <2>4. QED
    BY <2>1, <2>2, <2>3 DEF GoBrowse, GoMine, OpenRequest
<1>9. SavingAwaited(offerForm', itemDialog', calls')
  BY <1>5, <1>7 DEF SavingAwaited
<1>10. QED
  BY <1>1, <1>3, <1>4, <1>7, <1>8, <1>9 DEF SellInv

\* OfferForm's buttons.
LEMMA FormActs ==
  ASSUME SellInv, tour = "offers", UNCHANGED tour, SubmitOffer \/ Withdraw
  PROVE  SellInv'
<1>1. FlightFits(calls) /\ FormFits(offerForm, offerPage) /\ DialogFits(itemDialog, offerPage)
  BY DEF SellInv
<1>2. PICK thunk \in Changes : Act(thunk)
  BY DEF SubmitOffer, Withdraw, Changes
<1>3. /\ UNCHANGED <<offers, forRequest, offerPage, itemDialog>>
      /\ offerPage \in Requests /\ Room
      /\ offerForm' = [offerForm EXCEPT !.saving = TRUE]
  BY <1>2 DEF Act, OnDetail
<1> DEFINE arg == [from |-> offerPage, on |-> offerPage, offer |-> offerForm.key,
                   terms |-> offerForm.terms]
<1>4. calls' = Awaited(calls, thunk, arg)
  BY <1>2 DEF Act
<1>5. arg.on \in Requests /\ arg.terms = arg.offer /\ arg.from # "browse"
  BY <1>1, <1>3, OfferPageConstants DEF FormFits
<1> HIDE DEF arg
<1>6. FlightFits(calls')
  BY <1>1, <1>4, <1>5, AwaitedFits
<1>7. FormFits(offerForm', offerPage') /\ ~itemDialog'.saving
  BY <1>1, <1>3, OfferPageConstants DEF FormFits, DialogFits
<1>8. \E s \in CallSlots : calls'[s] = AwaitedCall(thunk, arg)
  <2>1. PICK free \in CallSlots : calls[free] = NoThunk
    BY <1>3, RoomIsFree
  <2>2. DOMAIN calls = CallSlots
    BY <1>1 DEF FlightFits
  <2>3. \E s \in CallSlots :
          /\ calls[s] = NoThunk /\ Awaited(calls, thunk, arg)[s] = AwaitedCall(thunk, arg)
          /\ \A j \in CallSlots : j # s => Awaited(calls, thunk, arg)[j] = calls[j]
    BY <2>1, <2>2, AwaitedTakesFree
  <2>4. QED
    BY <1>4, <2>3
<1>9. AwaitedCall(thunk, arg).own = TRUE /\ FormCall(AwaitedCall(thunk, arg))
  <2>1. /\ AwaitedCall(thunk, arg).own = TRUE /\ AwaitedCall(thunk, arg).thunk = thunk
        /\ AwaitedCall(thunk, arg).arg = arg
    BY DEF AwaitedCall
  <2>2. QED
    BY <1>5, <2>1 DEF FormCall, DialogCall
<1>10. SavingAwaited(offerForm', itemDialog', calls')
  BY <1>7, <1>8, <1>9 DEF SavingAwaited
<1>11. QED
  BY <1>3, <1>6, <1>7, <1>10 DEF SellInv

\* The dialog on Browse.
LEMMA ItemActs ==
  ASSUME SellInv, tour = "offers", UNCHANGED tour,
         ToggleItemDialog \/ \E r \in Requests : SubmitItem(r)
  PROVE  SellInv'
<1>1. /\ FlightFits(calls) /\ FormFits(offerForm, offerPage) /\ DialogFits(itemDialog, offerPage)
      /\ SavingAwaited(offerForm, itemDialog, calls)
  BY DEF SellInv
<1>2. UNCHANGED <<offers, forRequest, offerPage, offerForm>>
  BY DEF ToggleItemDialog, SubmitItem
<1>3. CASE ToggleItemDialog
  <2>1. calls' = calls /\ itemDialog' = [itemDialog EXCEPT !.open = ~@] /\ offerPage = "browse"
    BY <1>3 DEF ToggleItemDialog
  <2>2. DialogFits(itemDialog', offerPage') /\ itemDialog'.saving = itemDialog.saving
    BY <1>1, <1>2, <2>1 DEF DialogFits
  <2>3. QED
    BY <1>1, <1>2, <2>1, <2>2 DEF SellInv, SavingAwaited
<1>4. ASSUME NEW r \in Requests, SubmitItem(r)
      PROVE  SellInv'
  <2> DEFINE arg == [from |-> "browse", on |-> r, offer |-> 0, terms |-> 0]
  <2>1. /\ calls' = Awaited(calls, "createOffer", arg) /\ Room /\ itemDialog.open
        /\ itemDialog' = [itemDialog EXCEPT !.saving = TRUE]
    BY <1>4 DEF SubmitItem
  <2>2. arg.on \in Requests /\ arg.terms = arg.offer /\ arg.from = "browse"
    BY <1>4
  <2> HIDE DEF arg
  <2>3. FlightFits(calls')
    BY <1>1, <2>1, <2>2, AwaitedFits DEF Changes
  <2>4. offerPage = "browse" /\ DialogFits(itemDialog', offerPage') /\ ~offerForm.saving
    BY <1>1, <1>2, <2>1, OfferPageConstants DEF DialogFits, FormFits
  <2>5. \E s \in CallSlots : calls'[s] = AwaitedCall("createOffer", arg)
    <3>1. PICK free \in CallSlots : calls[free] = NoThunk
      BY <2>1, RoomIsFree
    <3>2. DOMAIN calls = CallSlots
      BY <1>1 DEF FlightFits
    <3>3. \E s \in CallSlots :
            /\ calls[s] = NoThunk
            /\ Awaited(calls, "createOffer", arg)[s] = AwaitedCall("createOffer", arg)
            /\ \A j \in CallSlots : j # s => Awaited(calls, "createOffer", arg)[j] = calls[j]
      BY <3>1, <3>2, AwaitedTakesFree
    <3>4. QED
      BY <2>1, <3>3
  <2>6. AwaitedCall("createOffer", arg).own = TRUE /\ DialogCall(AwaitedCall("createOffer", arg))
    BY <2>2 DEF AwaitedCall, DialogCall
  <2>7. SavingAwaited(offerForm', itemDialog', calls')
    BY <1>2, <2>4, <2>5, <2>6 DEF SavingAwaited
  <2>8. QED
    BY <1>1, <1>2, <2>3, <2>4, <2>7 DEF SellInv
<1>5. QED
  BY <1>3, <1>4

\* An admin's decision.
LEMMA OfferDecided ==
  ASSUME SellInv, tour = "offers", UNCHANGED tour, NEW o \in DOMAIN offers, DecideOffer(o)
  PROVE  SellInv'
<1>1. OffersFit(offers')
  BY DEF SellInv, DecideOffer, OffersFit
<1>2. UNCHANGED <<calls, forRequest, offerPage, offerForm, itemDialog>>
  BY DEF DecideOffer
<1>3. QED
  BY <1>1, <1>2 DEF SellInv


\* An answer that stays in its slot keeps its owner, and whoever waits waits on.
LEMMA StampFits ==
  ASSUME FlightFits(calls), NEW i \in CallSlots, calls[i].at # None,
         NEW at \in {"fulfilled", "rejected"}, NEW data,
         calls' = [calls EXCEPT ![i].at = at, ![i].data = data],
         at = "fulfilled" /\ calls[i].thunk = "fetchOffersForRequest" => DOMAIN data \subseteq Ids,
         SavingAwaited(offerForm, itemDialog, calls)
  PROVE  FlightFits(calls') /\ SavingAwaited(offerForm, itemDialog, calls')
<1>1. /\ DOMAIN calls' = CallSlots /\ calls'[i].at = at /\ calls'[i].data = data
      /\ \A j \in CallSlots :
           /\ DOMAIN calls'[j] = ThunkKeys
           /\ calls'[j].thunk = calls[j].thunk /\ calls'[j].arg = calls[j].arg
           /\ calls'[j].own = calls[j].own
           /\ j # i => calls'[j] = calls[j]
  BY DEF FlightFits, ThunkKeys
<1>2. SellCall(calls'[i])
  BY <1>1 DEF FlightFits, SellCall
<1>3. FlightFits(calls')
  BY <1>1, <1>2 DEF FlightFits
<1>4. QED
  BY <1>1, <1>3 DEF SavingAwaited, FormCall, DialogCall

\* offer-service's answers.
LEMMA SellServed ==
  ASSUME SellInv, tour = "offers", UNCHANGED tour, NEW i \in CallSlots, ServeOffers(i)
  PROVE  SellInv'
<1>1. /\ FlightFits(calls) /\ SavingAwaited(offerForm, itemDialog, calls) /\ OffersFit(offers)
      /\ UNCHANGED <<forRequest, offerPage, offerForm, itemDialog>>
  BY DEF SellInv, ServeOffers
<1>2. calls[i].at = "wire" /\ calls[i].at # None
  BY ThunkConstants DEF ServeOffers, ServeOfferRead, ServeCreate, ServeChange, On
<1>3. OffersFit(offers')
  <2>1. CASE offers' = offers
    BY <1>1, <2>1
  <2>2. CASE ServeCreate(i) /\ offers' # offers
    <3> DEFINE id == Cardinality(DOMAIN offers) + 1
               new == [request |-> calls[i].arg.on, status |-> "PENDING", terms |-> id]
    <3>1. /\ id \in Ids /\ calls[i].thunk = "createOffer"
          /\ offers' = [o \in DOMAIN offers \cup {id} |-> IF o = id THEN new ELSE offers[o]]
      BY <2>2 DEF ServeCreate, On
    <3>2. calls[i].arg.on \in Requests
      BY <1>1, <1>2, <3>1 DEF FlightFits, SellCall, Changes
    <3>3. /\ DOMAIN new = {"request", "status", "terms"} /\ new.terms = id
          /\ new.request \in Requests
      BY <3>2
    <3> HIDE DEF id, new
    <3>4. QED
      BY <1>1, <3>1, <3>3 DEF OffersFit
  <2>3. CASE ServeChange(i) /\ offers' # offers
    <3> DEFINE o == calls[i].arg.offer
    <3>1. calls[i].arg.terms = o
      BY <1>1, <1>2, <2>3 DEF FlightFits, SellCall, Changes, ServeChange, On
    <3>2. \/ offers' = [offers EXCEPT ![o].terms = o]
          \/ offers' = [offers EXCEPT ![o].status = "CLOSED"]
      BY <2>3, <3>1 DEF ServeChange
    <3> HIDE DEF o
    <3>3. CASE offers' = [offers EXCEPT ![o].terms = o]
      BY <1>1, <3>3 DEF OffersFit
    <3>4. CASE offers' = [offers EXCEPT ![o].status = "CLOSED"]
      BY <1>1, <3>4 DEF OffersFit
    <3>5. QED
      BY <3>2, <3>3, <3>4
  <2>4. QED
    BY <2>1, <2>2, <2>3 DEF ServeOffers, ServeOfferRead
<1>4. \E at \in {"fulfilled", "rejected"} : \E data :
        /\ calls' = [calls EXCEPT ![i].at = at, ![i].data = data]
        /\ at = "fulfilled" /\ calls[i].thunk = "fetchOffersForRequest" => DOMAIN data \subseteq Ids
  <2>1. CASE On(i, "fetchOffersForRequest") /\ Answer(i, Statuses(OffersOn(calls[i].arg)))
    <3>1. DOMAIN Statuses(OffersOn(calls[i].arg)) \subseteq Ids
      BY <1>1 DEF Statuses, OffersOn, OffersFit
    <3>2. QED
      BY <2>1, <3>1 DEF Answer
  <2>2. CASE calls[i].thunk # "fetchOffersForRequest"
    BY <2>2 DEF ServeOffers, ServeOfferRead, ServeCreate, ServeChange, On, Answer, Refuse
  <2>3. QED
    BY <2>1, <2>2 DEF ServeOffers, ServeOfferRead, ServeCreate, ServeChange, On
<1>5. PICK at \in {"fulfilled", "rejected"} : \E data :
        /\ calls' = [calls EXCEPT ![i].at = at, ![i].data = data]
        /\ at = "fulfilled" /\ calls[i].thunk = "fetchOffersForRequest" => DOMAIN data \subseteq Ids
  BY <1>4
<1>6. PICK data :
        /\ calls' = [calls EXCEPT ![i].at = at, ![i].data = data]
        /\ at = "fulfilled" /\ calls[i].thunk = "fetchOffersForRequest" => DOMAIN data \subseteq Ids
  BY <1>5
<1>7. FlightFits(calls') /\ SavingAwaited(offerForm, itemDialog, calls')
  BY <1>1, <1>2, <1>6, StampFits
<1>8. QED
  BY <1>1, <1>3, <1>7 DEF SellInv


LEMMA OrphansKeepFree ==
  ASSUME NEW flight, NEW s \in CallSlots, flight[s] = NoThunk
  PROVE  Orphans(flight)[s] = NoThunk
BY OrphanedKeepsFree DEF Orphans

\* A call that lands is nobody's any more; the others' waits go on.
LEMMA LandingKeepsWaits ==
  ASSUME FlightFits(calls), NEW i \in CallSlots, SavingAwaited(offerForm, itemDialog, calls),
         NEW form, NEW dialog,
         form.saving => offerForm.saving /\ ~(calls[i].own = TRUE /\ FormCall(calls[i])),
         dialog.saving => itemDialog.saving /\ ~(calls[i].own = TRUE /\ DialogCall(calls[i]))
  PROVE  SavingAwaited(form, dialog, Done(i))
<1>1. \A j \in CallSlots : j # i => Done(i)[j] = calls[j]
  BY DoneFits
<1>2. QED
  BY <1>1 DEF SavingAwaited

LEMMA CallSenders ==
  ASSUME NEW i \in CallSlots
  PROVE  (FromForm(i) <=> FormCall(calls[i])) /\ (FromDialog(i) <=> DialogCall(calls[i]))
BY DEF FromForm, FromDialog, FormCall, DialogCall, Changes

\* The reads.
LEMMA ReadSettles ==
  ASSUME SellInv, tour = "offers", UNCHANGED tour, NEW i \in CallSlots, OffersRead(i)
  PROVE  SellInv'
<1>1. /\ FlightFits(calls) /\ SavingAwaited(offerForm, itemDialog, calls)
      /\ FormFits(offerForm, offerPage) /\ DialogFits(itemDialog, offerPage)
      /\ offerPage \in Requests \cup {"browse", "mine"}
  BY DEF SellInv
<1>2. UNCHANGED <<offers, itemDialog>> /\ offerPage' = offerPage /\ calls' = Orphans(Done(i))
  BY DEF OffersRead, Drawn
<1>3. DOMAIN forRequest' \subseteq Ids /\ FormFits(offerForm', offerPage)
      /\ (offerForm'.saving => offerForm' = offerForm)
  <2>1. CASE Fulfilled(i, "fetchOffersForRequest") /\ Drawn(offerPage, calls[i].data)
    <3>1. DOMAIN calls[i].data \subseteq Ids
      BY <1>1, <2>1 DEF FlightFits, SellCall, Fulfilled
    <3>2. QED
      BY <1>1, <2>1, <3>1, RekeyedFits DEF Drawn
  <2>2. CASE UNCHANGED <<forRequest, offerPage, offerForm>>
    BY <1>1, <2>2 DEF SellInv
  <2>3. QED
    BY <2>1, <2>2 DEF OffersRead
<1>4. ~FormCall(calls[i]) /\ ~DialogCall(calls[i])
  BY DEF OffersRead, Fulfilled, FormCall, DialogCall, Changes
<1>5. FlightFits(Done(i)) /\ SavingAwaited(offerForm', itemDialog, Done(i))
  BY <1>1, <1>3, <1>4, DoneFits, LandingKeepsWaits
<1>6. itemDialog.saving => offerPage = "browse"
  BY <1>1 DEF DialogFits
<1>7. FlightFits(Orphans(Done(i))) /\ SavingAwaited(offerForm', itemDialog, Orphans(Done(i)))
  BY <1>1, <1>3, <1>5, <1>6, OrphansKeepWaits
<1>8. QED
  BY <1>1, <1>2, <1>3, <1>7 DEF SellInv

\* What the form sent is accepted: the form is drawn over the new slice.
LEMMA ChangeSettles ==
  ASSUME SellInv, tour = "offers", UNCHANGED tour, NEW i \in CallSlots, OfferChanged(i)
  PROVE  SellInv'
<1>1. /\ FlightFits(calls) /\ SavingAwaited(offerForm, itemDialog, calls)
      /\ FormFits(offerForm, offerPage) /\ DialogFits(itemDialog, offerPage)
      /\ offerPage \in Requests \cup {"browse", "mine"} /\ DOMAIN forRequest \subseteq Ids
  BY DEF SellInv
<1>2. /\ UNCHANGED <<offers, offerPage, itemDialog>> /\ forRequest' = AfterChange(i)
      /\ calls' = Sent(Orphans(Done(i)), "fetchOffersForRequest", calls[i].arg.from)
      /\ FromForm(i)
  BY DEF OfferChanged
<1>3. DOMAIN forRequest' \subseteq Ids
  BY <1>1, <1>2 DEF AfterChange, Restrict
<1> DEFINE drawn == Rekeyed(offerPage, forRequest')
<1>4. FormFits(drawn, offerPage) /\ (drawn.saving => drawn = offerForm)
  BY <1>1, <1>3, RekeyedFits
<1>5. offerForm' = [drawn EXCEPT !.saving = @ /\ ~FormReleased(i)]
  BY DEF OfferChanged
<1> HIDE DEF drawn
<1>6. FormFits(offerForm', offerPage)
  BY <1>4, <1>5 DEF FormFits
<1>7. offerForm'.saving =>
        /\ offerForm.saving /\ ~(calls[i].own = TRUE /\ FormCall(calls[i]))
        /\ offerForm'.mounted = offerForm.mounted /\ offerForm'.key = offerForm.key
  BY <1>2, <1>4, <1>5, CallSenders DEF FormFits, FormReleased
<1>8. ~DialogCall(calls[i]) /\ (itemDialog.saving => offerPage = "browse")
  BY <1>1, <1>2, CallSenders DEF DialogFits, FormCall
<1>9. FlightFits(Done(i)) /\ SavingAwaited(offerForm', itemDialog, Done(i))
  BY <1>1, <1>7, <1>8, DoneFits, LandingKeepsWaits
<1>10. FlightFits(Orphans(Done(i))) /\ SavingAwaited(offerForm', itemDialog, Orphans(Done(i)))
  BY <1>1, <1>6, <1>7, <1>8, <1>9, OrphansKeepWaits
<1>11. Orphans(Done(i))[i] = NoThunk
  BY <1>1, DoneFits, OrphansKeepFree
<1>12. FlightFits(calls')
  BY <1>2, <1>10, SentFits DEF Changes
<1>13. SavingAwaited(offerForm', itemDialog, calls')
  BY <1>2, <1>10, <1>11, SentKeepsWaits
<1>14. QED
  BY <1>1, <1>2, <1>3, <1>6, <1>12, <1>13 DEF SellInv

\* The dialog goes on to the page of the request its offer is on.
LEMMA ItemSettles ==
  ASSUME SellInv, tour = "offers", UNCHANGED tour, NEW i \in CallSlots, ItemOffered(i)
  PROVE  SellInv'
<1>1. /\ FlightFits(calls) /\ SavingAwaited(offerForm, itemDialog, calls)
      /\ FormFits(offerForm, offerPage) /\ DialogFits(itemDialog, offerPage)
      /\ DOMAIN forRequest \subseteq Ids
  BY DEF SellInv
<1>2. /\ UNCHANGED offers /\ itemDialog' = NoItemDialog
      /\ calls' = Sent(Orphans(Done(i)), "fetchOffersForRequest", calls[i].arg.on)
      /\ FromDialog(i) /\ calls[i].at \in {"fulfilled", "rejected"}
  BY DEF ItemOffered
<1>3. PICK p \in Requests : p = calls[i].arg.on
  BY <1>1, <1>2, ThunkConstants DEF FlightFits, SellCall, FromDialog, Changes
<1>4. forRequest' = forRequest /\ offerPage' = p /\ offerForm' = Rekeyed(p, forRequest)
  BY <1>2, <1>3 DEF ItemOffered, Drawn, AfterChange, FromDialog
<1>5. FormFits(offerForm', p) /\ (offerForm'.saving => offerForm' = offerForm)
  BY <1>1, <1>4, RekeyedFits
<1>6. ~NoItemDialog.saving /\ DialogFits(NoItemDialog, p)
  BY DEF DialogFits, NoItemDialog
<1>7. ~FormCall(calls[i])
  BY <1>2, CallSenders DEF FormCall
<1>8. FlightFits(Done(i)) /\ SavingAwaited(offerForm', NoItemDialog, Done(i))
  BY <1>1, <1>5, <1>6, <1>7, DoneFits, LandingKeepsWaits
<1>9. FlightFits(Orphans(Done(i))) /\ SavingAwaited(offerForm', NoItemDialog, Orphans(Done(i)))
  BY <1>1, <1>5, <1>6, <1>8, OrphansKeepWaits
<1>10. Orphans(Done(i))[i] = NoThunk
  BY <1>1, DoneFits, OrphansKeepFree
<1>11. FlightFits(calls')
  BY <1>2, <1>9, SentFits DEF Changes
<1>12. SavingAwaited(offerForm', NoItemDialog, calls')
  BY <1>2, <1>9, <1>10, SentKeepsWaits
<1>13. QED
  BY <1>1, <1>2, <1>4, <1>5, <1>6, <1>11, <1>12 DEF SellInv

\* A rejection ends the saving of the one who waits for it.
LEMMA RejectionSettles ==
  ASSUME SellInv, tour = "offers", UNCHANGED tour, NEW i \in CallSlots, OfferRejected(i)
  PROVE  SellInv'
<1>1. /\ FlightFits(calls) /\ SavingAwaited(offerForm, itemDialog, calls)
      /\ FormFits(offerForm, offerPage) /\ DialogFits(itemDialog, offerPage)
  BY DEF SellInv
<1>2. /\ UNCHANGED <<offers, forRequest, offerPage>> /\ calls' = Done(i)
      /\ offerForm' = [offerForm EXCEPT !.saving = @ /\ ~FormReleased(i)]
      /\ itemDialog' = [itemDialog EXCEPT !.saving = @ /\ ~(FromDialog(i) /\ calls[i].own)]
  BY DEF OfferRejected
<1>3. /\ FormFits(offerForm', offerPage)
      /\ offerForm'.saving => offerForm.saving /\ ~(calls[i].own = TRUE /\ FormCall(calls[i]))
  BY <1>1, <1>2, CallSenders DEF FormFits, FormReleased
<1>4. /\ DialogFits(itemDialog', offerPage)
      /\ itemDialog'.saving => itemDialog.saving /\ ~(calls[i].own = TRUE /\ DialogCall(calls[i]))
  BY <1>1, <1>2, CallSenders DEF DialogFits
<1>5. FlightFits(Done(i)) /\ SavingAwaited(offerForm', itemDialog', Done(i))
  BY <1>1, <1>3, <1>4, DoneFits, LandingKeepsWaits
<1>6. QED
  BY <1>1, <1>2, <1>3, <1>4, <1>5 DEF SellInv


\* A step of another tour leaves the offers' slice and pages.
LEMMA SellElsewhere ==
  ASSUME SellInv, tour # "offers", UNCHANGED <<tour, offerPageVars>>
  PROVE  SellInv'
BY DEF SellInv, offerPageVars

\* A call that fails still reaches its form.
LEMMA SellFails ==
  ASSUME SellInv, NEW i \in CallSlots, FailThunk(i), UNCHANGED <<tour, offerPageVars>>
  PROVE  SellInv'
<1>1. CASE tour = "offers"
  <2>1. /\ FlightFits(calls) /\ SavingAwaited(offerForm, itemDialog, calls)
        /\ UNCHANGED <<offers, forRequest, offerPage, offerForm, itemDialog>>
    BY <1>1 DEF SellInv, offerPageVars
  <2>2. /\ calls' = [calls EXCEPT ![i].at = "rejected", ![i].data = None]
        /\ calls[i].at # None
    BY ThunkConstants DEF FailThunk, Refuse
  <2>3. FlightFits(calls') /\ SavingAwaited(offerForm, itemDialog, calls')
    BY <2>1, <2>2, StampFits
  <2>4. QED
    BY <2>1, <2>3 DEF SellInv
<1>2. QED
  BY <1>1, SellElsewhere

LEMMA SellInvariant == Spec => []SellInv
<1>1. Init => SellInv
  <2> SUFFICES ASSUME Init PROVE SellInv
    OBVIOUS
  <2>1. OffersFit(offers)
    <3> DEFINE first == CHOOSE r \in Requests : TRUE
    <3>1. first \in Requests /\ 1 \in Ids
      BY OfferPageConstants DEF Ids
    <3>2. offers = [o \in {1} |-> [request |-> first, status |-> "PENDING", terms |-> 1]]
      BY DEF Init, OfferPagesInit
    <3> HIDE DEF first
    <3>3. QED
      BY <3>1, <3>2 DEF OffersFit
  <2>2. DOMAIN forRequest \subseteq Ids /\ offerPage = "browse"
    BY DEF Init, OfferPagesInit, NoOffers
  <2>3. FormFits(offerForm, offerPage) /\ ~offerForm.saving
    BY <2>2, OfferPageConstants DEF Init, OfferPagesInit, FormFits, Unmounted
  <2>4. DialogFits(itemDialog, offerPage) /\ ~itemDialog.saving
    BY DEF Init, OfferPagesInit, DialogFits, NoItemDialog
  <2>5. FlightFits(calls)
    BY NoThunkFields, NoThunkSells DEF Init, NothingInFlight, FlightFits
  <2>6. QED
    BY <2>1, <2>2, <2>3, <2>4, <2>5 DEF SellInv, SavingAwaited
<1>2. SellInv /\ [Next]_vars => SellInv'
  <2> SUFFICES ASSUME SellInv, [Next]_vars
               PROVE  SellInv'
    OBVIOUS
  <2>1. CASE UserActs
    <3>1. CASE tour = "offers"
      <4>1. SellerActs /\ UNCHANGED tour
        BY <2>1, <3>1 DEF UserActs, ForOffers
      <4>2. CASE GoBrowse \/ GoMine \/ \E r \in Requests : OpenRequest(r)
        BY <3>1, <4>1, <4>2, SellMoves
      <4>3. CASE SubmitOffer \/ Withdraw
        BY <3>1, <4>1, <4>3, FormActs
      <4>4. CASE ToggleItemDialog \/ \E r \in Requests : SubmitItem(r)
        BY <3>1, <4>1, <4>4, ItemActs
      <4>5. CASE \E o \in DOMAIN offers : DecideOffer(o)
        BY <3>1, <4>1, <4>5, OfferDecided
      <4>6. QED
        BY <4>1, <4>2, <4>3, <4>4, <4>5 DEF SellerActs, OfferOnThis
    <3>2. CASE tour # "offers"
      BY <2>1, <3>2, SellElsewhere
      DEF UserActs, ForShop, ForDesk, ForInbox, ForPicture, ForField
    <3>3. QED
      BY <3>1, <3>2
  <2>2. CASE Timers
    BY <2>2, SellElsewhere DEF Timers, ForShop, ShopTours
  <2>3. ASSUME NEW i \in CallSlots, Serve(i)
        PROVE  SellInv'
    BY <2>3, SellServed, SellElsewhere
    DEF Serve, ForShop, ForOffers, ForDesk, ForInbox, ForPicture, ShopTours, DeskTours
  <2>4. ASSUME NEW i \in CallSlots, Settle(i)
        PROVE  SellInv'
    <3>1. CASE tour = "offers"
      <4>1. SettleOffers(i) /\ UNCHANGED tour
        BY <2>4, <3>1 DEF Settle, ForOffers, ShopTours, DeskTours
      <4>2. QED
        BY <3>1, <4>1, ReadSettles, ChangeSettles, ItemSettles, RejectionSettles
        DEF SettleOffers
    <3>2. CASE tour # "offers"
      BY <2>4, <3>2, SellElsewhere DEF Settle, ForShop, ForDesk, ForInbox, ForPicture
    <3>3. QED
      BY <3>1, <3>2
  <2>5. ASSUME NEW i \in CallSlots, Fail(i)
        PROVE  SellInv'
    BY <2>5, SellFails DEF Fail
  <2>6. CASE UNCHANGED vars
    BY <2>6 DEF vars, SellInv, offerPageVars
  <2>7. QED
    BY <2>1, <2>2, <2>3, <2>4, <2>5, <2>6 DEF Next
<1>3. QED
  BY <1>1, <1>2, PTL DEF Spec

\* RequestDetail.tsx keys the form on the offer it found: an update writes only terms that
\* were seeded from the offer it goes to, whatever was answered, refused or lost between.
THEOREM TermsStayWithTheirOffer == Spec => []TermsGoToTheirOffer
<1>1. SellInv => TermsGoToTheirOffer
  BY DEF SellInv, OffersFit, TermsGoToTheirOffer
<1>2. QED
  BY <1>1, SellInvariant, PTL

\* The buttons of OfferForm and of OfferOnANewItemDialog are never left disabled: while one
\* is saving, its call is in flight and still its own.
THEOREM OfferSavingEnds == Spec => []OfferSavingIsAwaited
<1>1. SellInv => OfferSavingIsAwaited
  <2> SUFFICES ASSUME SellInv PROVE OfferSavingIsAwaited
    OBVIOUS
  <2>1. SavingAwaited(offerForm, itemDialog, calls)
    BY DEF SellInv, SavingAwaited
  <2>2. QED
    BY <2>1, CallSenders DEF SavingAwaited, OfferSavingIsAwaited
<1>2. QED
  BY <1>1, SellInvariant, PTL
=============================================================================
