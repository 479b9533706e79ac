----------------------------- MODULE ShopProofs -----------------------------
(***************************************************************************)
(* Proofs about the customer's pages of StorePages, for any number of calls  *)
(* in flight and any items: what is listed once, what is awaited, and that    *)
(* what a timer asks for is what is typed.  With the inbox and the picture     *)
(* field they complete the types of all the pages.                           *)
(***************************************************************************)
EXTENDS PagesProofs, PictureProofs

Participations == {"joinRequest", "updateQuantity", "leaveRequest"}

DemandFits(d) ==
  /\ DOMAIN d = {"exists", "on", "made"}
  /\ d.on \subseteq d.exists /\ d.made \subseteq d.exists /\ d.exists \subseteq Items

\* The services only add requests, so what an answer says of one stays true.
ShopCall(call, d) ==
  /\ call.own = TRUE => call.thunk \in {"createRequest", "joinRequest"}
  /\ call.at = "wire" =>
       /\ call.thunk \in {"createRequest", "fetchRequest"} => call.arg \in Items
       /\ call.thunk \in Participations => call.arg.item \in d.exists
  /\ call.at = "fulfilled" =>
       /\ call.thunk \in {"fetchRequest"} \cup Participations => call.data \in Items
       /\ call.thunk = "createRequest" => call.data \in d.made
       /\ call.thunk = "fetchSimilarRequests" =>
            call.data.similar \subseteq d.exists /\ call.data.exact \in Names
  /\ call.at = "rejected" => call.data = None \/ call.data \in d.exists

ShopSlice(slice, d) ==
  /\ DOMAIN slice = {"mine", "current", "similar", "exact", "loading"}
  /\ slice.mine \in [Items -> 0..2] /\ \A i \in Items : slice.mine[i] = 2 => i \in d.made
  /\ slice.current \in Names /\ slice.exact \in Names
  /\ slice.similar \subseteq d.exists /\ slice.loading \in BOOLEAN

ShopPageFits(page, d) ==
  /\ DOMAIN page = {"at", "item", "query", "timers"}
  /\ page.at \in {"browse", "mine", "detail"}
  /\ page.at = "detail" => page.item \in d.exists
  /\ \A q \in page.timers : page.at = "browse" /\ q = page.query

\* The dialog is Browse's; its timer is for the name in it.
DialogOn(dialog, page) ==
  /\ DOMAIN dialog = {"open", "name", "timers", "saving"}
  /\ dialog.open \in BOOLEAN /\ dialog.saving \in BOOLEAN /\ dialog.name \in Names
  /\ dialog.open \/ dialog.saving => page.at = "browse"
  /\ dialog.timers \subseteq Items
  /\ \A n \in dialog.timers : dialog.open /\ n = dialog.name

\* A call accepted adds its row once: of one item no two creates are accepted, and none is
\* left to land once both rows are there.
CreatesOnce(slice, flight) ==
  \A i \in CallSlots : flight[i].at = "fulfilled" /\ flight[i].thunk = "createRequest" =>
    /\ slice.mine[flight[i].data] # 2
    /\ \A j \in CallSlots : flight[j].at = "fulfilled" /\ flight[j].thunk = "createRequest"
                              /\ flight[j].data = flight[i].data => i = j

ShopAwaited(slice, dialog, flight) ==
  /\ slice.loading => \E i \in CallSlots : flight[i].thunk = "fetchRequests" /\ flight[i].at # None
  /\ dialog.saving => \E i \in CallSlots : flight[i].own = TRUE

ShopFlight(flight, d) ==
  /\ DOMAIN flight = CallSlots
  /\ \A i \in CallSlots : DOMAIN flight[i] = ThunkKeys /\ ShopCall(flight[i], d)

ShopInv ==
  /\ DemandFits(demand)
  /\ ShopSlice(requestsSlice, demand)
  /\ ShopPageFits(shopPage, demand)
  /\ DialogOn(newRequest, shopPage)
  /\ tour \in ShopTours =>
       /\ ShopFlight(calls, demand) /\ CreatesOnce(requestsSlice, calls)
       /\ ShopAwaited(requestsSlice, newRequest, calls)
  /\ tour \notin ShopTours => ~requestsSlice.loading /\ ~newRequest.saving

\* All that is said of the calls.
FlightOK(slice, dialog, flight, d) ==
  ShopFlight(flight, d) /\ CreatesOnce(slice, flight) /\ ShopAwaited(slice, dialog, flight)

DemandGrows(d, e) == d.exists \subseteq e.exists /\ d.made \subseteq e.made

LEMMA GrowthKeeps ==
  ASSUME NEW d, NEW e, DemandGrows(d, e)
  PROVE  /\ \A call : ShopCall(call, d) => ShopCall(call, e)
         /\ \A slice : ShopSlice(slice, d) => ShopSlice(slice, e)
         /\ \A page : ShopPageFits(page, d) => ShopPageFits(page, e)
BY DEF DemandGrows, ShopCall, ShopSlice, ShopPageFits

LEMMA NoThunkShops ==
  ASSUME NEW d
  PROVE  ShopCall(NoThunk, d)
BY NoThunkFields, ThunkConstants DEF ShopCall

\* A page left: its dialog is gone, and with it whatever waited.
LEMMA OrphanKeeps ==
  ASSUME NEW slice, NEW dialog, NEW flight, NEW d, FlightOK(slice, dialog, flight, d),
         ~dialog.saving
  PROVE  FlightOK(slice, dialog, Orphaned(flight), d)
<1>1. DOMAIN flight = CallSlots /\ \A i \in CallSlots : DOMAIN flight[i] = ThunkKeys
  BY DEF FlightOK, ShopFlight
<1>2. /\ DOMAIN Orphaned(flight) = CallSlots
      /\ \A i \in CallSlots :
           /\ DOMAIN Orphaned(flight)[i] = ThunkKeys
           /\ Orphaned(flight)[i].thunk = flight[i].thunk
           /\ Orphaned(flight)[i].arg = flight[i].arg
           /\ Orphaned(flight)[i].at = flight[i].at
           /\ Orphaned(flight)[i].data = flight[i].data
           /\ Orphaned(flight)[i].own = FALSE
  BY <1>1, OrphanedFields
<1>3. ShopFlight(Orphaned(flight), d)
  BY <1>2 DEF FlightOK, ShopFlight, ShopCall
<1>4. CreatesOnce(slice, Orphaned(flight)) /\ ShopAwaited(slice, dialog, Orphaned(flight))
  BY <1>2 DEF FlightOK, CreatesOnce, ShopAwaited
<1>5. QED
  BY <1>3, <1>4 DEF FlightOK

\* What a call of the shop asks about.
Askable(thunk, arg, d) ==
  /\ thunk \in {"createRequest", "fetchRequest"} => arg \in Items
  /\ thunk \in Participations => arg.item \in d.exists

\* A dispatch to a free slot.
LEMMA SentKeeps ==
  ASSUME NEW slice, NEW dialog, NEW flight, NEW d, FlightOK(slice, dialog, flight, d),
         NEW thunk, NEW arg, Askable(thunk, arg, d),
         NEW free \in CallSlots, flight[free] = NoThunk
  PROVE  FlightOK(slice, dialog, Sent(flight, thunk, arg), d)
<1> DEFINE next == Sent(flight, thunk, arg)
           call == SentCall(thunk, arg)
<1>0. DOMAIN flight = CallSlots
  BY DEF FlightOK, ShopFlight
<1>1. PICK s \in CallSlots :
        /\ flight[s] = NoThunk /\ Sent(flight, thunk, arg)[s] = SentCall(thunk, arg)
        /\ \A j \in CallSlots : j # s => Sent(flight, thunk, arg)[j] = flight[j]
  BY <1>0, SentTakesFree
<1>2. DOMAIN next = CallSlots
  BY <1>0, SentSlots
<1>3. /\ DOMAIN call = ThunkKeys /\ call.thunk = thunk /\ call.arg = arg
      /\ call.at = "wire" /\ call.own = FALSE
  BY DEF SentCall, ThunkKeys
<1> HIDE DEF next, call
<1>4. next[s] = call /\ \A j \in CallSlots : j # s => next[j] = flight[j]
  BY <1>1 DEF next, call
<1>5. ShopCall(call, d)
  BY <1>3 DEF ShopCall, Askable
<1>6. ShopFlight(next, d)
  BY <1>2, <1>3, <1>4, <1>5 DEF FlightOK, ShopFlight
<1>7. CreatesOnce(slice, next)
  BY <1>3, <1>4 DEF FlightOK, CreatesOnce
<1>8. ShopAwaited(slice, dialog, next)
  BY <1>1, <1>4, NoThunkFields DEF FlightOK, ShopAwaited
<1>9. QED
  BY <1>6, <1>7, <1>8 DEF FlightOK, next

\* A read of the list is what a loading list waits for.
LEMMA SearchKeeps ==
  ASSUME NEW slice, NEW dialog, NEW flight, NEW d, ShopFlight(flight, d),
         CreatesOnce(slice, flight), NEW arg,
         dialog.saving => \E i \in CallSlots : flight[i].own = TRUE,
         NEW free \in CallSlots, flight[free] = NoThunk
  PROVE  FlightOK(slice, dialog, Sent(flight, "fetchRequests", arg), d)
<1> DEFINE next == Sent(flight, "fetchRequests", arg)
           call == SentCall("fetchRequests", arg)
<1>0. DOMAIN flight = CallSlots
  BY DEF ShopFlight
<1>1. PICK s \in CallSlots :
        /\ flight[s] = NoThunk
        /\ Sent(flight, "fetchRequests", arg)[s] = SentCall("fetchRequests", arg)
        /\ \A j \in CallSlots : j # s => Sent(flight, "fetchRequests", arg)[j] = flight[j]
  BY <1>0, SentTakesFree
<1>2. DOMAIN next = CallSlots
  BY <1>0, SentSlots
<1>3. /\ DOMAIN call = ThunkKeys /\ call.thunk = "fetchRequests" /\ call.arg = arg
      /\ call.at = "wire" /\ call.own = FALSE
  BY DEF SentCall, ThunkKeys
<1> HIDE DEF next, call
<1>4. next[s] = call /\ \A j \in CallSlots : j # s => next[j] = flight[j]
  BY <1>1 DEF next, call
<1>5. ShopCall(call, d)
  BY <1>3 DEF ShopCall, Participations
<1>6. ShopFlight(next, d)
  BY <1>2, <1>3, <1>4, <1>5 DEF ShopFlight
<1>7. CreatesOnce(slice, next)
  BY <1>3, <1>4 DEF CreatesOnce
<1>8. ShopAwaited(slice, dialog, next)
  BY <1>1, <1>3, <1>4, NoThunkFields, ThunkConstants DEF ShopAwaited
<1>9. QED
  BY <1>6, <1>7, <1>8 DEF FlightOK, next

\* A dialog that begins to save owns its call.
LEMMA AwaitedKeeps ==
  ASSUME NEW slice, NEW dialog, NEW after, NEW flight, NEW d,
         FlightOK(slice, dialog, flight, d), NEW thunk, NEW arg, Askable(thunk, arg, d),
         thunk \in {"createRequest", "joinRequest"},
         NEW free \in CallSlots, flight[free] = NoThunk
  PROVE  FlightOK(slice, after, Awaited(flight, thunk, arg), d)
<1> DEFINE next == Awaited(flight, thunk, arg)
           call == AwaitedCall(thunk, arg)
<1>0. DOMAIN flight = CallSlots
  BY DEF FlightOK, ShopFlight
<1>1. PICK s \in CallSlots :
        /\ flight[s] = NoThunk /\ Awaited(flight, thunk, arg)[s] = AwaitedCall(thunk, arg)
        /\ \A j \in CallSlots : j # s => Awaited(flight, thunk, arg)[j] = flight[j]
  BY <1>0, AwaitedTakesFree
<1>2. DOMAIN next = CallSlots
  BY <1>0, AwaitedSlots
<1>3. /\ DOMAIN call = ThunkKeys /\ call.thunk = thunk /\ call.arg = arg
      /\ call.at = "wire" /\ call.own = TRUE
  BY DEF AwaitedCall, ThunkKeys
<1> HIDE DEF next, call
<1>4. next[s] = call /\ \A j \in CallSlots : j # s => next[j] = flight[j]
  BY <1>1 DEF next, call
<1>5. ShopCall(call, d)
  BY <1>3 DEF ShopCall, Askable
<1>6. ShopFlight(next, d)
  BY <1>2, <1>3, <1>4, <1>5 DEF FlightOK, ShopFlight
<1>7. CreatesOnce(slice, next)
  BY <1>3, <1>4 DEF FlightOK, CreatesOnce
<1>8. ShopAwaited(slice, after, next)
  BY <1>1, <1>3, <1>4, NoThunkFields DEF FlightOK, ShopAwaited
<1>9. QED
  BY <1>6, <1>7, <1>8 DEF FlightOK, next

\* What the slice and the dialog become as a call lands: neither goes on waiting for it,
\* and no item gets its second row but by the create that lands.
Told(slice, dialog, after, open, call) ==
  /\ after.loading => slice.loading /\ call.thunk # "fetchRequests"
  /\ open.saving => dialog.saving /\ call.own # TRUE
  /\ \A x \in Items :
       after.mine[x] = 2 /\ slice.mine[x] # 2 =>
         call.at = "fulfilled" /\ call.thunk = "createRequest" /\ call.data = x

\* A call lands: it frees its slot, and what waited for it is told.
LEMMA DoneKeeps ==
  ASSUME NEW slice, NEW dialog, NEW d, FlightOK(slice, dialog, calls, d), DemandFits(d),
         NEW i \in CallSlots, NEW after, NEW open,
         Told(slice, dialog, after, open, calls[i])
  PROVE  FlightOK(after, open, Done(i), d) /\ Done(i)[i] = NoThunk
<1>1. DOMAIN calls = CallSlots
  BY DEF FlightOK, ShopFlight
<1>2. /\ DOMAIN Done(i) = CallSlots
      /\ \A j \in CallSlots : Done(i)[j] = IF j = i THEN NoThunk ELSE calls[j]
  BY <1>1 DEF Done
<1>3. ShopFlight(Done(i), d)
  BY <1>2, NoThunkFields, NoThunkShops DEF FlightOK, ShopFlight
<1>4. CreatesOnce(after, Done(i))
  <2> SUFFICES ASSUME NEW k \in CallSlots, Done(i)[k].at = "fulfilled",
                      Done(i)[k].thunk = "createRequest"
               PROVE  /\ after.mine[Done(i)[k].data] # 2
                      /\ \A j \in CallSlots :
                           Done(i)[j].at = "fulfilled" /\ Done(i)[j].thunk = "createRequest"
                             /\ Done(i)[j].data = Done(i)[k].data => k = j
    BY DEF CreatesOnce
  <2>1. k # i /\ Done(i)[k] = calls[k]
    BY <1>2, NoThunkFields, ThunkConstants
  <2>2. calls[k].data \in Items
    BY <2>1 DEF FlightOK, ShopFlight, ShopCall, DemandFits
  <2>3. slice.mine[calls[k].data] # 2
    BY <2>1 DEF FlightOK, CreatesOnce
  <2>4. after.mine[calls[k].data] # 2
    BY <2>1, <2>2, <2>3 DEF FlightOK, CreatesOnce, Told
  <2>5. \A j \in CallSlots :
          Done(i)[j].at = "fulfilled" => j # i /\ Done(i)[j] = calls[j]
    BY <1>2, NoThunkFields, ThunkConstants
  <2>6. QED
    BY <2>1, <2>4, <2>5 DEF FlightOK, CreatesOnce
<1>5. ShopAwaited(after, open, Done(i))
  BY <1>2 DEF FlightOK, ShopAwaited, Told
<1>6. QED
  BY <1>2, <1>3, <1>4, <1>5 DEF FlightOK

\* Two slots free, one call sent: one is left.
LEMMA SentLeavesFree ==
  ASSUME NEW flight, DOMAIN flight = CallSlots, NEW thunk, NEW arg,
         NEW s \in CallSlots, NEW t \in CallSlots, s # t,
         flight[s] = NoThunk, flight[t] = NoThunk
  PROVE  \E u \in CallSlots : Sent(flight, thunk, arg)[u] = NoThunk
<1>1. PICK v \in CallSlots :
        /\ flight[v] = NoThunk /\ Sent(flight, thunk, arg)[v] = SentCall(thunk, arg)
        /\ \A j \in CallSlots : j # v => Sent(flight, thunk, arg)[j] = flight[j]
  BY SentTakesFree
<1>2. CASE v = s
  BY <1>1, <1>2
<1>3. CASE v # s
  BY <1>1, <1>3
<1>4. QED
  BY <1>2, <1>3

\* In the tours of the shop.
ShopNow ==
  /\ DemandFits(demand) /\ ShopSlice(requestsSlice, demand)
  /\ ShopPageFits(shopPage, demand) /\ DialogOn(newRequest, shopPage)
  /\ FlightOK(requestsSlice, newRequest, calls, demand)

LEMMA ShopNowIs ==
  ASSUME tour \in ShopTours
  PROVE  ShopInv <=> ShopNow
BY DEF ShopInv, ShopNow, FlightOK

\* A page and a dialog as they are mounted.
LEMMA NewPage ==
  ASSUME NEW at \in {"browse", "mine", "detail"}, NEW item, NEW d,
         at = "detail" => item \in d.exists
  PROVE  /\ ShopPageFits(PageOf(at, item), d) /\ DialogOn(NewDialog, PageOf(at, item))
         /\ ~NewDialog.saving
<1>1. ShopPageFits(PageOf(at, item), d)
  BY DEF ShopPageFits, PageOf
<1>2. DialogOn(NewDialog, PageOf(at, item)) /\ ~NewDialog.saving
  BY DEF DialogOn, NewDialog, Names
<1>3. QED
  BY <1>1, <1>2

\* Navigating to My requests, from a handler or from an answer.
LEMMA ToMineKeeps ==
  ASSUME NEW d, ShopPageFits(shopPage, d), DialogOn(newRequest, shopPage),
         NEW flight, NEW slice, FlightOK(slice, NewDialog, flight, d),
         NEW free \in CallSlots, flight[free] = NoThunk, ToMine(flight)
  PROVE  /\ ShopPageFits(shopPage', d) /\ DialogOn(newRequest', shopPage')
         /\ FlightOK(slice, newRequest', calls', d)
<1>1. CASE shopPage.at = "mine"
  <2>1. calls' = flight /\ shopPage' = shopPage /\ newRequest' = newRequest
    BY <1>1 DEF ToMine
  <2>2. ~newRequest.saving
    BY <1>1 DEF DialogOn
  <2>3. FlightOK(slice, newRequest, flight, d)
    BY <2>2 DEF FlightOK, ShopAwaited
  <2>4. QED
    BY <2>1, <2>3
<1>2. CASE shopPage.at # "mine"
  <2>1. /\ shopPage' = PageOf("mine", None) /\ newRequest' = NewDialog
        /\ calls' = Sent(Orphaned(flight), "fetchMyRequests", None)
    BY <1>2 DEF ToMine, ToPage
  <2>2. ShopPageFits(shopPage', d) /\ DialogOn(newRequest', shopPage') /\ ~NewDialog.saving
    BY <2>1, NewPage
  <2>3. FlightOK(slice, NewDialog, Orphaned(flight), d) /\ Orphaned(flight)[free] = NoThunk
    BY <2>2, OrphanKeeps, OrphanedKeepsFree
  <2>4. Askable("fetchMyRequests", None, d)
    BY DEF Askable, Participations
  <2>5. FlightOK(slice, NewDialog, Sent(Orphaned(flight), "fetchMyRequests", None), d)
    BY <2>3, <2>4, SentKeeps
  <2>6. QED
    BY <2>1, <2>2, <2>5
<1>3. QED
  BY <1>1, <1>2

\* Leaving a page for another.
LEMMA ShopMoves ==
  ASSUME ShopNow, GoRequests \/ GoMyRequests \/ \E i \in Items : OpenCard(i)
  PROVE  ShopNow'
<1>1. UNCHANGED demand
  BY DEF GoRequests, GoMyRequests, OpenCard
<1>2. ~NewDialog.saving
  BY DEF NewDialog
<1>3. FlightOK(requestsSlice, NewDialog, calls, demand)
  BY <1>2 DEF ShopNow, FlightOK, ShopAwaited
<1>4. CASE GoRequests
  <2>1. /\ shopPage' = PageOf("browse", None) /\ newRequest' = NewDialog
        /\ requestsSlice' = Unsuggested(requestsSlice) /\ calls' = Orphaned(calls)
    BY <1>4 DEF GoRequests, ToPage
  <2>2. ShopPageFits(shopPage', demand) /\ DialogOn(newRequest', shopPage')
    BY <2>1, NewPage
  <2>3. /\ ShopSlice(requestsSlice', demand) /\ requestsSlice'.mine = requestsSlice.mine
        /\ requestsSlice'.loading = requestsSlice.loading
    BY <2>1 DEF ShopNow, ShopSlice, Unsuggested, Names
  <2>4. FlightOK(requestsSlice, NewDialog, Orphaned(calls), demand)
    BY <1>2, <1>3, OrphanKeeps
  <2>5. FlightOK(requestsSlice', newRequest', calls', demand)
    BY <2>1, <2>3, <2>4 DEF FlightOK, CreatesOnce, ShopAwaited
  <2>6. QED
    BY <1>1, <2>2, <2>3, <2>5 DEF ShopNow
<1>5. CASE GoMyRequests
  <2>1. ToMine(calls) /\ Room /\ UNCHANGED requestsSlice
    BY <1>5 DEF GoMyRequests
  <2>2. PICK free \in CallSlots : calls[free] = NoThunk
    BY <2>1, RoomIsFree
  <2>3. ShopPageFits(shopPage, demand) /\ DialogOn(newRequest, shopPage)
    BY DEF ShopNow
  <2>4. /\ ShopPageFits(shopPage', demand) /\ DialogOn(newRequest', shopPage')
        /\ FlightOK(requestsSlice, newRequest', calls', demand)
    BY <1>3, <2>1, <2>2, <2>3, ToMineKeeps
  <2>5. QED
    BY <1>1, <2>1, <2>4 DEF ShopNow
<1>6. ASSUME NEW i \in Items, OpenCard(i)
      PROVE  ShopNow'
  <2> DEFINE one == Sent(Orphaned(calls), "fetchRequest", i)
  <2>1. /\ shopPage' = PageOf("detail", i) /\ newRequest' = NewDialog /\ Room
        /\ i \in demand.exists /\ UNCHANGED requestsSlice
        /\ calls' = Sent(one, "fetchMyRequests", None)
    BY <1>6 DEF OpenCard, ToPage
  <2>2. ShopPageFits(shopPage', demand) /\ DialogOn(newRequest', shopPage')
    BY <2>1, NewPage
  <2>3. PICK s, t \in CallSlots : s # t /\ calls[s] = NoThunk /\ calls[t] = NoThunk
    BY <2>1, RoomIsFree
  <2>4. Orphaned(calls)[s] = NoThunk /\ Orphaned(calls)[t] = NoThunk
    BY <2>3, OrphanedKeepsFree
  <2>5. FlightOK(requestsSlice, NewDialog, Orphaned(calls), demand)
    BY <1>2, <1>3, OrphanKeeps
  <2>6. /\ Askable("fetchRequest", i, demand) /\ Askable("fetchMyRequests", None, demand)
        /\ DOMAIN Orphaned(calls) = CallSlots
    BY <1>6 DEF Askable, Participations, Orphaned
  <2>7. FlightOK(requestsSlice, NewDialog, one, demand)
    BY <2>4, <2>5, <2>6, SentKeeps
  <2>8. PICK u \in CallSlots : one[u] = NoThunk
    BY <2>3, <2>4, <2>6, SentLeavesFree
  <2> HIDE DEF one
  <2>9. FlightOK(requestsSlice, NewDialog, Sent(one, "fetchMyRequests", None), demand)
    BY <2>6, <2>7, <2>8, SentKeeps
  <2>10. QED
    BY <1>1, <2>1, <2>2, <2>9 DEF ShopNow
<1>7. QED
  BY <1>4, <1>5, <1>6

\* The search box, its timer and the page's buttons.
LEMMA PageActs ==
  ASSUME ShopNow,
         \/ \E q \in Names : TypeQuery(q) \/ SearchFires(q)
         \/ \E t \in Participations : Participate(t)
         \/ \E i \in Items : SomeoneRequests(i)
  PROVE  ShopNow'
<1>1. ASSUME NEW q \in Names, TypeQuery(q)
      PROVE  ShopNow'
  <2>1. /\ shopPage.at = "browse" /\ UNCHANGED <<calls, demand, requestsSlice, newRequest>>
        /\ shopPage' = [shopPage EXCEPT !.query = q, !.timers = {q}]
    BY <1>1 DEF TypeQuery, Rearmed
  <2>2. ShopPageFits(shopPage', demand) /\ shopPage'.at = shopPage.at
    BY <2>1 DEF ShopNow, ShopPageFits
  <2>3. DialogOn(newRequest, shopPage')
    BY <2>2 DEF ShopNow, DialogOn
  <2>4. QED
    BY <2>1, <2>2, <2>3 DEF ShopNow
<1>2. ASSUME NEW q \in Names, SearchFires(q)
      PROVE  ShopNow'
  <2> DEFINE arg == Filter(q)
  <2>1. /\ Room /\ UNCHANGED <<demand, newRequest>>
        /\ shopPage' = [shopPage EXCEPT !.timers = @ \ {q}]
        /\ requestsSlice' = [requestsSlice EXCEPT !.loading = TRUE]
        /\ calls' = Sent(calls, "fetchRequests", arg)
    BY <1>2 DEF SearchFires
  <2> HIDE DEF arg
  <2>2. ShopPageFits(shopPage', demand) /\ shopPage'.at = shopPage.at
    BY <2>1 DEF ShopNow, ShopPageFits
  <2>3. DialogOn(newRequest, shopPage')
    BY <2>2 DEF ShopNow, DialogOn
  <2>4. ShopSlice(requestsSlice', demand) /\ requestsSlice'.mine = requestsSlice.mine
    BY <2>1 DEF ShopNow, ShopSlice
  <2>5. PICK free \in CallSlots : calls[free] = NoThunk
    BY <2>1, RoomIsFree
  <2>6. /\ ShopFlight(calls, demand) /\ CreatesOnce(requestsSlice', calls)
        /\ newRequest.saving => \E i \in CallSlots : calls[i].own = TRUE
    BY <2>4 DEF ShopNow, FlightOK, CreatesOnce, ShopAwaited
  <2>7. FlightOK(requestsSlice', newRequest, Sent(calls, "fetchRequests", arg), demand)
    BY <2>5, <2>6, SearchKeeps
  <2>8. QED
    BY <2>1, <2>2, <2>3, <2>4, <2>7 DEF ShopNow
<1>3. ASSUME NEW t \in Participations, Participate(t)
      PROVE  ShopNow'
  <2> DEFINE arg == [item |-> shopPage.item, dialog |-> FALSE]
  <2>1. /\ Room /\ UNCHANGED requestPageVars /\ shopPage.at = "detail"
        /\ calls' = Sent(calls, t, arg)
    BY <1>3 DEF Participate
  <2>2. arg.item \in demand.exists
    BY <2>1 DEF ShopNow, ShopPageFits
  <2> HIDE DEF arg
  <2>3. Askable(t, arg, demand)
    BY <1>3, <2>2 DEF Askable, Participations
  <2>4. PICK free \in CallSlots : calls[free] = NoThunk
    BY <2>1, RoomIsFree
  <2>5. FlightOK(requestsSlice, newRequest, calls, demand)
    BY DEF ShopNow
  <2>6. FlightOK(requestsSlice, newRequest, Sent(calls, t, arg), demand)
    BY <2>3, <2>4, <2>5, SentKeeps
  <2>7. QED
    BY <2>1, <2>6 DEF ShopNow, requestPageVars
<1>4. ASSUME NEW i \in Items, SomeoneRequests(i)
      PROVE  ShopNow'
  <2>1. /\ UNCHANGED <<calls, requestsSlice, shopPage, newRequest>>
        /\ demand' = [demand EXCEPT !.exists = @ \cup {i}]
    BY <1>4 DEF SomeoneRequests
  <2>2. DemandFits(demand') /\ DemandGrows(demand, demand')
    BY <1>4, <2>1 DEF ShopNow, DemandFits, DemandGrows
  <2>3. /\ \A call : ShopCall(call, demand) => ShopCall(call, demand')
        /\ \A slice : ShopSlice(slice, demand) => ShopSlice(slice, demand')
        /\ \A page : ShopPageFits(page, demand) => ShopPageFits(page, demand')
    BY <2>2, GrowthKeeps
  <2>4. FlightOK(requestsSlice, newRequest, calls, demand')
    BY <2>3 DEF ShopNow, FlightOK, ShopFlight
  <2>5. QED
    BY <2>1, <2>2, <2>3, <2>4 DEF ShopNow
<1>5. QED
  BY <1>1, <1>2, <1>3, <1>4

\* NewRequestDialog.
LEMMA DialogSteps ==
  ASSUME ShopNow,
         \/ OpenDialog \/ CloseDialog \/ SubmitRequest
         \/ \E n \in Names : TypeName(n)
         \/ \E n \in Items : LookupFires(n) \/ JoinSuggested(n)
  PROVE  ShopNow'
<1>1. ASSUME NEW open \in BOOLEAN, NEW name \in Names, DialogDrawn(open, name),
             shopPage.at = "browse"
      PROVE  ShopNow'
  <2> DEFINE asked == IF open /\ name \notin ShortNames \cup {None} THEN {name} ELSE {}
  <2>1. /\ UNCHANGED <<calls, demand, shopPage>>
        /\ newRequest' = [newRequest EXCEPT !.open = open, !.name = name, !.timers = asked]
        /\ requestsSlice' = requestsSlice \/ requestsSlice' = Unsuggested(requestsSlice)
    BY <1>1 DEF DialogDrawn, Rearmed
  <2>2. asked \subseteq Items /\ \A n \in asked : open /\ n = name
    BY <1>1 DEF Names
  <2> HIDE DEF asked
  <2>3. DialogOn(newRequest', shopPage) /\ newRequest'.saving = newRequest.saving
    BY <1>1, <2>1, <2>2 DEF ShopNow, DialogOn
  <2>4. /\ ShopSlice(requestsSlice', demand) /\ requestsSlice'.mine = requestsSlice.mine
        /\ requestsSlice'.loading = requestsSlice.loading
    BY <2>1 DEF ShopNow, ShopSlice, Unsuggested, Names
  <2>5. FlightOK(requestsSlice', newRequest', calls, demand)
    BY <2>3, <2>4 DEF ShopNow, FlightOK, CreatesOnce, ShopAwaited
  <2>6. QED
    BY <2>1, <2>3, <2>4, <2>5 DEF ShopNow
<1>2. DialogOn(newRequest, shopPage)
  BY DEF ShopNow
<1>3. CASE OpenDialog \/ CloseDialog \/ \E n \in Names : TypeName(n)
  BY <1>1, <1>2, <1>3 DEF OpenDialog, CloseDialog, TypeName, DialogOn
<1>4. ASSUME NEW n \in Items, LookupFires(n)
      PROVE  ShopNow'
  <2>1. /\ Room /\ UNCHANGED <<demand, requestsSlice, shopPage>>
        /\ newRequest' = [newRequest EXCEPT !.timers = @ \ {n}]
        /\ calls' = Sent(calls, "fetchSimilarRequests", n)
    BY <1>4 DEF LookupFires
  <2>2. DialogOn(newRequest', shopPage) /\ newRequest'.saving = newRequest.saving
    BY <1>2, <2>1 DEF DialogOn
  <2>3. Askable("fetchSimilarRequests", n, demand)
    BY DEF Askable, Participations
  <2>4. PICK free \in CallSlots : calls[free] = NoThunk
    BY <2>1, RoomIsFree
  <2>5. FlightOK(requestsSlice, newRequest', calls, demand)
    BY <2>2 DEF ShopNow, FlightOK, ShopAwaited
  <2>6. FlightOK(requestsSlice, newRequest', calls', demand)
    BY <2>1, <2>3, <2>4, <2>5, SentKeeps
  <2>7. QED
    BY <2>1, <2>2, <2>6 DEF ShopNow
<1>5. ASSUME NEW thunk \in {"createRequest", "joinRequest"}, NEW arg,
             DialogActs(thunk, arg), Askable(thunk, arg, demand)
      PROVE  ShopNow'
  <2>1. /\ Room /\ UNCHANGED <<demand, requestsSlice, shopPage>> /\ newRequest.open
        /\ newRequest' = [newRequest EXCEPT !.saving = TRUE]
        /\ calls' = Awaited(calls, thunk, arg)
    BY <1>5 DEF DialogActs
  <2>2. DialogOn(newRequest', shopPage)
    BY <1>2, <2>1 DEF DialogOn
  <2>3. PICK free \in CallSlots : calls[free] = NoThunk
    BY <2>1, RoomIsFree
  <2>4. FlightOK(requestsSlice, newRequest, calls, demand)
    BY DEF ShopNow
  <2>5. FlightOK(requestsSlice, newRequest', calls', demand)
    BY <1>5, <2>1, <2>3, <2>4, AwaitedKeeps
  <2>6. QED
    BY <2>1, <2>2, <2>5 DEF ShopNow
<1>6. CASE SubmitRequest
  <2>1. newRequest.name \in Items
    BY <1>2, <1>6 DEF SubmitRequest, DialogOn, Names
  <2>2. Askable("createRequest", newRequest.name, demand)
    BY <2>1 DEF Askable, Participations
  <2>3. QED
    BY <1>5, <1>6, <2>2 DEF SubmitRequest
<1>7. ASSUME NEW n \in Items, JoinSuggested(n)
      PROVE  ShopNow'
  <2> DEFINE arg == [item |-> n, dialog |-> TRUE]
  <2>1. DialogActs("joinRequest", arg) /\ arg.item \in demand.exists
    BY <1>7 DEF JoinSuggested, ShopNow, ShopSlice
  <2> HIDE DEF arg
  <2>2. Askable("joinRequest", arg, demand)
    BY <2>1 DEF Askable, Participations
  <2>3. QED
    BY <1>5, <2>1, <2>2
<1>8. QED
  BY <1>3, <1>4, <1>6, <1>7

\* What an answer, or a refusal, to a call of the shop may hold.
Fits(thunk, at, data, slice, d) ==
  /\ at = "fulfilled" =>
       /\ thunk \in {"fetchRequest"} \cup Participations => data \in Items
       /\ thunk = "createRequest" =>
            /\ data \in d.made /\ slice.mine[data] # 2
            /\ \A j \in CallSlots :
                 calls[j].at = "fulfilled" /\ calls[j].thunk = "createRequest" => calls[j].data # data
       /\ thunk = "fetchSimilarRequests" =>
            data.similar \subseteq d.exists /\ data.exact \in Names
  /\ at = "rejected" => data = None \/ data \in d.exists

\* An answer, or a refusal, takes its place in its slot.
LEMMA ShopStamps ==
  ASSUME NEW slice, NEW dialog, NEW d, FlightOK(slice, dialog, calls, d),
         NEW i \in CallSlots, calls[i].at # None,
         NEW at \in {"fulfilled", "rejected"}, NEW data,
         Fits(calls[i].thunk, at, data, slice, d),
         NEW next, next = [calls EXCEPT ![i].at = at, ![i].data = data]
  PROVE  FlightOK(slice, dialog, next, d)
<1>1. /\ DOMAIN next = CallSlots /\ next[i].at = at /\ next[i].data = data
      /\ \A j \in CallSlots :
           /\ DOMAIN next[j] = ThunkKeys
           /\ next[j].thunk = calls[j].thunk /\ next[j].arg = calls[j].arg
           /\ next[j].own = calls[j].own
           /\ j # i => next[j] = calls[j]
  BY DEF FlightOK, ShopFlight, ThunkKeys
<1>2. ShopCall(next[i], d)
  BY <1>1 DEF FlightOK, ShopFlight, ShopCall, Fits
<1>3. ShopFlight(next, d)
  BY <1>1, <1>2 DEF FlightOK, ShopFlight
<1>4. CreatesOnce(slice, next)
  BY <1>1 DEF FlightOK, CreatesOnce, Fits
<1>5. ShopAwaited(slice, dialog, next)
  BY <1>1, ThunkConstants DEF FlightOK, ShopAwaited
<1>6. QED
  BY <1>3, <1>4, <1>5 DEF FlightOK

\* request-service's answers.
LEMMA ShopServed ==
  ASSUME ShopNow, NEW i \in CallSlots, ServeRequests(i)
  PROVE  ShopNow'
<1>1. /\ DemandFits(demand) /\ ShopFlight(calls, demand) /\ ShopSlice(requestsSlice, demand)
      /\ UNCHANGED <<requestsSlice, shopPage, newRequest>>
  BY DEF ShopNow, FlightOK, ServeRequests
<1>2. calls[i].at = "wire" /\ calls[i].at # None /\ ShopCall(calls[i], demand)
  BY <1>1, ThunkConstants
  DEF ServeRequests, ServeRequestRead, ServeRequestCreate, ServeParticipation, On, ShopFlight
<1>3. DemandFits(demand') /\ DemandGrows(demand, demand')
  <2>1. CASE UNCHANGED demand
    BY <1>1, <2>1 DEF DemandGrows
  <2>2. CASE ServeRequestCreate(i) /\ demand' # demand
    <3>1. demand' = [f \in DOMAIN demand |-> demand[f] \cup {calls[i].arg}]
      BY <2>2 DEF ServeRequestCreate
    <3>2. calls[i].arg \in Items
      BY <1>2, <2>2 DEF ServeRequestCreate, On, ShopCall
    <3>3. QED
      BY <1>1, <3>1, <3>2 DEF DemandFits, DemandGrows
  <2>3. CASE ServeParticipation(i) /\ demand' # demand
    <3> DEFINE item == calls[i].arg.item
    <3>1. item \in demand.exists
      BY <1>2, <2>3 DEF ServeParticipation, On, ShopCall, Participations
    <3>2. \/ demand' = [demand EXCEPT !.on = @ \cup {item}]
          \/ demand' = [demand EXCEPT !.on = @ \ {item}]
          \/ demand' = [demand EXCEPT !.on = @]
      BY <2>3 DEF ServeParticipation
    <3> HIDE DEF item
    <3>3. QED
      BY <1>1, <3>1, <3>2 DEF DemandFits, DemandGrows
  <2>4. QED
    BY <2>1, <2>2, <2>3 DEF ServeRequests, ServeRequestRead
<1>4. /\ \A call : ShopCall(call, demand) => ShopCall(call, demand')
      /\ \A slice : ShopSlice(slice, demand) => ShopSlice(slice, demand')
      /\ \A page : ShopPageFits(page, demand) => ShopPageFits(page, demand')
  BY <1>3, GrowthKeeps
<1>5. FlightOK(requestsSlice, newRequest, calls, demand')
  BY <1>4 DEF ShopNow, FlightOK, ShopFlight
<1>6. \E at \in {"fulfilled", "rejected"} : \E data :
        /\ Fits(calls[i].thunk, at, data, requestsSlice, demand')
        /\ calls' = [calls EXCEPT ![i].at = at, ![i].data = data]
  <2>1. CASE (On(i, "fetchRequests") /\ Answer(i, None))
             \/ (On(i, "fetchMyRequests") /\ Answer(i, demand.on))
    BY <2>1 DEF On, Answer, Fits, Participations
  <2>2. CASE On(i, "fetchRequest") /\ Answer(i, calls[i].arg)
    <3>1. calls[i].arg \in Items
      BY <1>2, <2>2 DEF On, ShopCall
    <3>2. QED
      BY <2>2, <3>1 DEF On, Answer, Fits, Participations
  <2>3. CASE ServeRequestRead(i) /\ On(i, "fetchSimilarRequests")
    <3> DEFINE data == [similar |-> demand.exists,
                        exact |-> IF calls[i].arg \in demand.exists THEN calls[i].arg ELSE None]
    <3>1. Answer(i, data) /\ UNCHANGED demand
      BY <2>3 DEF ServeRequestRead, On
    <3>2. data.similar \subseteq demand'.exists /\ data.exact \in Names
      BY <1>1, <3>1 DEF DemandFits, Names
    <3> HIDE DEF data
    <3>3. Fits(calls[i].thunk, "fulfilled", data, requestsSlice, demand')
      BY <2>3, <3>2 DEF On, Fits, Participations
    <3>4. QED
      BY <3>1, <3>3 DEF Answer
  <2>4. CASE ServeRequestCreate(i)
    <3>1. On(i, "createRequest") /\ calls[i].arg \in Items
      BY <1>2, <2>4 DEF ServeRequestCreate, On, ShopCall
    <3>2. CASE calls[i].arg \in demand.exists
      <4>1. Refuse(i, calls[i].arg) /\ UNCHANGED demand
        BY <2>4, <3>2 DEF ServeRequestCreate
      <4>2. Fits(calls[i].thunk, "rejected", calls[i].arg, requestsSlice, demand')
        BY <3>2, <4>1 DEF Fits
      <4>3. QED
        BY <4>1, <4>2 DEF Refuse
    <3>3. CASE calls[i].arg \notin demand.exists
      <4>1. /\ Answer(i, calls[i].arg)
            /\ demand' = [f \in DOMAIN demand |-> demand[f] \cup {calls[i].arg}]
        BY <2>4, <3>3 DEF ServeRequestCreate
      <4>2. calls[i].arg \in demand'.made
        BY <1>1, <4>1 DEF DemandFits
      <4>3. requestsSlice.mine[calls[i].arg] # 2
        BY <1>1, <3>1, <3>3 DEF ShopSlice, DemandFits
      <4>4. \A j \in CallSlots :
              calls[j].at = "fulfilled" /\ calls[j].thunk = "createRequest"
                => calls[j].data # calls[i].arg
        BY <1>1, <3>3 DEF ShopFlight, ShopCall, DemandFits
      <4>5. Fits(calls[i].thunk, "fulfilled", calls[i].arg, requestsSlice, demand')
        BY <3>1, <4>2, <4>3, <4>4 DEF Fits, On, Participations
      <4>6. QED
        BY <4>1, <4>5 DEF Answer
    <3>4. QED
      BY <3>2, <3>3
  <2>5. CASE ServeParticipation(i)
    <3>1. calls[i].thunk \in Participations /\ calls[i].arg.item \in Items
      BY <1>1, <1>2, <2>5 DEF ServeParticipation, On, ShopCall, Participations, DemandFits
    <3>2. \/ Refuse(i, None)
          \/ Answer(i, calls[i].arg.item)
      BY <2>5 DEF ServeParticipation
    <3>3. /\ Fits(calls[i].thunk, "rejected", None, requestsSlice, demand')
          /\ Fits(calls[i].thunk, "fulfilled", calls[i].arg.item, requestsSlice, demand')
      BY <3>1 DEF Fits, Participations
    <3>4. QED
      BY <3>2, <3>3 DEF Refuse, Answer
  <2>6. QED
    BY <2>1, <2>2, <2>3, <2>4, <2>5 DEF ServeRequests, ServeRequestRead
<1>7. PICK at \in {"fulfilled", "rejected"} : \E data :
        /\ Fits(calls[i].thunk, at, data, requestsSlice, demand')
        /\ calls' = [calls EXCEPT ![i].at = at, ![i].data = data]
  BY <1>6
<1>8. PICK data :
        /\ Fits(calls[i].thunk, at, data, requestsSlice, demand')
        /\ calls' = [calls EXCEPT ![i].at = at, ![i].data = data]
  BY <1>7
<1>9. FlightOK(requestsSlice, newRequest, calls', demand')
  BY <1>2, <1>5, <1>8, ShopStamps
<1>10. QED
  BY <1>1, <1>3, <1>4, <1>9 DEF ShopNow

\* A call that fails.
LEMMA ShopFails ==
  ASSUME ShopNow, NEW i \in CallSlots, FailThunk(i), UNCHANGED requestPageVars
  PROVE  ShopNow'
<1>1. calls' = [calls EXCEPT ![i].at = "rejected", ![i].data = None] /\ calls[i].at # None
  BY ThunkConstants DEF FailThunk, Refuse
<1>2. Fits(calls[i].thunk, "rejected", None, requestsSlice, demand)
  BY DEF Fits
<1>3. FlightOK(requestsSlice, newRequest, calls, demand)
  BY DEF ShopNow
<1>4. FlightOK(requestsSlice, newRequest, calls', demand)
  BY <1>1, <1>2, <1>3, ShopStamps
<1>5. QED
  BY <1>4 DEF ShopNow, requestPageVars

\* The answers to the reads.
LEMMA ReadLands ==
  ASSUME ShopNow, NEW i \in CallSlots, RequestsRead(i)
  PROVE  ShopNow'
<1>1. /\ DemandFits(demand) /\ ShopSlice(requestsSlice, demand)
      /\ FlightOK(requestsSlice, newRequest, calls, demand) /\ ShopCall(calls[i], demand)
  BY DEF ShopNow, FlightOK, ShopFlight
<1>2. calls' = Done(i) /\ UNCHANGED <<demand, shopPage, newRequest>>
  BY DEF RequestsRead
<1>3. calls[i].own # TRUE
  BY <1>1 DEF RequestsRead, Fulfilled, Rejected, ShopCall
<1>4. /\ ShopSlice(requestsSlice', demand)
      /\ requestsSlice'.loading => requestsSlice.loading /\ calls[i].thunk # "fetchRequests"
      /\ \A x \in Items : requestsSlice'.mine[x] = 2 => requestsSlice.mine[x] = 2
  <2>1. CASE requestsSlice' = [requestsSlice EXCEPT !.loading = FALSE]
    BY <1>1, <2>1 DEF ShopSlice
  <2>2. CASE Fulfilled(i, "fetchRequest")
             /\ requestsSlice' = [requestsSlice EXCEPT !.current = calls[i].data]
    <3>1. calls[i].data \in Names /\ calls[i].thunk # "fetchRequests"
      BY <1>1, <2>2 DEF Fulfilled, ShopCall, Names
    <3>2. QED
      BY <1>1, <2>2, <3>1 DEF ShopSlice
  <2>3. CASE Fulfilled(i, "fetchMyRequests")
             /\ requestsSlice' = [requestsSlice EXCEPT !.mine =
                                    [j \in Items |-> IF j \in calls[i].data THEN 1 ELSE 0]]
    <3> DEFINE rows == [j \in Items |-> IF j \in calls[i].data THEN 1 ELSE 0]
    <3>1. rows \in [Items -> 0..2] /\ \A j \in Items : rows[j] # 2
      OBVIOUS
    <3>2. calls[i].thunk # "fetchRequests" /\ requestsSlice' = [requestsSlice EXCEPT !.mine = rows]
      BY <2>3 DEF Fulfilled
    <3> HIDE DEF rows
    <3>3. QED
      BY <1>1, <3>1, <3>2 DEF ShopSlice
  <2>4. CASE Fulfilled(i, "fetchSimilarRequests")
             /\ requestsSlice' = [requestsSlice EXCEPT !.similar = calls[i].data.similar,
                                                       !.exact = calls[i].data.exact]
    <3>1. /\ calls[i].data.similar \subseteq demand.exists /\ calls[i].data.exact \in Names
          /\ calls[i].thunk # "fetchRequests"
      BY <1>1, <2>4 DEF Fulfilled, ShopCall
    <3>2. QED
      BY <1>1, <2>4, <3>1 DEF ShopSlice
  <2>5. CASE Rejected(i, "fetchSimilarRequests") /\ requestsSlice' = Unsuggested(requestsSlice)
    BY <1>1, <2>5 DEF ShopSlice, Unsuggested, Names, Rejected
  <2>6. QED
    BY <2>1, <2>2, <2>3, <2>4, <2>5 DEF RequestsRead
<1>5. Told(requestsSlice, newRequest, requestsSlice', newRequest, calls[i])
  BY <1>3, <1>4 DEF Told
<1>6. FlightOK(requestsSlice', newRequest, Done(i), demand) /\ Done(i)[i] = NoThunk
  BY <1>1, <1>5, DoneKeeps
<1>7. QED
  BY <1>2, <1>4, <1>6 DEF ShopNow

\* A create accepted: one row more, and the list read again.
LEMMA CreateLands ==
  ASSUME ShopNow, NEW i \in CallSlots, RequestCreated(i)
  PROVE  ShopNow'
<1> DEFINE item == calls[i].data
           mine == [requestsSlice.mine EXCEPT ![item] = @ + 1]
           still == [requestsSlice EXCEPT !.mine = mine, !.loading = FALSE]
           arg == Unfiltered
<1>1. /\ DemandFits(demand) /\ ShopSlice(requestsSlice, demand)
      /\ FlightOK(requestsSlice, newRequest, calls, demand) /\ ShopCall(calls[i], demand)
      /\ DialogOn(newRequest, shopPage)
  BY DEF ShopNow, FlightOK, ShopFlight
<1>2. /\ calls[i].at = "fulfilled" /\ calls[i].thunk = "createRequest"
      /\ calls' = Sent(Done(i), "fetchRequests", arg) /\ UNCHANGED <<demand, shopPage>>
      /\ newRequest' = IF calls[i].own THEN NewDialog ELSE newRequest
  BY DEF RequestCreated, Fulfilled
<1>3. item \in demand.made /\ item \in Items /\ requestsSlice.mine[item] # 2
  BY <1>1, <1>2 DEF ShopCall, DemandFits, FlightOK, CreatesOnce
<1>4. /\ mine \in [Items -> 0..2]
      /\ \A x \in Items : mine[x] = 2 => requestsSlice.mine[x] = 2 \/ x = item
  <2>1. requestsSlice.mine \in [Items -> 0..2]
    BY <1>1 DEF ShopSlice
  <2>2. requestsSlice.mine[item] + 1 \in 0..2
    BY <1>3, <2>1
  <2>3. QED
    BY <2>1, <2>2
<1>5. /\ requestsSlice'.mine = mine /\ requestsSlice'.current = requestsSlice.current
      /\ requestsSlice'.similar = {} /\ requestsSlice'.exact = None
      /\ requestsSlice'.loading = TRUE
      /\ DOMAIN requestsSlice' = {"mine", "current", "similar", "exact", "loading"}
  BY <1>1 DEF RequestCreated, Unsuggested, ShopSlice
<1>6. still.mine = mine /\ still.loading = FALSE
  BY <1>1 DEF ShopSlice
<1> HIDE DEF mine, still, arg
<1>7. ShopSlice(requestsSlice', demand)
  BY <1>1, <1>3, <1>4, <1>5 DEF ShopSlice, Names
<1>8. DialogOn(newRequest', shopPage)
  <2>1. DialogOn(NewDialog, shopPage)
    BY DEF DialogOn, NewDialog, Names
  <2>2. QED
    BY <1>1, <1>2, <2>1
<1>9. newRequest'.saving => newRequest.saving /\ calls[i].own # TRUE
  <2>1. NewDialog.saving = FALSE
    BY DEF NewDialog
  <2>2. QED
    BY <1>2, <2>1
<1>10. Told(requestsSlice, newRequest, still, newRequest', calls[i])
  BY <1>2, <1>4, <1>6, <1>9 DEF Told
<1>12. FlightOK(still, newRequest', Done(i), demand) /\ Done(i)[i] = NoThunk
  BY <1>1, <1>10, DoneKeeps
<1>13. /\ ShopFlight(Done(i), demand) /\ CreatesOnce(requestsSlice', Done(i))
       /\ newRequest'.saving => \E j \in CallSlots : Done(i)[j].own = TRUE
  BY <1>5, <1>6, <1>12 DEF FlightOK, CreatesOnce, ShopAwaited
<1>14. FlightOK(requestsSlice', newRequest', Sent(Done(i), "fetchRequests", arg), demand)
  BY <1>12, <1>13, SearchKeeps
<1>15. QED
  BY <1>1, <1>2, <1>7, <1>8, <1>14 DEF ShopNow

\* Joining, leaving and changing a quantity.
LEMMA ParticipationLands ==
  ASSUME ShopNow, NEW i \in CallSlots, ParticipationChanged(i)
  PROVE  ShopNow'
<1> DEFINE item == calls[i].data
<1>1. /\ DemandFits(demand) /\ ShopSlice(requestsSlice, demand)
      /\ FlightOK(requestsSlice, newRequest, calls, demand) /\ ShopCall(calls[i], demand)
      /\ DialogOn(newRequest, shopPage) /\ ShopPageFits(shopPage, demand)
  BY DEF ShopNow, FlightOK, ShopFlight
<1>2. /\ UNCHANGED demand /\ calls[i].thunk \in Participations /\ calls[i].at = "fulfilled"
  BY DEF ParticipationChanged, Fulfilled, Participations
<1>3. item \in Items /\ calls[i].thunk # "fetchRequests"
  BY <1>1, <1>2 DEF ShopCall, Participations
<1>4. /\ ShopSlice(requestsSlice', demand) /\ requestsSlice'.loading = requestsSlice.loading
      /\ \A x \in Items : requestsSlice'.mine[x] = 2 => requestsSlice.mine[x] = 2
  <2>1. requestsSlice.mine \in [Items -> 0..2]
    BY <1>1 DEF ShopSlice
  <2>2. CASE Fulfilled(i, "joinRequest")
    <3> DEFINE mine == WithJoined(requestsSlice.mine, item)
    <3>1. mine \in [Items -> 0..2] /\ \A x \in Items : mine[x] = 2 => requestsSlice.mine[x] = 2
      BY <1>3, <2>1 DEF WithJoined
    <3>2. \/ requestsSlice' = [requestsSlice EXCEPT !.mine = mine, !.current = item]
          \/ requestsSlice' = [Unsuggested(requestsSlice) EXCEPT !.mine = mine, !.current = item]
      BY <2>2 DEF ParticipationChanged, Fulfilled, Unsuggested
    <3> HIDE DEF mine, item
    <3>3. CASE requestsSlice' = [requestsSlice EXCEPT !.mine = mine, !.current = item]
      BY <1>1, <1>3, <3>1, <3>3 DEF ShopSlice, Names
    <3>4. CASE requestsSlice' = [Unsuggested(requestsSlice) EXCEPT !.mine = mine, !.current = item]
      BY <1>1, <1>3, <3>1, <3>4 DEF ShopSlice, Names, Unsuggested
    <3>5. QED
      BY <3>2, <3>3, <3>4
  <2>3. CASE Fulfilled(i, "leaveRequest")
    <3>1. requestsSlice' = [requestsSlice EXCEPT !.mine[item] = 0]
      BY <2>3 DEF ParticipationChanged, Fulfilled
    <3> HIDE DEF item
    <3>2. QED
      BY <1>1, <1>3, <2>1, <3>1 DEF ShopSlice
  <2>4. CASE Fulfilled(i, "updateQuantity")
    <3>1. requestsSlice' = [requestsSlice EXCEPT !.current = item]
      BY <2>4 DEF ParticipationChanged, Fulfilled
    <3> HIDE DEF item
    <3>2. QED
      BY <1>1, <1>3, <3>1 DEF ShopSlice, Names
  <2>5. QED
    BY <2>2, <2>3, <2>4 DEF ParticipationChanged
<1>5. CASE ToMine(Done(i))
  <2>1. ~NewDialog.saving
    BY DEF NewDialog
  <2>2. Told(requestsSlice, newRequest, requestsSlice', NewDialog, calls[i])
    BY <1>3, <1>4, <2>1 DEF Told
  <2>3. FlightOK(requestsSlice', NewDialog, Done(i), demand) /\ Done(i)[i] = NoThunk
    BY <1>1, <2>2, DoneKeeps
  <2>4. /\ ShopPageFits(shopPage', demand) /\ DialogOn(newRequest', shopPage')
        /\ FlightOK(requestsSlice', newRequest', calls', demand)
    BY <1>1, <1>5, <2>3, ToMineKeeps
  <2>5. QED
    BY <1>1, <1>2, <1>4, <2>4 DEF ShopNow
<1>6. CASE /\ Fulfilled(i, "updateQuantity")
           /\ calls' = Done(i) /\ UNCHANGED <<shopPage, newRequest>>
  <2>1. calls[i].own # TRUE
    BY <1>1, <1>6 DEF Fulfilled, ShopCall
  <2>2. Told(requestsSlice, newRequest, requestsSlice', newRequest, calls[i])
    BY <1>3, <1>4, <2>1 DEF Told
  <2>3. FlightOK(requestsSlice', newRequest, Done(i), demand) /\ Done(i)[i] = NoThunk
    BY <1>1, <2>2, DoneKeeps
  <2>4. QED
    BY <1>1, <1>2, <1>4, <1>6, <2>3 DEF ShopNow
<1>7. QED
  BY <1>5, <1>6 DEF ParticipationChanged

\* A rejection.
LEMMA RejectionLands ==
  ASSUME ShopNow, NEW i \in CallSlots, RequestRejected(i)
  PROVE  ShopNow'
<1>1. /\ DemandFits(demand) /\ ShopSlice(requestsSlice, demand)
      /\ FlightOK(requestsSlice, newRequest, calls, demand) /\ ShopCall(calls[i], demand)
      /\ DialogOn(newRequest, shopPage)
  BY DEF ShopNow, FlightOK, ShopFlight
<1>2. /\ UNCHANGED <<demand, shopPage>> /\ calls' = Done(i) /\ calls[i].at = "rejected"
      /\ requestsSlice' = RejectedSlice(i)
      /\ newRequest' = [newRequest EXCEPT !.saving = SavingAfter(i)]
  BY DEF RequestRejected
<1>3. calls[i].data # None => calls[i].data \in demand.exists /\ calls[i].data \in Names
  BY <1>1, <1>2 DEF ShopCall, DemandFits, Names
<1>4. /\ ShopSlice(requestsSlice', demand) /\ ~requestsSlice'.loading
      /\ requestsSlice'.mine = requestsSlice.mine
  BY <1>1, <1>2, <1>3 DEF RejectedSlice, ShopSlice
<1>5. /\ DialogOn(newRequest', shopPage)
      /\ newRequest'.saving => newRequest.saving /\ calls[i].own # TRUE
  BY <1>1, <1>2 DEF DialogOn, SavingAfter
<1>6. Told(requestsSlice, newRequest, requestsSlice', newRequest', calls[i])
  BY <1>4, <1>5 DEF Told
<1>7. FlightOK(requestsSlice', newRequest', Done(i), demand) /\ Done(i)[i] = NoThunk
  BY <1>1, <1>6, DoneKeeps
<1>8. QED
  BY <1>1, <1>2, <1>4, <1>5, <1>7 DEF ShopNow

\* A step of another tour leaves the shop.
LEMMA ShopElsewhere ==
  ASSUME ShopInv, tour \notin ShopTours, UNCHANGED <<tour, requestPageVars>>
  PROVE  ShopInv'
BY DEF ShopInv, requestPageVars

\* Every step of the shop's tours.
LEMMA ShopSteps ==
  ASSUME ShopNow, tour \in ShopTours, Next
  PROVE  ShopNow' /\ UNCHANGED tour
<1>1. CASE UserActs
  <2>1. (SearcherActs \/ RequesterActs \/ AdopterActs \/ ParticipantActs) /\ UNCHANGED tour
    BY <1>1 DEF UserActs, ShopTours, ForShop
  <2>2. \/ GoRequests \/ GoMyRequests \/ \E i \in Items : OpenCard(i)
        \/ \E q \in Names : TypeQuery(q) \/ SearchFires(q)
        \/ \E t \in Participations : Participate(t)
        \/ \E i \in Items : SomeoneRequests(i)
        \/ OpenDialog \/ CloseDialog \/ SubmitRequest
        \/ \E n \in Names : TypeName(n)
        \/ \E n \in Items : LookupFires(n) \/ JoinSuggested(n)
    BY <2>1 DEF SearcherActs, RequesterActs, AdopterActs, ParticipantActs, DialogUser,
                Participations
  <2>3. QED
    BY <2>1, <2>2, ShopMoves, PageActs, DialogSteps
<1>2. CASE Timers
  BY <1>2, PageActs, DialogSteps DEF Timers, ForShop, TimersFire
<1>3. ASSUME NEW i \in CallSlots, Serve(i)
      PROVE  ShopNow' /\ UNCHANGED tour
  <2>1. ServeRequests(i) /\ UNCHANGED tour
    BY <1>3 DEF Serve, ForShop, ShopTours, DeskTours
  <2>2. QED
    BY <2>1, ShopServed
<1>4. ASSUME NEW i \in CallSlots, Settle(i)
      PROVE  ShopNow' /\ UNCHANGED tour
  <2>1. SettleRequests(i) /\ UNCHANGED tour
    BY <1>4 DEF Settle, ForShop, ShopTours, DeskTours
  <2>2. QED
    BY <2>1, ReadLands, CreateLands, ParticipationLands, RejectionLands DEF SettleRequests
<1>5. ASSUME NEW i \in CallSlots, Fail(i)
      PROVE  ShopNow' /\ UNCHANGED tour
  BY <1>5, ShopFails DEF Fail
<1>6. QED
  BY <1>1, <1>2, <1>3, <1>4, <1>5 DEF Next

LEMMA ShopInvariant == Spec => []ShopInv
<1>1. Init => ShopInv
  <2> SUFFICES ASSUME Init PROVE ShopInv
    OBVIOUS
  <2>1. DemandFits(demand)
    <3> DEFINE first == CHOOSE i \in Items : TRUE
    <3>1. first \in Items
      BY RequestPageConstants
    <3>2. demand = [exists |-> {first}, on |-> {}, made |-> {}]
      BY DEF Init, RequestPagesInit
    <3> HIDE DEF first
    <3>3. QED
      BY <3>1, <3>2 DEF DemandFits
  <2>2. ShopSlice(requestsSlice, demand) /\ ~requestsSlice.loading
    BY DEF Init, RequestPagesInit, ShopSlice, Names
  <2>3. /\ ShopPageFits(shopPage, demand) /\ DialogOn(newRequest, shopPage)
        /\ ~newRequest.saving
    BY NewPage DEF Init, RequestPagesInit
  <2>4. ShopFlight(calls, demand)
    BY NoThunkFields, NoThunkShops DEF Init, NothingInFlight, ShopFlight
  <2>5. CreatesOnce(requestsSlice, calls)
    BY NoThunkFields, ThunkConstants DEF Init, NothingInFlight, CreatesOnce
  <2>6. QED
    BY <2>1, <2>2, <2>3, <2>4, <2>5 DEF ShopInv, ShopAwaited
<1>2. ShopInv /\ [Next]_vars => ShopInv'
  <2> SUFFICES ASSUME ShopInv, [Next]_vars
               PROVE  ShopInv'
    OBVIOUS
  <2>1. CASE Next /\ tour \in ShopTours
    <3>1. ShopNow' /\ UNCHANGED tour
      BY <2>1, ShopNowIs, ShopSteps
    <3>2. QED
      BY <2>1, <3>1 DEF ShopInv, ShopNow, FlightOK
  <2>2. CASE Next /\ tour \notin ShopTours
    <3>1. UNCHANGED <<tour, requestPageVars>>
      BY <2>2 DEF Next, UserActs, Timers, Serve, Settle, Fail, ForOffers, ForDesk, ForInbox,
                  ForPicture, ForField, ShopTours
    <3>2. QED
      BY <2>2, <3>1, ShopElsewhere
  <2>3. CASE UNCHANGED vars
    BY <2>3 DEF vars, ShopInv, requestPageVars
  <2>4. QED
    BY <2>1, <2>2, <2>3
<1>3. QED
  BY <1>1, <1>2, PTL DEF Spec

\* requestsSlice's join adds its row only if there is none: My requests has no second row
\* for a request joined, in whatever order joins and lists are answered.
THEOREM JoinedAtMostOnce == Spec => []JoinedListedAtMostOnce
<1>1. ShopInv => JoinedListedAtMostOnce
  BY DEF ShopInv, ShopSlice, JoinedListedAtMostOnce
<1>2. QED
  BY <1>1, ShopInvariant, PTL

\* Browse's skeleton and NewRequestDialog's buttons never wait for nothing.
THEOREM ShopWaitsEnd == Spec => []RequestsWaitIsAwaited
<1>1. ShopInv => RequestsWaitIsAwaited
  BY DEF ShopInv, ShopAwaited, RequestsWaitIsAwaited
<1>2. QED
  BY <1>1, ShopInvariant, PTL

-----------------------------------------------------------------------------
(* What the timers ask for.  The calls of every tour are followed: a slot that was empty   *)
(* holds a search or a lookup only if one of the two timers sent it.                      *)

Honest(call) ==
  /\ call.thunk = "fetchSimilarRequests" => newRequest.open /\ call.arg = newRequest.name
  /\ call.thunk = "fetchRequests" /\ call.arg # Unfiltered =>
       shopPage.at = "browse" /\ call.arg.q = shopPage.query

Asked(flight) ==
  /\ DOMAIN flight = CallSlots
  /\ \A i \in CallSlots :
       DOMAIN flight[i] = ThunkKeys /\ (calls[i] = NoThunk => Honest(flight[i]))

Typed == {"fetchRequests", "fetchSimilarRequests"}

LEMMA HonestNoThunk == Honest(NoThunk)
BY NoThunkFields, RequestPageConstants DEF Honest

LEMMA AskedCalls ==
  ASSUME CallsFit
  PROVE  Asked(calls) /\ Asked(Orphaned(calls))
<1>1. Asked(calls)
  BY HonestNoThunk DEF CallsFit, Asked
<1>2. DOMAIN Orphaned(calls) = CallSlots
      /\ \A i \in CallSlots : DOMAIN Orphaned(calls)[i] = ThunkKeys
  BY OrphanedFields DEF CallsFit
<1>3. \A i \in CallSlots : calls[i] = NoThunk => Orphaned(calls)[i] = NoThunk
  BY OrphanedKeepsFree
<1>4. QED
  BY <1>1, <1>2, <1>3, HonestNoThunk DEF Asked

LEMMA AskedDone ==
  ASSUME CallsFit, NEW i \in CallSlots
  PROVE  Asked(Done(i)) /\ Asked(Orphaned(Done(i))) /\ Asked(Orphans(Done(i)))
<1>1. /\ DOMAIN Done(i) = CallSlots
      /\ \A j \in CallSlots : Done(i)[j] = IF j = i THEN NoThunk ELSE calls[j]
  BY Freed
<1>2. Asked(Done(i)) /\ \A j \in CallSlots : DOMAIN Done(i)[j] = ThunkKeys
  BY <1>1, NoThunkFields, HonestNoThunk DEF Asked, CallsFit
<1>3. DOMAIN Orphaned(Done(i)) = CallSlots
      /\ \A j \in CallSlots : DOMAIN Orphaned(Done(i))[j] = ThunkKeys
  BY <1>1, <1>2, OrphanedFields
<1>4. \A j \in CallSlots : Done(i)[j] = NoThunk => Orphaned(Done(i))[j] = NoThunk
  BY OrphanedKeepsFree
<1>5. Asked(Orphaned(Done(i)))
  BY <1>1, <1>3, <1>4, HonestNoThunk DEF Asked
<1>6. QED
  BY <1>2, <1>5 DEF Orphans

LEMMA AskedSent ==
  ASSUME NEW flight, Asked(flight), NEW thunk, NEW arg, Honest(SentCall(thunk, arg))
  PROVE  Asked(Sent(flight, thunk, arg))
<1>1. DOMAIN SentCall(thunk, arg) = ThunkKeys
  BY DEF SentCall, ThunkKeys
<1>2. /\ DOMAIN Sent(flight, thunk, arg) = CallSlots
      /\ \A i \in CallSlots : \/ Sent(flight, thunk, arg)[i] = flight[i]
                              \/ Sent(flight, thunk, arg)[i] = SentCall(thunk, arg)
  BY SentSlots DEF Asked
<1>3. QED
  BY <1>1, <1>2 DEF Asked

LEMMA AskedAwaited ==
  ASSUME NEW flight, Asked(flight), NEW thunk, NEW arg, Honest(AwaitedCall(thunk, arg))
  PROVE  Asked(Awaited(flight, thunk, arg))
<1>1. DOMAIN AwaitedCall(thunk, arg) = ThunkKeys
  BY DEF AwaitedCall, ThunkKeys
<1>2. /\ DOMAIN Awaited(flight, thunk, arg) = CallSlots
      /\ \A i \in CallSlots : \/ Awaited(flight, thunk, arg)[i] = flight[i]
                              \/ Awaited(flight, thunk, arg)[i] = AwaitedCall(thunk, arg)
  BY AwaitedSlots DEF Asked
<1>3. QED
  BY <1>1, <1>2 DEF Asked

\* Every other call is honest.
LEMMA HonestOther ==
  ASSUME NEW thunk, NEW arg, thunk \notin Typed
  PROVE  Honest(SentCall(thunk, arg)) /\ Honest(AwaitedCall(thunk, arg))
BY DEF Honest, SentCall, AwaitedCall, Typed

LEMMA AskedQuietly ==
  ASSUME NEW flight, Asked(flight), NEW thunk, NEW arg, thunk \notin Typed
  PROVE  Asked(Sent(flight, thunk, arg)) /\ Asked(Awaited(flight, thunk, arg))
BY HonestOther, AskedSent, AskedAwaited

\* An answer or a failure is given to a call that is there.
LEMMA AskedStamp ==
  ASSUME CallsFit, NEW i \in CallSlots, NEW data, calls[i].at # None,
         Answer(i, data) \/ Refuse(i, data)
  PROVE  Asked(calls')
<1>1. /\ DOMAIN calls' = CallSlots
      /\ \A j \in CallSlots : DOMAIN calls'[j] = ThunkKeys /\ (j # i => calls'[j] = calls[j])
  BY DEF CallsFit, Answer, Refuse, ThunkKeys
<1>2. calls[i] # NoThunk
  BY NoThunkFields
<1>3. QED
  BY <1>1, <1>2, HonestNoThunk DEF Asked

\* The shop's own handlers and timers.
LEMMA AskedInShop ==
  ASSUME CallsFit, ShopInv,
         SearcherActs \/ RequesterActs \/ AdopterActs \/ ParticipantActs \/ TimersFire
  PROVE  Asked(calls')
<1>1. Asked(calls) /\ Asked(Orphaned(calls))
  BY AskedCalls
<1>2. CASE calls' = calls \/ calls' = Orphaned(calls)
  BY <1>1, <1>2
<1>3. ASSUME NEW thunk, NEW arg, thunk \notin Typed,
             \/ calls' = Sent(calls, thunk, arg) \/ calls' = Sent(Orphaned(calls), thunk, arg)
             \/ calls' = Awaited(calls, thunk, arg)
      PROVE  Asked(calls')
  BY <1>1, <1>3, AskedQuietly
<1>4. ASSUME NEW q \in Names, SearchFires(q)
      PROVE  Asked(calls')
  <2> DEFINE arg == Filter(q)
  <2>1. q \in shopPage.timers /\ calls' = Sent(calls, "fetchRequests", arg)
    BY <1>4 DEF SearchFires
  <2>2. shopPage.at = "browse" /\ q = shopPage.query
    BY <2>1 DEF ShopInv, ShopPageFits
  <2>3. arg.q = shopPage.query
    BY <2>2 DEF Filter
  <2> HIDE DEF arg
  <2>4. Honest(SentCall("fetchRequests", arg))
    BY <2>2, <2>3 DEF Honest, SentCall
  <2>5. QED
    BY <1>1, <2>1, <2>4, AskedSent
<1>5. ASSUME NEW n \in Items, LookupFires(n)
      PROVE  Asked(calls')
  <2>1. n \in newRequest.timers /\ calls' = Sent(calls, "fetchSimilarRequests", n)
    BY <1>5 DEF LookupFires
  <2>2. newRequest.open /\ n = newRequest.name
    BY <2>1 DEF ShopInv, DialogOn
  <2>3. Honest(SentCall("fetchSimilarRequests", n))
    BY <2>2 DEF Honest, SentCall
  <2>4. QED
    BY <1>1, <2>1, <2>3, AskedSent
<1>6. ASSUME NEW i \in Items, OpenCard(i)
      PROVE  Asked(calls')
  <2>1. calls' = Sent(Sent(Orphaned(calls), "fetchRequest", i), "fetchMyRequests", None)
    BY <1>6 DEF OpenCard
  <2>2. Asked(Sent(Orphaned(calls), "fetchRequest", i))
    BY <1>1, AskedQuietly DEF Typed
  <2>3. QED
    BY <2>1, <2>2, AskedQuietly DEF Typed
<1>7. CASE GoRequests
  BY <1>2, <1>7 DEF GoRequests
<1>8. CASE GoMyRequests
  BY <1>2, <1>3, <1>8 DEF GoMyRequests, ToMine, Typed
<1>9. CASE \/ OpenDialog \/ CloseDialog
           \/ \E n \in Names : TypeName(n) \/ TypeQuery(n)
           \/ \E i \in Items : SomeoneRequests(i)
  BY <1>2, <1>9 DEF OpenDialog, CloseDialog, TypeName, TypeQuery, SomeoneRequests, DialogDrawn
<1>10. CASE SubmitRequest \/ \E i \in Items : JoinSuggested(i)
  <2>1. PICK thunk \in {"createRequest", "joinRequest"} : \E arg : DialogActs(thunk, arg)
    BY <1>10 DEF SubmitRequest, JoinSuggested
  <2>2. PICK arg : DialogActs(thunk, arg)
    BY <2>1
  <2>3. calls' = Awaited(calls, thunk, arg) /\ thunk \notin Typed
    BY <2>2 DEF DialogActs, Typed
  <2>4. QED
    BY <1>3, <2>3
<1>11. CASE \E t \in Participations : Participate(t)
  <2>1. PICK t \in Participations : Participate(t)
    BY <1>11
  <2>2. t \notin Typed /\ calls' = Sent(calls, t, [item |-> shopPage.item, dialog |-> FALSE])
    BY <2>1 DEF Participate, Participations, Typed
  <2>3. QED
    BY <1>3, <2>2
<1>12. QED
  BY <1>4, <1>5, <1>6, <1>7, <1>8, <1>9, <1>10, <1>11
  DEF SearcherActs, RequesterActs, AdopterActs, ParticipantActs, TimersFire, DialogUser,
      Participations

\* The other pages' handlers.
LEMMA AskedElsewhere ==
  ASSUME CallsFit,
         \/ SellerActs \/ AdminActs \/ ContactReaderActs
         \/ InboxActs \/ PictureActs \/ FieldActs
  PROVE  Asked(calls')
<1>1. Asked(calls) /\ Asked(Orphaned(calls))
  BY AskedCalls
<1>2. CASE calls' = calls \/ calls' = Orphaned(calls)
  BY <1>1, <1>2
<1>3. ASSUME NEW thunk, NEW arg, thunk \notin Typed,
             \/ calls' = Sent(calls, thunk, arg) \/ calls' = Sent(Orphaned(calls), thunk, arg)
             \/ calls' = Awaited(calls, thunk, arg) \/ calls' = Awaited(Orphaned(calls), thunk, arg)
      PROVE  Asked(calls')
  BY <1>1, <1>3, AskedQuietly
<1>4. CASE SellerActs
  <2>1. CASE GoBrowse \/ ToggleItemDialog \/ \E o \in DOMAIN offers : DecideOffer(o)
    BY <1>2, <2>1 DEF GoBrowse, ToggleItemDialog, DecideOffer
  <2>2. CASE GoMine \/ \E r \in Requests : OpenRequest(r) \/ SubmitItem(r)
    <3>1. PICK thunk \in {"fetchMyOffers", "fetchOffersForRequest", "createOffer"} : \E arg :
            calls' = Sent(Orphaned(calls), thunk, arg) \/ calls' = Awaited(calls, thunk, arg)
      BY <2>2 DEF GoMine, OpenRequest, SubmitItem
    <3>2. QED
      BY <1>3, <3>1 DEF Typed
  <2>3. CASE SubmitOffer \/ Withdraw
    <3>1. PICK thunk \in Changes : Act(thunk)
      BY <2>3 DEF SubmitOffer, Withdraw, Changes
    <3>2. QED
      BY <1>3, <3>1 DEF Act, Typed, Changes
  <2>4. QED
    BY <1>4, <2>1, <2>2, <2>3 DEF SellerActs, OfferOnThis
<1>5. CASE AdminActs \/ ContactReaderActs
  <2>1. ASSUME NEW page, Visit(page)
        PROVE  Asked(calls')
    BY <1>2, <1>3, <2>1 DEF Visit, Typed
  <2>2. ASSUME NEW page, NEW shown, NEW thunk, NEW arg, Press(page, shown, thunk, arg),
               thunk \notin Typed
        PROVE  Asked(calls')
    BY <1>3, <2>2 DEF Press
  <2>3. ASSUME NEW c \in Cases, PressDecide(c, "GRANTED") \/ PressDecide(c, "REJECTED")
        PROVE  Asked(calls')
    <3>1. PICK verdict \in {"GRANTED", "REJECTED"} : PressDecide(c, verdict)
      BY <2>3
    <3>2. QED
      BY <2>2, <3>1 DEF PressDecide, Typed
  <2>4. ASSUME NEW c \in Cases, PressRevoke(c) \/ PressShow(c)
        PROVE  Asked(calls')
    <3>1. PICK thunk \in {"revokeGrant", "fetchContacts"} : calls' = Sent(calls, thunk, c)
      BY <2>4 DEF PressRevoke, PressShow, Press
    <3>2. QED
      BY <1>3, <3>1 DEF Typed
  <2>5. CASE PressHide \/ \E c \in Cases : CaseMoves(c)
    BY <1>2, <2>5 DEF PressHide, CaseMoves
  <2>6. QED
    BY <1>5, <2>1, <2>3, <2>4, <2>5 DEF AdminActs, ContactReaderActs
<1>6. CASE InboxActs
  <2>1. CASE OpenInbox
    <3>1. calls' = Sent(Sent(calls, "fetchNotifications", None), "fetchUnreadCount", None)
      BY <2>1 DEF OpenInbox
    <3>2. Asked(Sent(calls, "fetchNotifications", None))
      BY <1>1, AskedQuietly DEF Typed
    <3>3. QED
      BY <3>1, <3>2, AskedQuietly DEF Typed
  <2>2. CASE LeaveInbox \/ \E n \in Notices : Notify(n)
    BY <1>2, <2>2 DEF LeaveInbox, Notify
  <2>3. CASE ListTick \/ UnreadTick \/ \E n \in Notices : MarkRead(n)
    BY <1>3, <2>3 DEF ListTick, UnreadTick, MarkRead, Typed
  <2>4. QED
    BY <1>6, <2>1, <2>2, <2>3 DEF InboxActs
<1>7. CASE PictureActs
  <2>1. ASSUME NEW key, Effect(key)
        PROVE  Asked(calls')
    BY <1>2, <1>3, <2>1 DEF Effect, CleanedUp, Typed
  <2>2. QED
    BY <1>2, <1>7, <2>1 DEF PictureActs, Unmount, TokenChanges, Want, OfferUpdated
<1>8. CASE FieldActs
  BY <1>2, <1>8 DEF FieldActs
<1>9. QED
  BY <1>4, <1>5, <1>6, <1>7, <1>8

\* The services' answers.
LEMMA AskedServed ==
  ASSUME CallsFit, NEW i \in CallSlots, Serve(i)
  PROVE  Asked(calls')
<1>1. /\ calls[i].at = "wire"
      /\ \E data : Answer(i, data) \/ Refuse(i, data)
  <2>1. CASE ServeRequests(i)
    BY <2>1 DEF ServeRequests, ServeRequestRead, ServeRequestCreate, ServeParticipation, On
  <2>2. CASE ServeOffers(i)
    BY <2>2 DEF ServeOffers, ServeOfferRead, ServeCreate, ServeChange, On
  <2>3. CASE ServeAdmin(i)
    BY <2>3 DEF ServeAdmin, ServeAdminRead, ServeAdminChange, Moved, On
  <2>4. CASE ServeInbox(i)
    BY <2>4 DEF ServeInbox, On
  <2>5. CASE ServeImage(i)
    BY <2>5 DEF ServeImage, On
  <2>6. QED
    BY <2>1, <2>2, <2>3, <2>4, <2>5 DEF Serve, ForShop, ForOffers, ForDesk, ForInbox, ForPicture
<1>2. PICK data : Answer(i, data) \/ Refuse(i, data)
  BY <1>1
<1>3. QED
  BY <1>1, <1>2, AskedStamp, ThunkConstants

\* The slices' cases.
LEMMA AskedSettled ==
  ASSUME CallsFit, NEW i \in CallSlots, Settle(i)
  PROVE  Asked(calls')
<1>1. Asked(Done(i)) /\ Asked(Orphaned(Done(i))) /\ Asked(Orphans(Done(i)))
  BY AskedDone
<1>2. ASSUME NEW thunk, NEW arg, thunk \notin Typed,
             \/ calls' = Sent(Done(i), thunk, arg) \/ calls' = Sent(Orphans(Done(i)), thunk, arg)
             \/ calls' = Sent(Orphaned(Done(i)), thunk, arg)
      PROVE  Asked(calls')
  BY <1>1, <1>2, AskedQuietly
<1>3. CASE SettleRequests(i)
  <2>1. CASE RequestCreated(i)
    <3>1. calls' = Sent(Done(i), "fetchRequests", Unfiltered)
      BY <2>1 DEF RequestCreated
    <3>2. Honest(SentCall("fetchRequests", Unfiltered))
      BY DEF Honest, SentCall
    <3>3. QED
      BY <1>1, <3>1, <3>2, AskedSent
  <2>2. CASE RequestsRead(i) \/ RequestRejected(i)
    BY <1>1, <2>2 DEF RequestsRead, RequestRejected
  <2>3. CASE ParticipationChanged(i)
    BY <1>1, <1>2, <2>3 DEF ParticipationChanged, ToMine, Typed
  <2>4. QED
    BY <1>3, <2>1, <2>2, <2>3 DEF SettleRequests
<1>4. CASE SettleOffers(i)
  BY <1>1, <1>2, <1>4
  DEF SettleOffers, OffersRead, OfferChanged, ItemOffered, OfferRejected, Typed
<1>5. CASE SettleAdmin(i) \/ InboxFulfilled(i) \/ InboxRejected(i) \/ ImageLands(i)
  BY <1>1, <1>5 DEF SettleAdmin, InboxFulfilled, InboxRejected, ImageLands
<1>6. QED
  BY <1>3, <1>4, <1>5 DEF Settle, ForShop, ForOffers, ForDesk, ForInbox, ForPicture

LEMMA AskedNext ==
  ASSUME CallsFit, ShopInv, Next
  PROVE  Asked(calls')
<1>1. CASE UserActs
  BY <1>1, AskedInShop, AskedElsewhere
  DEF UserActs, ForShop, ForOffers, ForDesk, ForInbox, ForPicture, ForField
<1>2. CASE Timers
  BY <1>2, AskedInShop DEF Timers, ForShop
<1>3. ASSUME NEW i \in CallSlots, Fail(i)
      PROVE  Asked(calls')
  <2>1. Refuse(i, None) /\ calls[i].at # None
    BY <1>3, ThunkConstants DEF Fail, FailThunk
  <2>2. QED
    BY <2>1, AskedStamp
<1>4. QED
  BY <1>1, <1>2, <1>3, AskedServed, AskedSettled DEF Next

LEMMA CallsAlwaysFit == Spec => []CallsFit
<1>1. Init => CallsFit
  BY NoThunkFields DEF Init, NothingInFlight, CallsFit
<1>2. CallsFit /\ ShopInv /\ [Next]_vars => CallsFit'
  <2> SUFFICES ASSUME CallsFit, ShopInv, [Next]_vars
               PROVE  CallsFit'
    OBVIOUS
  <2>1. CASE Next
    BY <2>1, AskedNext DEF Asked, CallsFit
  <2>2. CASE UNCHANGED vars
    BY <2>2 DEF vars, CallsFit
  <2>3. QED
    BY <2>1, <2>2
<1>3. QED
  BY <1>1, <1>2, ShopInvariant, PTL DEF Spec

\* BrowseRequests.tsx and NewRequestDialog.tsx debounce what is typed: the search and the
\* lookup a timer sends are for what stands in the box, never for a name typed over, or
\* typed into a dialog since closed or a page since left.
THEOREM TimersAskForWhatIsTyped == Spec => AsksForWhatIsTyped
<1>1. CallsFit /\ ShopInv /\ [Next]_vars =>
        [\A i \in CallSlots :
           calls[i] = NoThunk =>
             /\ calls'[i].thunk = "fetchSimilarRequests" =>
                  newRequest.open /\ calls'[i].arg = newRequest.name
             /\ calls'[i].thunk = "fetchRequests" /\ calls'[i].arg # Unfiltered =>
                  shopPage.at = "browse" /\ calls'[i].arg.q = shopPage.query]_calls
  BY AskedNext DEF vars, Asked, Honest
<1>2. QED
  BY <1>1, ShopInvariant, CallsAlwaysFit, PTL DEF Spec, AsksForWhatIsTyped

-----------------------------------------------------------------------------
(* The inbox and the picture's field, for the types of all the pages.                   *)

InboxCall(call) ==
  call.at = "fulfilled" =>
    /\ call.thunk = "fetchNotifications" => DOMAIN call.data \subseteq Notices
    /\ call.thunk = "fetchUnreadCount" => call.data \in 0..Cardinality(Notices)

InboxInv ==
  /\ DOMAIN inbox \subseteq Notices
  /\ DOMAIN inboxSlice = {"items", "unread"}
  /\ DOMAIN inboxSlice.items \subseteq Notices
  /\ inboxSlice.unread \in 0..Cardinality(Notices)
  /\ tour = "inbox" => \A i \in CallSlots : InboxCall(calls[i])

\* The notifications are finitely many, and so are the unread among them.
LEMMA NoticesCounted == IsFiniteSet(Notices) /\ Cardinality(Notices) \in Nat
BY InboxConstants, FS_Interval, FS_CardinalityType DEF Notices

LEMMA InboxServed ==
  ASSUME InboxInv, CallsFit, tour = "inbox", UNCHANGED tour, NEW i \in CallSlots, ServeInbox(i)
  PROVE  InboxInv'
<1>1. Cardinality(Notices) \in Nat /\ UnreadCount \in 0..Cardinality(Notices)
  <2> DEFINE unread == {n \in DOMAIN inbox : inbox[n] = "SENT"}
  <2>1. unread \subseteq Notices
    BY DEF InboxInv
  <2> HIDE DEF unread
  <2>2. IsFiniteSet(unread) /\ Cardinality(unread) <= Cardinality(Notices)
    BY <2>1, NoticesCounted, FS_Subset
  <2>3. Cardinality(unread) \in Nat /\ Cardinality(Notices) \in Nat
    BY <2>2, NoticesCounted, FS_CardinalityType
  <2>4. QED
    BY <2>2, <2>3 DEF UnreadCount, unread
<1>2. DOMAIN inbox' \subseteq Notices /\ UNCHANGED inboxSlice
  BY DEF ServeInbox, InboxInv
<1>3. \A j \in CallSlots : j # i => calls'[j] = calls[j]
  BY DEF ServeInbox, Answer, CallsFit
<1>4. InboxCall(calls'[i])
  <2>1. CASE On(i, "fetchNotifications") /\ Answer(i, Listed)
    <3>1. calls'[i].thunk = "fetchNotifications" /\ calls'[i].data = Listed
      BY <2>1 DEF On, Answer, CallsFit, ThunkKeys
    <3>2. DOMAIN Listed \subseteq Notices
      BY DEF Listed, Newest, InboxInv
    <3>3. QED
      BY <3>1, <3>2 DEF InboxCall
  <2>2. CASE On(i, "fetchUnreadCount") /\ Answer(i, UnreadCount)
    <3>1. calls'[i].thunk = "fetchUnreadCount" /\ calls'[i].data = UnreadCount
      BY <2>2 DEF On, Answer, CallsFit, ThunkKeys
    <3>2. QED
      BY <1>1, <3>1 DEF InboxInv, InboxCall
  <2>3. CASE On(i, "markRead") /\ Answer(i, "READ")
    <3>1. calls'[i].thunk = "markRead"
      BY <2>3 DEF On, Answer, CallsFit, ThunkKeys
    <3>2. QED
      BY <3>1 DEF InboxCall
  <2>4. QED
    BY <2>1, <2>2, <2>3 DEF ServeInbox
<1>5. QED
  BY <1>2, <1>3, <1>4 DEF InboxInv

LEMMA InboxSettled ==
  ASSUME InboxInv, CallsFit, tour = "inbox", UNCHANGED tour, NEW i \in CallSlots,
         InboxFulfilled(i) \/ InboxRejected(i)
  PROVE  InboxInv'
<1>1. calls' = Done(i) /\ UNCHANGED inbox /\ InboxCall(calls[i])
  BY DEF InboxFulfilled, InboxRejected, inboxPageVars, InboxInv
<1>2. \A j \in CallSlots : InboxCall(calls'[j])
  <2>1. InboxCall(NoThunk)
    BY NoThunkFields, ThunkConstants DEF InboxCall
  <2>2. \A j \in CallSlots : calls'[j] = IF j = i THEN NoThunk ELSE calls[j]
    BY <1>1, Freed
  <2>3. QED
    BY <2>1, <2>2 DEF InboxInv
<1>3. /\ DOMAIN inboxSlice' = {"items", "unread"} /\ DOMAIN inboxSlice'.items \subseteq Notices
      /\ inboxSlice'.unread \in 0..Cardinality(Notices)
  <2>1. CASE Fulfilled(i, "fetchNotifications")
             /\ inboxSlice' = [inboxSlice EXCEPT !.items = calls[i].data]
    BY <1>1, <2>1 DEF InboxInv, InboxCall, Fulfilled
  <2>2. CASE Fulfilled(i, "fetchUnreadCount")
             /\ inboxSlice' = [inboxSlice EXCEPT !.unread = calls[i].data]
    BY <1>1, <2>2 DEF InboxInv, InboxCall, Fulfilled
  <2>3. CASE Fulfilled(i, "markRead") /\ InboxFulfilled(i)
    <3> DEFINE n == calls[i].arg
               rows == IF n \in DOMAIN inboxSlice.items
                       THEN [inboxSlice.items EXCEPT ![n] = "READ"] ELSE inboxSlice.items
               less == LessOne(inboxSlice.unread)
    <3>1. inboxSlice' = [inboxSlice EXCEPT !.items = rows, !.unread = less]
      BY <2>3 DEF InboxFulfilled, Fulfilled
    <3>2. DOMAIN rows \subseteq Notices
      BY DEF InboxInv
    <3>3. less \in 0..Cardinality(Notices)
      BY NoticesCounted DEF LessOne, InboxInv
    <3> HIDE DEF rows, less
    <3>4. QED
      BY <3>1, <3>2, <3>3 DEF InboxInv
  <2>4. CASE InboxRejected(i)
    BY <2>4 DEF InboxRejected, inboxPageVars, InboxInv
  <2>5. QED
    BY <2>1, <2>2, <2>3, <2>4 DEF InboxFulfilled
<1>4. QED
  BY <1>1, <1>2, <1>3 DEF InboxInv

LEMMA InboxUsed ==
  ASSUME InboxInv, CallsFit, tour = "inbox", UNCHANGED tour, InboxActs
  PROVE  InboxInv'
<1>1. DOMAIN inbox' \subseteq Notices /\ UNCHANGED inboxSlice
  BY DEF InboxActs, OpenInbox, LeaveInbox, ListTick, UnreadTick, MarkRead, Notify,
         inboxPageVars, InboxInv
<1>2. ASSUME NEW thunk, NEW arg
      PROVE  InboxCall(SentCall(thunk, arg))
  BY DEF InboxCall, SentCall
<1>3. ASSUME NEW flight, DOMAIN flight = CallSlots, \A i \in CallSlots : InboxCall(flight[i]),
             NEW thunk, NEW arg
      PROVE  /\ DOMAIN Sent(flight, thunk, arg) = CallSlots
             /\ \A i \in CallSlots : InboxCall(Sent(flight, thunk, arg)[i])
  <2>1. /\ DOMAIN Sent(flight, thunk, arg) = CallSlots
        /\ \A i \in CallSlots : \/ Sent(flight, thunk, arg)[i] = flight[i]
                                \/ Sent(flight, thunk, arg)[i] = SentCall(thunk, arg)
    BY <1>3, SentSlots
  <2>2. QED
    BY <1>2, <1>3, <2>1
<1>4. DOMAIN calls = CallSlots /\ \A i \in CallSlots : InboxCall(calls[i])
  BY DEF InboxInv, CallsFit
<1>5. \A i \in CallSlots : InboxCall(calls'[i])
  <2>1. CASE calls' = calls
    BY <1>4, <2>1
  <2>2. CASE OpenInbox
    <3>1. calls' = Sent(Sent(calls, "fetchNotifications", None), "fetchUnreadCount", None)
      BY <2>2 DEF OpenInbox
    <3>2. /\ DOMAIN Sent(calls, "fetchNotifications", None) = CallSlots
          /\ \A i \in CallSlots : InboxCall(Sent(calls, "fetchNotifications", None)[i])
      BY <1>3, <1>4
    <3>3. QED
      BY <1>3, <3>1, <3>2
  <2>3. ASSUME NEW thunk, NEW arg, calls' = Sent(calls, thunk, arg)
        PROVE  \A i \in CallSlots : InboxCall(calls'[i])
    BY <1>3, <1>4, <2>3
  <2>4. QED
    BY <2>1, <2>2, <2>3 DEF InboxActs, LeaveInbox, ListTick, UnreadTick, MarkRead, Notify
<1>6. QED
  BY <1>1, <1>5 DEF InboxInv

LEMMA InboxInvariant == Spec => []InboxInv
<1>1. Init => InboxInv
  <2> SUFFICES ASSUME Init PROVE InboxInv
    OBVIOUS
  <2>2. \A i \in CallSlots : InboxCall(calls[i])
    BY NoThunkFields, ThunkConstants DEF Init, NothingInFlight, InboxCall
  <2>3. QED
    BY <2>2, NoticesCounted DEF Init, InboxPagesInit, InboxInv
<1>2. InboxInv /\ CallsFit /\ [Next]_vars => InboxInv'
  <2> SUFFICES ASSUME InboxInv, CallsFit, [Next]_vars
               PROVE  InboxInv'
    OBVIOUS
  <2>1. CASE Next /\ tour # "inbox"
    <3>1. UNCHANGED <<tour, inboxPageVars>>
      BY <2>1 DEF Next, UserActs, Timers, Serve, Settle, Fail, ForShop, ForOffers, ForDesk,
                  ForPicture, ForField
    <3>2. QED
      BY <2>1, <3>1 DEF InboxInv, inboxPageVars
  <2>2. CASE UserActs /\ tour = "inbox"
    BY <2>2, InboxUsed DEF UserActs, ForInbox
  <2>3. ASSUME NEW i \in CallSlots, Serve(i), tour = "inbox"
        PROVE  InboxInv'
    BY <2>3, InboxServed DEF Serve, ForInbox, ShopTours, DeskTours
  <2>4. ASSUME NEW i \in CallSlots, Settle(i), tour = "inbox"
        PROVE  InboxInv'
    BY <2>4, InboxSettled DEF Settle, ForInbox, ShopTours, DeskTours
  <2>5. ASSUME NEW i \in CallSlots, Fail(i), tour = "inbox"
        PROVE  InboxInv'
    <3>1. FailThunk(i) /\ UNCHANGED <<tour, inboxPageVars>>
      BY <2>5 DEF Fail
    <3>2. calls'[i].at = "rejected" /\ \A j \in CallSlots : j # i => calls'[j] = calls[j]
      BY <3>1, FailedCall
    <3>3. InboxCall(calls'[i])
      BY <3>2 DEF InboxCall
    <3>4. QED
      BY <2>5, <3>1, <3>2, <3>3 DEF InboxInv, inboxPageVars
  <2>6. CASE UNCHANGED vars
    BY <2>6 DEF vars, InboxInv, inboxPageVars
  <2>7. CASE Timers
    BY <2>1, <2>7 DEF Next, Timers, ShopTours
  <2>8. QED
    BY <2>1, <2>2, <2>3, <2>4, <2>5, <2>6, <2>7 DEF Next
<1>3. QED
  BY <1>1, <1>2, CallsAlwaysFit, PTL DEF Spec

\* The field has a URL to give: at most the preview's is in use.
FieldInv ==
  /\ chosen \in Files \cup {None} /\ preview \in UrlIds \cup {None}
  /\ reading \in [Files -> {"idle", "busy", "orphan"}]
  /\ field \in [shown : BOOLEAN, saving : BOOLEAN]
  /\ tour # "picture" => created = None

LEMMA FieldInvariant == Spec => []FieldInv
<1>1. Init => FieldInv
  BY DEF Init, PictureFieldInit, OfferPictureInit, FieldInv
<1>2. FieldInv /\ PictureInv /\ [Next]_vars => FieldInv'
  <2> SUFFICES ASSUME FieldInv, PictureInv, [Next]_vars
               PROVE  FieldInv'
    OBVIOUS
  <2>1. CASE Next /\ tour # "field"
    <3>1. UNCHANGED <<tour, fieldVars>> /\ (tour # "picture" => created' = created)
      BY <2>1 DEF Next, UserActs, Timers, Serve, Settle, Fail, ForShop, ForOffers, ForDesk,
                  ForInbox, ForPicture, pictureVars, ShopTours, DeskTours
    <3>2. QED
      BY <3>1 DEF FieldInv, fieldVars
  <2>2. CASE UNCHANGED vars
    BY <2>2 DEF vars, FieldInv, fieldVars, pictureVars
  <2>3. CASE tour = "field" /\ FieldActs /\ UNCHANGED tour
    <3>1. created = None /\ created' = created
      BY <2>3 DEF FieldInv, FieldActs
    <3>2. ASSUME NEW shown, NEW blob, Previewed(shown, blob)
          PROVE  preview' \in UrlIds \cup {None}
      <4> DEFINE u == CHOOSE u \in UrlIds \ urls : TRUE
      <4>1. urls \subseteq {preview}
        BY <3>1 DEF PictureInv, UrlsAreGivenBack
      <4>2. u \in UrlIds
        BY <4>1, UrlConstants
      <4>3. preview' = u \/ preview' = None
        BY <3>2 DEF Previewed
      <4> HIDE DEF u
      <4>4. QED
        BY <4>2, <4>3
    <3>3. Abandoned \in [Files -> {"idle", "busy", "orphan"}]
      BY DEF FieldInv, Abandoned
    <3>4. preview' \in UrlIds \cup {None}
      <4>1. \/ \E shown : \E blob : Previewed(shown, blob)
            \/ preview' = preview
        BY <2>3 DEF FieldActs, OpenField, CloseField, Remove, SendForm, FormSent, Choose, Read,
                    Chosen
      <4>2. QED
        BY <3>2, <4>1 DEF FieldInv
    <3>5. chosen' \in Files \cup {None}
      BY <2>3 DEF FieldActs, OpenField, CloseField, Remove, SendForm, FormSent, Choose, Read,
                  Chosen, FieldInv
    <3>6. reading' \in [Files -> {"idle", "busy", "orphan"}]
      BY <2>3, <3>3 DEF FieldActs, OpenField, CloseField, Remove, SendForm, FormSent, Choose,
                        Read, FieldInv
    <3>7. field' \in [shown : BOOLEAN, saving : BOOLEAN]
      <4>1. \/ field' = field
            \/ field' = [field EXCEPT !.shown = TRUE]
            \/ field' = [field EXCEPT !.shown = FALSE]
            \/ field' = [field EXCEPT !.saving = TRUE]
            \/ field' = [field EXCEPT !.saving = FALSE]
            \/ field' = [shown |-> FALSE, saving |-> FALSE]
        BY <2>3 DEF FieldActs, OpenField, CloseField, Remove, SendForm, FormSent, Choose, Read
      <4>2. field \in [shown : BOOLEAN, saving : BOOLEAN]
        BY DEF FieldInv
      <4>3. ASSUME NEW b \in BOOLEAN
            PROVE  /\ [field EXCEPT !.shown = b] \in [shown : BOOLEAN, saving : BOOLEAN]
                   /\ [field EXCEPT !.saving = b] \in [shown : BOOLEAN, saving : BOOLEAN]
        BY <4>2
      <4>4. [shown |-> FALSE, saving |-> FALSE] \in [shown : BOOLEAN, saving : BOOLEAN]
        OBVIOUS
      <4>5. TRUE \in BOOLEAN /\ FALSE \in BOOLEAN
        OBVIOUS
      <4>6. QED
        BY <4>1, <4>2, <4>3, <4>4, <4>5, Zenon
    <3>8. QED
      BY <2>3, <3>1, <3>4, <3>5, <3>6, <3>7 DEF FieldInv
  <2>4. ASSUME NEW i \in CallSlots, Fail(i)
        PROVE  FieldInv'
    BY <2>4 DEF Fail, FieldInv, fieldVars, pictureVars
  <2>5. QED
    BY <2>1, <2>2, <2>3, <2>4
    DEF Next, UserActs, Timers, Serve, Settle, ForField, ShopTours, DeskTours
<1>3. QED
  BY <1>1, <1>2, PicturesKept, PTL DEF Spec

\* The slices, the pages and the services behind them hold what their types say, and the
\* badge's count stays within the notifications there are.
THEOREM PagesTypeCorrect == Spec => []PagesTypeOK
<1>1. SellInv => OfferPagesTypeOK
  BY DEF SellInv, OffersFit, FormFits, OfferPagesTypeOK
<1>2. ShopInv => RequestPagesTypeOK
  BY DEF ShopInv, DemandFits, ShopSlice, ShopPageFits, DialogOn, RequestPagesTypeOK
<1>3. DeskInv => AdminPagesTypeOK
  BY DEF DeskInv, SliceFits, GrantsFit, AdminPagesTypeOK, Range
<1>4. InboxInv => InboxPagesTypeOK
  BY DEF InboxInv, InboxPagesTypeOK
<1>5. FieldInv => PictureFieldTypeOK
  BY DEF FieldInv, PictureFieldTypeOK
<1>6. SellInv /\ ShopInv /\ DeskInv /\ InboxInv /\ FieldInv => PagesTypeOK
  BY <1>1, <1>2, <1>3, <1>4, <1>5 DEF PagesTypeOK
<1>7. QED
  BY <1>6, SellInvariant, ShopInvariant, DeskInvariant, InboxInvariant, FieldInvariant, PTL
=============================================================================
