---------------------------- MODULE RequestPages ----------------------------
(***************************************************************************)
(* A customer's pages over the requests slice: Browse with its search box   *)
(* and the new-request dialog, both debounced; a request's page, from which  *)
(* the customer joins, changes a quantity and leaves; and My requests.       *)
(* A request is known by its item, of which it is the only one.  What a list *)
(* shows is read by no handler and left out; request-service is seen through *)
(* its API.                                                                 *)
(***************************************************************************)
EXTENDS StoreThunks

CONSTANTS
  Items,
  ShortNames  \* items whose name has fewer than three characters

ASSUME RequestPageConstants ==
  /\ Items # {} /\ ShortNames \subseteq Items
  /\ None \notin {"fetchRequests", "fetchSimilarRequests"}

VARIABLES
  demand,        \* request-service: the items requested, those the customer is on or made
  requestsSlice, \* mine (rows by item), current, similar with its exact match, loading
  shopPage,      \* the page shown, the request it is about, the search box, its timers
  newRequest     \* NewRequestDialog: open, the name typed, its timers, saving

requestPageVars == <<demand, requestsSlice, shopPage, newRequest>>

\* None is an empty box.
Names == Items \cup {None}

\* Mutant: an effect that does not clear the timer it set before.
RearmedOverlapping(timers, next) == timers \cup next

\* The effect's cleanup clears its timer before the next run sets one.
Rearmed(timers, next) == next

NewDialog == [open |-> FALSE, name |-> None, timers |-> {}, saving |-> FALSE]
PageOf(at, item) == [at |-> at, item |-> item, query |-> None,
                     timers |-> IF at = "browse" THEN {None} ELSE {}]

Unsuggested(slice) == [slice EXCEPT !.similar = {}, !.exact = None]

RequestPagesInit ==
  /\ demand = [exists |-> {CHOOSE i \in Items : TRUE}, on |-> {}, made |-> {}]
  /\ requestsSlice = [mine |-> [i \in Items |-> 0], current |-> None,
                      similar |-> {}, exact |-> None, loading |-> FALSE]
  /\ shopPage = PageOf("browse", None)
  /\ newRequest = NewDialog

\* A page is left and another mounted: its effects' cleanups and effects run, and the
\* dialog goes with Browse.
ToPage(at, item) == shopPage' = PageOf(at, item) /\ newRequest' = NewDialog

\* navigate('/my-requests'), whose effect reads the customer's list, unless it is shown.
ToMine(flight) ==
  IF shopPage.at = "mine"
  THEN calls' = flight /\ UNCHANGED <<shopPage, newRequest>>
  ELSE ToPage("mine", None) /\ calls' = Sent(Orphaned(flight), "fetchMyRequests", None)

-----------------------------------------------------------------------------
GoRequests ==
  /\ shopPage.at # "browse"
  /\ ToPage("browse", None)
  /\ requestsSlice' = Unsuggested(requestsSlice)
  /\ calls' = Orphaned(calls)
  /\ UNCHANGED demand

GoMyRequests ==
  /\ shopPage.at # "mine" /\ Room
  /\ ToMine(calls)
  /\ UNCHANGED <<demand, requestsSlice>>

\* RequestCard's link, or a row of My requests.
OpenCard(i) ==
  /\ shopPage.at # "detail" /\ i \in demand.exists /\ Room
  /\ ToPage("detail", i)
  /\ calls' = Sent(Sent(Orphaned(calls), "fetchRequest", i), "fetchMyRequests", None)
  /\ UNCHANGED <<demand, requestsSlice>>

TypeQuery(q) ==
  /\ shopPage.at = "browse" /\ q # shopPage.query
  /\ shopPage' = [shopPage EXCEPT !.query = q, !.timers = Rearmed(@, {q})]
  /\ UNCHANGED <<calls, demand, requestsSlice, newRequest>>

\* What a list of requests is asked for: browsing, live demand only; searching, every
\* status; and with no filter at all.
Filter(q) == [q |-> q, open |-> q = None]
Unfiltered == [q |-> None, open |-> FALSE]

SearchFires(q) ==
  /\ q \in shopPage.timers /\ Room
  /\ shopPage' = [shopPage EXCEPT !.timers = @ \ {q}]
  /\ requestsSlice' = [requestsSlice EXCEPT !.loading = TRUE]
  /\ calls' = Sent(calls, "fetchRequests", Filter(q))
  /\ UNCHANGED <<demand, newRequest>>

\* The dialog's effect, on a change of the name or of open: a short name is not looked up.
DialogDrawn(open, name) ==
  LET asks == open /\ name \notin ShortNames \cup {None}
  IN  /\ newRequest' = [newRequest EXCEPT !.open = open, !.name = name,
                          !.timers = Rearmed(@, IF asks THEN {name} ELSE {})]
      /\ requestsSlice' = IF asks THEN requestsSlice ELSE Unsuggested(requestsSlice)
      /\ UNCHANGED <<calls, demand, shopPage>>

OpenDialog == shopPage.at = "browse" /\ ~newRequest.open /\ DialogDrawn(TRUE, newRequest.name)
CloseDialog == newRequest.open /\ DialogDrawn(FALSE, newRequest.name)
TypeName(n) == newRequest.open /\ n # newRequest.name /\ DialogDrawn(TRUE, n)

LookupFires(n) ==
  /\ n \in newRequest.timers /\ Room
  /\ newRequest' = [newRequest EXCEPT !.timers = @ \ {n}]
  /\ calls' = Sent(calls, "fetchSimilarRequests", n)
  /\ UNCHANGED <<demand, requestsSlice, shopPage>>

DialogActs(thunk, arg) ==
  /\ newRequest.open /\ ~newRequest.saving /\ Room
  /\ newRequest' = [newRequest EXCEPT !.saving = TRUE]
  /\ calls' = Awaited(calls, thunk, arg)
  /\ UNCHANGED <<demand, requestsSlice, shopPage>>

\* An exact match withholds the button.
SubmitRequest ==
  /\ newRequest.name # None /\ requestsSlice.exact = None
  /\ DialogActs("createRequest", newRequest.name)
JoinSuggested(i) ==
  /\ i \in requestsSlice.similar
  /\ DialogActs("joinRequest", [item |-> i, dialog |-> TRUE])

\* Participation, once the request is drawn.  Nothing disables a button while it saves.
Participate(thunk) ==
  /\ shopPage.at = "detail" /\ requestsSlice.current # None /\ Room
  /\ (thunk = "joinRequest") = (requestsSlice.mine[shopPage.item] = 0)
  /\ calls' = Sent(calls, thunk, [item |-> shopPage.item, dialog |-> FALSE])
  /\ UNCHANGED requestPageVars

-----------------------------------------------------------------------------
\* request-service, through the endpoints the thunks call.
ServeRequestRead(i) ==
  LET arg == calls[i].arg
  IN  /\ \/ On(i, "fetchRequests") /\ Answer(i, None)
         \/ On(i, "fetchRequest") /\ Answer(i, arg)
         \/ On(i, "fetchMyRequests") /\ Answer(i, demand.on)
         \/ /\ On(i, "fetchSimilarRequests")
            /\ Answer(i, [similar |-> demand.exists,
                          exact |-> IF arg \in demand.exists THEN arg ELSE None])
      /\ UNCHANGED demand

\* The creator is on the request; a second one for the item is refused with the first.
ServeRequestCreate(i) ==
  LET item == calls[i].arg
  IN  /\ On(i, "createRequest")
      /\ IF item \in demand.exists
         THEN Refuse(i, item) /\ UNCHANGED demand
         ELSE /\ Answer(i, item)
              /\ demand' = [f \in DOMAIN demand |-> demand[f] \cup {item}]

ServeParticipation(i) ==
  LET item == calls[i].arg.item
      joins == calls[i].thunk = "joinRequest"
  IN  /\ \E t \in {"joinRequest", "updateQuantity", "leaveRequest"} : On(i, t)
      /\ IF joins = (item \in demand.on)
         THEN Refuse(i, None) /\ UNCHANGED demand
         ELSE /\ Answer(i, item)
              /\ demand' = [demand EXCEPT !.on =
                   CASE joins -> @ \cup {item}
                     [] calls[i].thunk = "leaveRequest" -> @ \ {item}
                     [] OTHER -> @]

ServeRequests(i) ==
  /\ ServeRequestRead(i) \/ ServeRequestCreate(i) \/ ServeParticipation(i)
  /\ UNCHANGED <<requestsSlice, shopPage, newRequest>>

\* Another customer, or a seller's offer on an item by name.
SomeoneRequests(i) ==
  /\ i \notin demand.exists
  /\ demand' = [demand EXCEPT !.exists = @ \cup {i}]
  /\ UNCHANGED <<calls, requestsSlice, shopPage, newRequest>>

-----------------------------------------------------------------------------
\* The fulfilled cases of the reads.  A lookup that fails is an empty answer.
RequestsRead(i) ==
  LET data == calls[i].data
  IN  /\ \/ /\ Fulfilled(i, "fetchRequests")
            /\ requestsSlice' = [requestsSlice EXCEPT !.loading = FALSE]
         \/ /\ Fulfilled(i, "fetchRequest")
            /\ requestsSlice' = [requestsSlice EXCEPT !.current = data]
         \/ /\ Fulfilled(i, "fetchMyRequests")
            /\ requestsSlice' = [requestsSlice EXCEPT !.mine =
                                   [j \in Items |-> IF j \in data THEN 1 ELSE 0]]
         \/ /\ Fulfilled(i, "fetchSimilarRequests")
            /\ requestsSlice' = [requestsSlice EXCEPT !.similar = data.similar, !.exact = data.exact]
         \/ /\ Rejected(i, "fetchSimilarRequests")
            /\ requestsSlice' = Unsuggested(requestsSlice)
      /\ calls' = Done(i)
      /\ UNCHANGED <<demand, shopPage, newRequest>>

\* submit goes on with done(): the list is read again with no filter at all, and the
\* dialog, if it is still the one that was submitted, is closed and emptied.
RequestCreated(i) ==
  /\ Fulfilled(i, "createRequest")
  /\ requestsSlice' = [Unsuggested(requestsSlice) EXCEPT
                         !.mine[calls[i].data] = @ + 1, !.loading = TRUE]
  /\ newRequest' = IF calls[i].own THEN NewDialog ELSE newRequest
  /\ calls' = Sent(Done(i), "fetchRequests", Unfiltered)
  /\ UNCHANGED <<demand, shopPage>>

\* Mutant: the join's case without its check.
WithJoinedTwice(mine, item) == [mine EXCEPT ![item] = @ + 1]

WithJoined(mine, item) == IF mine[item] = 0 THEN [mine EXCEPT ![item] = 1] ELSE mine

\* Joining, from the dialog or the request's page, and leaving end on My requests,
\* wherever the customer has gone meanwhile.
ParticipationChanged(i) ==
  LET item == calls[i].data
  IN  \/ /\ Fulfilled(i, "joinRequest")
         /\ requestsSlice' = [(IF calls[i].arg.dialog THEN Unsuggested(requestsSlice)
                                                     ELSE requestsSlice)
                                EXCEPT !.mine = WithJoined(@, item), !.current = item]
         /\ ToMine(Done(i)) /\ UNCHANGED demand
      \/ /\ Fulfilled(i, "leaveRequest")
         /\ requestsSlice' = [requestsSlice EXCEPT !.mine[item] = 0]
         /\ ToMine(Done(i)) /\ UNCHANGED demand
      \/ /\ Fulfilled(i, "updateQuantity")
         /\ requestsSlice' = [requestsSlice EXCEPT !.current = item]
         /\ calls' = Done(i) /\ UNCHANGED <<demand, shopPage, newRequest>>

\* A refused create shows the request to join instead; every rejection ends the loading.
RejectedSlice(i) ==
  IF calls[i].data = None THEN [requestsSlice EXCEPT !.loading = FALSE]
  ELSE [requestsSlice EXCEPT !.loading = FALSE, !.similar = {calls[i].data},
                             !.exact = calls[i].data]

\* Mutant: setSaving(false) on success only.
StillSaving(i) == newRequest.saving

\* What awaits in the dialog ends its saving, whatever came of it.
SavingAfter(i) == newRequest.saving /\ ~calls[i].own

RequestRejected(i) ==
  /\ calls[i].at = "rejected" /\ calls[i].thunk # "fetchSimilarRequests"
  /\ requestsSlice' = RejectedSlice(i)
  /\ newRequest' = [newRequest EXCEPT !.saving = SavingAfter(i)]
  /\ calls' = Done(i)
  /\ UNCHANGED <<demand, shopPage>>

SettleRequests(i) ==
  RequestsRead(i) \/ RequestCreated(i) \/ ParticipationChanged(i) \/ RequestRejected(i)

TimersFire ==
  \/ \E q \in Names : SearchFires(q)
  \/ \E n \in Items : LookupFires(n)

\* Browse and its search box.
SearcherActs ==
  \/ GoRequests \/ GoMyRequests
  \/ \E q \in Names : TypeQuery(q)

\* Browse and its dialog, whose saving keeps a create and a join from overlapping.
DialogUser ==
  \/ GoRequests \/ GoMyRequests \/ OpenDialog \/ CloseDialog
  \/ \E n \in Names : TypeName(n)

RequesterActs == DialogUser \/ SubmitRequest \/ \E i \in Items : SomeoneRequests(i)

AdopterActs == DialogUser \/ \E i \in Items : JoinSuggested(i)

\* My requests and a request's page.
ParticipantActs ==
  \/ GoMyRequests
  \/ \E i \in Items : OpenCard(i) \/ SomeoneRequests(i)
  \/ \E t \in {"joinRequest", "updateQuantity", "leaveRequest"} : Participate(t)

-----------------------------------------------------------------------------
RequestPagesTypeOK ==
  /\ demand.on \subseteq demand.exists /\ demand.exists \subseteq Items
  /\ requestsSlice.mine \in [Items -> 0..2] /\ requestsSlice.loading \in BOOLEAN
  /\ requestsSlice.current \in Names /\ requestsSlice.exact \in Names
  /\ shopPage.at \in {"browse", "mine", "detail"}
  /\ newRequest.name \in Names /\ newRequest.timers \subseteq Items

\* "Typing should not fire a request per keystroke" (BrowseRequests.tsx): the search and
\* the lookup a timer sends are for what stands in the box as they go out, never for a
\* name typed over, or typed into a dialog since closed or a page since left.  (The list
\* read again after a create is the one that no timer sends, and has no filter.)
AsksForWhatIsTyped ==
  [][\A i \in CallSlots :
       calls[i] = NoThunk =>
         /\ calls'[i].thunk = "fetchSimilarRequests" =>
              newRequest.open /\ calls'[i].arg = newRequest.name
         /\ calls'[i].thunk = "fetchRequests" /\ calls'[i].arg # Unfiltered =>
              shopPage.at = "browse" /\ calls'[i].arg.q = shopPage.query]_calls

\* "Joining puts the request among the caller's own" (requestsSlice.ts): My requests has
\* no second row for a request joined, in whatever order joins and lists are answered.
\* (It may have none, for a list read before the join and settled after it; and a request
\* the customer made can have two: the create's case does not check.)
JoinedListedAtMostOnce == \A i \in Items : requestsSlice.mine[i] > 1 => i \in demand.made

\* Browse's skeleton and the dialog's buttons never wait for nothing: while either is
\* shown busy its call is in flight, and still the dialog's own - whichever answers,
\* refusals or losses came first, and though it was closed and opened meanwhile.
RequestsWaitIsAwaited ==
  /\ requestsSlice.loading => \E i \in CallSlots : calls[i].thunk = "fetchRequests"
  /\ newRequest.saving => \E i \in CallSlots : calls[i].own
=============================================================================
