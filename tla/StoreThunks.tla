----------------------------- MODULE StoreThunks -----------------------------
(***************************************************************************)
(* The calls in flight between the browser's store and the services: every *)
(* createAsyncThunk of the slices is dispatched, served, and settled as     *)
(* fulfilled or rejected, with nothing to order two of them or to drop one   *)
(* whose page has gone.                                                     *)
(***************************************************************************)
EXTENDS Naturals, FiniteSets

CONSTANTS
  CallSlots,  \* bounds the calls in flight: those waiting, and one a handler adds
  MaxWaiting, \* a user's or a timer's handler runs only below so many of them
  Faults,     \* of "unsent" (the request does not arrive), "lost" (the answer does not)
  None

ASSUME ThunkConstants ==
  /\ Faults \subseteq {"unsent", "lost"}
  /\ None \notin {"wire", "fulfilled", "rejected"}
  /\ IsFiniteSet(CallSlots) /\ MaxWaiting \in Nat /\ MaxWaiting < Cardinality(CallSlots)

VARIABLE calls

\* own: a form awaits the call and is still mounted, so its setState works.
NoThunk == [thunk |-> None, arg |-> None, at |-> None, data |-> None, own |-> FALSE]

NothingInFlight == [i \in CallSlots |-> NoThunk]

FreeIn(flight) == {i \in CallSlots : flight[i] = NoThunk}

Room == Cardinality(CallSlots) - Cardinality(FreeIn(calls)) < MaxWaiting

\* A dispatch as a value, so that a handler's dispatches compose: by an effect, or by a
\* form that waits for it to end its saving.
Put(flight, thunk, arg, own) ==
  [flight EXCEPT ![CHOOSE i \in FreeIn(flight) : TRUE] =
     [thunk |-> thunk, arg |-> arg, at |-> "wire", data |-> None, own |-> own]]
Sent(flight, thunk, arg) == Put(flight, thunk, arg, FALSE)
Awaited(flight, thunk, arg) == Put(flight, thunk, arg, TRUE)

Done(i) == [calls EXCEPT ![i] = NoThunk]

\* The page changes: what its components await can no longer reach their state.
Orphaned(flight) == [i \in CallSlots |-> [flight[i] EXCEPT !.own = FALSE]]

On(i, thunk) == calls[i].thunk = thunk /\ calls[i].at = "wire"

Answer(i, data) == calls' = [calls EXCEPT ![i].at = "fulfilled", ![i].data = data]
Refuse(i, data) == calls' = [calls EXCEPT ![i].at = "rejected", ![i].data = data]

\* The network's failures, a 5xx and an expired session among them.
FailThunk(i) ==
  /\ \/ calls[i].at = "wire" /\ "unsent" \in Faults
     \/ calls[i].at = "fulfilled" /\ "lost" \in Faults
  /\ Refuse(i, None)

Fulfilled(i, thunk) == calls[i].thunk = thunk /\ calls[i].at = "fulfilled"
Rejected(i, thunk) == calls[i].thunk = thunk /\ calls[i].at = "rejected"
=============================================================================
