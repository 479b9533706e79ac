----------------------------- MODULE OfferPages -----------------------------
(***************************************************************************)
(* A seller's pages over the offers slice: a request's page with the form   *)
(* that makes, changes and withdraws the seller's one offer on it, the       *)
(* dialog that offers on an item by name, and My offers.  The form is keyed  *)
(* on the offer found in the slice, whichever request that offer is on.      *)
(* The offers themselves are offer-service's, seen through its API.          *)
(***************************************************************************)
EXTENDS StoreThunks, Functions

CONSTANTS
  Requests,   \* the requests whose pages the seller opens
  MaxOffers   \* bounds the offers ever made; an offer's id is its number

\* An initial offer; a request's page is none of the lists.
ASSUME OfferPageConstants ==
  MaxOffers \in Nat \ {0} /\ Requests # {} /\ Requests \cap {"browse", "mine"} = {}

VARIABLES
  offers,      \* offer-service: the seller's offers, [request, status, terms], by id
  forRequest,  \* the slice: the statuses of the offers it holds, by id
  offerPage,   \* the page shown: a request's, "browse" or "mine"
  offerForm,   \* OfferForm: the key it was mounted with, its fields, saving
  itemDialog   \* OfferOnANewItemDialog: open, saving

offerPageVars == <<offers, forRequest, offerPage, offerForm, itemDialog>>

Ids == 1..MaxOffers
\* Of a status the pages tell apart the two live ones and CLOSED: REJECTED or CANCELLED.
Live == {"PENDING", "APPROVED"}

\* A snapshot of offers: the ids it holds and the status each had.  Of the form's terms
\* the model keeps whose they were when the form took them; 0 is no offer, the empty form.
NoOffers == [x \in {} |-> None]

\* The offers endpoints' answers.
Statuses(ids) == [o \in ids |-> offers[o].status]
OffersOn(r) == {o \in DOMAIN offers : offers[o].request = r}

\* isFullOffer: a rival's offer carries no sellerId and is not the caller's; a snapshot
\* keeps the caller's own.  RequestDetail's myOffer is the live one among them.
MyOffer(held) ==
  LET live == {o \in DOMAIN held : held[o] \in Live}
  IN  IF live = {} THEN 0 ELSE CHOOSE o \in live : TRUE

OnDetail(p) == p \in Requests

\* Mounting OfferForm seeds its fields from the offer.
Mounted(key) == [mounted |-> TRUE, key |-> key, terms |-> key, saving |-> FALSE]
Unmounted == [mounted |-> FALSE, key |-> 0, terms |-> 0, saving |-> FALSE]

\* Mutant: the form without its key, so that its fields outlive the offer.
RekeyedNot(p, held) ==
  CASE ~OnDetail(p) -> Unmounted
    [] OnDetail(p) /\ offerForm.mounted ->
         [Mounted(MyOffer(held)) EXCEPT !.terms = offerForm.terms]
    [] OTHER -> Mounted(MyOffer(held))

\* The page drawn again: the form is kept while its key is, and mounted anew otherwise.
Rekeyed(p, held) ==
  CASE ~OnDetail(p) -> Unmounted
    [] OnDetail(p) /\ offerForm.mounted /\ offerForm.key = MyOffer(held) -> offerForm
    [] OTHER -> Mounted(MyOffer(held))

Drawn(p, held) ==
  /\ forRequest' = held
  /\ offerPage' = p
  /\ offerForm' = Rekeyed(p, held)

\* What the form awaits cannot reach a form mounted anew.
Orphans(flight) ==
  IF offerForm'.mounted = offerForm.mounted /\ offerForm'.key = offerForm.key
  THEN flight ELSE Orphaned(flight)

\* OfferOnANewItemDialog as Browse mounts it.
NoItemDialog == [open |-> FALSE, saving |-> FALSE]

OfferPagesInit ==
  /\ offers = [o \in {1} |-> [request |-> CHOOSE r \in Requests : TRUE,
                             status |-> "PENDING", terms |-> 1]]
  /\ forRequest = NoOffers
  /\ offerPage = "browse"
  /\ offerForm = Unmounted
  /\ itemDialog = NoItemDialog

-----------------------------------------------------------------------------
\* A link on Browse or My offers.  RequestDetail's effect asks for the offers; forRequest
\* keeps the last page's until they come.  (Its other fetches are RequestPages'; the form
\* is drawn once some request is in the slice.)
OpenRequest(r) ==
  /\ ~OnDetail(offerPage) /\ Room
  /\ Drawn(r, forRequest)
  /\ calls' = Sent(Orphaned(calls), "fetchOffersForRequest", r)
  /\ itemDialog' = NoItemDialog
  /\ UNCHANGED offers

GoBrowse ==
  /\ offerPage # "browse"
  /\ Drawn("browse", forRequest)
  /\ calls' = Orphaned(calls)
  /\ UNCHANGED <<offers, itemDialog>>

\* MyOffers' effect.
GoMine ==
  /\ offerPage # "mine" /\ Room
  /\ Drawn("mine", forRequest)
  /\ calls' = Sent(Orphaned(calls), "fetchMyOffers", None)
  /\ itemDialog' = NoItemDialog
  /\ UNCHANGED offers

Editable == offerForm.key # 0 => forRequest[offerForm.key] = "PENDING"

\* OfferForm.submit and withdraw, on the offer the form was given.
Act(thunk) ==
  /\ OnDetail(offerPage) /\ ~offerForm.saving /\ Editable /\ Room
  /\ offerForm' = [offerForm EXCEPT !.saving = TRUE]
  /\ calls' = Awaited(calls, thunk,
        [from |-> offerPage, on |-> offerPage, offer |-> offerForm.key,
         terms |-> offerForm.terms])
  /\ UNCHANGED <<offers, forRequest, offerPage, itemDialog>>

SubmitOffer == Act(IF offerForm.key = 0 THEN "createOffer" ELSE "updateOffer")
Withdraw == offerForm.key # 0 /\ Act("cancelOffer")

\* OfferOnANewItemDialog's button of a request that looks alike, though it be saving.
OfferOnThis(r) == itemDialog.open /\ OpenRequest(r)

\* OfferOnANewItemDialog on Browse, opened, closed, submitted with the name of an item.
ToggleItemDialog ==
  /\ offerPage = "browse"
  /\ itemDialog' = [itemDialog EXCEPT !.open = ~@]
  /\ UNCHANGED <<calls, offers, forRequest, offerPage, offerForm>>

SubmitItem(r) ==
  /\ itemDialog.open /\ ~itemDialog.saving /\ Room
  /\ itemDialog' = [itemDialog EXCEPT !.saving = TRUE]
  /\ calls' = Awaited(calls, "createOffer",
        [from |-> "browse", on |-> r, offer |-> 0, terms |-> 0])
  /\ UNCHANGED <<offers, forRequest, offerPage, offerForm>>

-----------------------------------------------------------------------------
\* offer-service, through the endpoints the thunks call.
ServeOfferRead(i) ==
  /\ \/ On(i, "fetchOffersForRequest") /\ Answer(i, Statuses(OffersOn(calls[i].arg)))
     \/ On(i, "fetchMyOffers") /\ Answer(i, None)
  /\ UNCHANGED offers

\* POST /api/offers answers 201, or 409 with the offer already made.
ServeCreate(i) ==
  LET r == calls[i].arg.on
      id == Cardinality(DOMAIN offers) + 1
      live == {o \in OffersOn(r) : offers[o].status \in Live}
  IN  /\ On(i, "createOffer")
      /\ IF live = {} /\ id \in Ids
         THEN /\ offers' = [o \in DOMAIN offers \cup {id} |->
                  IF o = id THEN [request |-> r, status |-> "PENDING", terms |-> id] ELSE offers[o]]
              /\ Answer(i, id)
         ELSE /\ Refuse(i, IF live = {} THEN None ELSE CHOOSE o \in live : TRUE)
              /\ UNCHANGED offers

\* PUT and DELETE /api/offers/{id}: 409 once it is not PENDING.
ServeChange(i) ==
  LET o == calls[i].arg.offer
  IN  /\ On(i, "updateOffer") \/ On(i, "cancelOffer")
      /\ IF offers[o].status # "PENDING"
         THEN Refuse(i, None) /\ UNCHANGED offers
         ELSE /\ Answer(i, o)
              /\ offers' = IF calls[i].thunk = "updateOffer"
                           THEN [offers EXCEPT ![o].terms = calls[i].arg.terms]
                           ELSE [offers EXCEPT ![o].status = "CLOSED"]

\* An admin decides.
DecideOffer(o) ==
  /\ offers[o].status = "PENDING"
  /\ \E s \in {"APPROVED", "CLOSED"} : offers' = [offers EXCEPT ![o].status = s]
  /\ UNCHANGED <<calls, forRequest, offerPage, offerForm, itemDialog>>

ServeOffers(i) ==
  /\ ServeOfferRead(i) \/ ServeCreate(i) \/ ServeChange(i)
  /\ UNCHANGED <<forRequest, offerPage, offerForm, itemDialog>>

-----------------------------------------------------------------------------
\* The slice's fulfilled cases for the two reads.
OffersRead(i) ==
  /\ \/ /\ Fulfilled(i, "fetchOffersForRequest")
        /\ Drawn(offerPage, calls[i].data)
     \/ /\ Fulfilled(i, "fetchMyOffers")
        /\ UNCHANGED <<forRequest, offerPage, offerForm>>
  /\ calls' = Orphans(Done(i))
  /\ UNCHANGED <<offers, itemDialog>>

\* The slice after a create, an update or a withdrawal was accepted.  Its other list, the
\* one My offers and Contacts show, its loading and its error are read by no handler.
AfterChange(i) ==
  LET o == calls[i].data
  IN  CASE calls[i].thunk = "createOffer" -> forRequest
        [] calls[i].thunk = "updateOffer" ->
             IF o \in DOMAIN forRequest THEN [forRequest EXCEPT ![o] = "PENDING"] ELSE forRequest
        [] OTHER -> Restrict(forRequest, DOMAIN forRequest \ {o})

FromDialog(i) == calls[i].thunk = "createOffer" /\ calls[i].arg.from = "browse"
FromForm(i) == calls[i].thunk \in {"createOffer", "updateOffer", "cancelOffer"} /\ ~FromDialog(i)

\* Mutant: setSaving(false) on success only.
FormReleasedByAcceptance(i) == FromForm(i) /\ calls[i].own /\ calls[i].at = "fulfilled"

\* What the form awaited ends its saving, whatever came of it.
FormReleased(i) == FromForm(i) /\ calls[i].own

\* OfferForm's submit or withdraw goes on: the slice, then the request's offers again.
OfferChanged(i) ==
  /\ FromForm(i) /\ calls[i].at = "fulfilled"
  /\ forRequest' = AfterChange(i)
  /\ offerForm' = [Rekeyed(offerPage, forRequest')
                     EXCEPT !.saving = @ /\ ~FormReleased(i)]
  /\ calls' = Sent(Orphans(Done(i)), "fetchOffersForRequest", calls[i].arg.from)
  /\ UNCHANGED <<offers, offerPage, itemDialog>>

\* The dialog's submit goes on to the page of the request the offer is on: the new
\* offer's, or that of the offer a refusal names.
ItemOffered(i) ==
  /\ FromDialog(i) /\ calls[i].at \in {"fulfilled", "rejected"} /\ calls[i].data # None
  /\ Drawn(calls[i].arg.on,
           IF calls[i].at = "fulfilled" THEN AfterChange(i) ELSE forRequest)
  /\ calls' = Sent(Orphans(Done(i)), "fetchOffersForRequest", calls[i].arg.on)
  /\ itemDialog' = NoItemDialog
  /\ UNCHANGED offers

\* Every other rejection reports itself in the slice and ends the saving of its form.
OfferRejected(i) ==
  /\ calls[i].at = "rejected" /\ ~(FromDialog(i) /\ calls[i].data # None)
  /\ offerForm' = [offerForm EXCEPT !.saving = @ /\ ~FormReleased(i)]
  /\ itemDialog' = [itemDialog EXCEPT !.saving = @ /\ ~(FromDialog(i) /\ calls[i].own)]
  /\ calls' = Done(i)
  /\ UNCHANGED <<offers, forRequest, offerPage>>

SettleOffers(i) == OffersRead(i) \/ OfferChanged(i) \/ ItemOffered(i) \/ OfferRejected(i)

\* From the lists, or from Browse's dialog, to a request's page and its form.
SellerActs ==
  \/ GoBrowse \/ GoMine \/ SubmitOffer \/ Withdraw \/ ToggleItemDialog
  \/ \E r \in Requests : OpenRequest(r) \/ OfferOnThis(r) \/ SubmitItem(r)
  \/ \E o \in DOMAIN offers : DecideOffer(o)

-----------------------------------------------------------------------------
OfferPagesTypeOK ==
  /\ DOMAIN offers \subseteq Ids
  /\ \A o \in DOMAIN offers : offers[o].request \in Requests
  /\ DOMAIN forRequest \subseteq Ids
  /\ offerPage \in Requests \cup {"browse", "mine"}
  /\ offerForm.key \in Ids \cup {0}

\* The form's fields are "Seeded from the offer the page loaded" and its caller keys it on
\* that offer's id (RequestDetail.tsx): an update writes only terms that were seeded from
\* the offer it goes to, whichever offer the slice held in between and whatever the
\* order of the answers - never the empty form's, never another offer's.
TermsGoToTheirOffer == \A o \in DOMAIN offers : offers[o].terms = o

\* The form's and the dialog's buttons never wait for nothing: while one is saving, the
\* call it sent is in flight and will reach it, though an answer that came between may
\* have mounted the form anew.
OfferSavingIsAwaited ==
  /\ offerForm.saving => \E i \in CallSlots : calls[i].own /\ FromForm(i)
  /\ itemDialog.saving => \E i \in CallSlots : calls[i].own /\ FromDialog(i)

\* The page is "One request: its aggregated demand, the offers against it" with a form
\* "Seeded from the offer the page loaded" (RequestDetail.tsx): what is changed or
\* withdrawn from a request's page is the offer on that request.
EditsTheOfferOfItsPage ==
  \A i \in CallSlots :
    calls[i].thunk \in {"updateOffer", "cancelOffer"}
      => offers[calls[i].arg.offer].request = calls[i].arg.from
=============================================================================
