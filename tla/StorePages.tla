----------------------------- MODULE StorePages -----------------------------
(***************************************************************************)
(* The signed-in application: every page over the one store and the calls it *)
(* has in flight.  The slices share nothing but those calls, and a user has   *)
(* one role, so the pages are explored as tours, the others' slices standing  *)
(* still: a seller's pages, an admin's, a seller's contacts, the inbox, the    *)
(* pictures.  A customer's pages over the one requests slice are four tours,  *)
(* and steps of two of them are not interleaved.                             *)
(***************************************************************************)
EXTENDS OfferPages, RequestPages, AdminPages, InboxPages, PictureField

VARIABLE tour

vars == <<tour, calls, offerPageVars, requestPageVars, adminPageVars, inboxPageVars, pictureVars, fieldVars>>

ShopTours == {"search", "request", "adopt", "participate"}
DeskTours == {"admin", "contacts"}

Init ==
  /\ tour \in ShopTours \cup DeskTours \cup {"offers", "inbox", "picture", "field"}
  /\ calls = NothingInFlight
  /\ OfferPagesInit /\ RequestPagesInit /\ AdminPagesInit
  /\ InboxPagesInit /\ OfferPictureInit /\ PictureFieldInit

\* Each slice's pages, with the other slices untouched.
ForShop(A) == A /\ UNCHANGED <<tour, offerPageVars, adminPageVars, inboxPageVars, pictureVars, fieldVars>>
ForOffers(A) == A /\ UNCHANGED <<tour, requestPageVars, adminPageVars, inboxPageVars, pictureVars, fieldVars>>
ForDesk(A) == A /\ UNCHANGED <<tour, offerPageVars, requestPageVars, inboxPageVars, pictureVars, fieldVars>>
ForInbox(A) == A /\ UNCHANGED <<tour, offerPageVars, requestPageVars, adminPageVars, pictureVars, fieldVars>>
ForPicture(A) == A /\ UNCHANGED <<tour, offerPageVars, requestPageVars, adminPageVars, inboxPageVars, fieldVars>>
ForField(A) == A /\ UNCHANGED <<tour, offerPageVars, requestPageVars, adminPageVars, inboxPageVars>>

UserActs ==
  \/ tour = "search" /\ ForShop(SearcherActs)
  \/ tour = "request" /\ ForShop(RequesterActs)
  \/ tour = "adopt" /\ ForShop(AdopterActs)
  \/ tour = "participate" /\ ForShop(ParticipantActs)
  \/ tour = "offers" /\ ForOffers(SellerActs)
  \/ tour = "admin" /\ ForDesk(AdminActs)
  \/ tour = "contacts" /\ ForDesk(ContactReaderActs)
  \/ tour = "inbox" /\ ForInbox(InboxActs)
  \/ tour = "picture" /\ ForPicture(PictureActs)
  \/ tour = "field" /\ ForField(FieldActs)

Timers == tour \in ShopTours /\ ForShop(TimersFire)

Serve(i) ==
  \/ tour \in ShopTours /\ ForShop(ServeRequests(i))
  \/ tour = "offers" /\ ForOffers(ServeOffers(i))
  \/ tour \in DeskTours /\ ForDesk(ServeAdmin(i))
  \/ tour = "inbox" /\ ForInbox(ServeInbox(i))
  \/ tour = "picture" /\ ForPicture(ServeImage(i))

Settle(i) ==
  \/ tour \in ShopTours /\ ForShop(SettleRequests(i))
  \/ tour = "offers" /\ ForOffers(SettleOffers(i))
  \/ tour \in DeskTours /\ ForDesk(SettleAdmin(i))
  \/ tour = "inbox" /\ ForInbox(InboxFulfilled(i) \/ InboxRejected(i))
  \/ tour = "picture" /\ ForPicture(ImageLands(i))

Fail(i) ==
  /\ FailThunk(i)
  /\ UNCHANGED <<tour, offerPageVars, requestPageVars, adminPageVars, inboxPageVars, pictureVars, fieldVars>>

Next ==
  \/ UserActs \/ Timers
  \/ \E i \in CallSlots : Serve(i) \/ Settle(i) \/ Fail(i)

Spec == Init /\ [][Next]_vars

\* Every call of the inbox is answered or fails and every answer is delivered: fetch
\* settles and the event loop runs.  Its intervals tick whatever else is in flight; the
\* room they wait for is the model's bound, hence strong fairness.  The user owes nothing.
Fairness ==
  /\ \A i \in CallSlots :
       WF_vars(tour = "inbox" /\ ForInbox(ServeInbox(i) \/ InboxFulfilled(i) \/ InboxRejected(i)))
  /\ SF_vars(tour = "inbox" /\ ForInbox(ListTick))
  /\ SF_vars(tour = "inbox" /\ ForInbox(UnreadTick))

FairSpec == Spec /\ Fairness

\* The slices and pages hold what their types say; the badge's count stays within the
\* notifications there are, though rows are marked read twice.
PagesTypeOK ==
  OfferPagesTypeOK /\ RequestPagesTypeOK /\ AdminPagesTypeOK /\ InboxPagesTypeOK
    /\ PictureFieldTypeOK
=============================================================================
