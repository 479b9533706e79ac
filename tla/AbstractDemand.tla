--------------------------- MODULE AbstractDemand ---------------------------
(***************************************************************************)
(* What request-service promises: one board of demand, changed one atomic  *)
(* operation at a time.  Every operation leaves the figures and the status *)
(* it shows equal to the ones its participants and offers determine, an    *)
(* item never gets a second request, and whoever is added to a request is  *)
(* told the demand they became part of.                                    *)
(***************************************************************************)
EXTENDS DemandTypes

VARIABLES
  board,      \* [RequestIds -> Row \cup {None}]: what a reader is shown
  wanted,     \* [RequestIds -> Lines]: who wants how much
  announced   \* the events of the last operation

demandVars == <<board, wanted, announced>>

\* The row that an item, an owner, an offer count and participant lines determine.
Derived(item, owner, offers, lines) ==
  [item           |-> item,
   createdBy      |-> owner,
   totalCustomers |-> CountOf(lines),
   totalQuantity  |-> QuantityOf(lines),
   totalOffers    |-> offers,
   status         |-> StatusOf(CountOf(lines), offers)]

Unclaimed(name) ==
  \A r \in RequestIds : board[r] # None => ItemKey[board[r].item] # ItemKey[name]

Publish(r, row, lines) ==
  /\ board' = [board EXCEPT ![r] = row]
  /\ wanted' = [wanted EXCEPT ![r] = lines]

DemandInit ==
  /\ board = [r \in RequestIds |-> None]
  /\ wanted = [r \in RequestIds |-> NoLines]
  /\ announced = {}

\* A customer opens a request for an item nobody has asked for and is its first participant.
Open(r, name, c, q) ==
  /\ board[r] = None
  /\ Unclaimed(name)
  /\ LET lines == [wanted[r] EXCEPT ![c] = q]
         row == Derived(name, c, 0, lines)
     IN  Publish(r, row, lines) /\ announced' = {Joined(c, r, row)}

\* A seller's offer opens a request with nobody on it.
OpenEmpty(r, name) ==
  /\ board[r] = None
  /\ Unclaimed(name)
  /\ Publish(r, Derived(name, None, 0, wanted[r]), wanted[r])
  /\ announced' = {}

\* A customer joins (0 to q), changes a quantity (q to q2) or leaves (q to 0).
ChangeLine(r, c, q) ==
  /\ board[r] # None
  /\ wanted[r][c] # 0 \/ q # 0
  /\ LET lines == [wanted[r] EXCEPT ![c] = q]
         row == Derived(board[r].item, board[r].createdBy, board[r].totalOffers, lines)
     IN  /\ Publish(r, row, lines)
         /\ announced' = IF wanted[r][c] = 0 THEN {Joined(c, r, row)} ELSE {}

\* Offer-service reports how many live offers stand on a request.
ChangeOffers(r, n) ==
  /\ board[r] # None
  /\ Publish(r, Derived(board[r].item, board[r].createdBy, n, wanted[r]), wanted[r])
  /\ announced' = {}

DemandNext ==
  \E r \in RequestIds :
    \/ \E name \in ItemNames :
         \/ \E c \in Customers, q \in Quantities : Open(r, name, c, q)
         \/ OpenEmpty(r, name)
    \/ \E c \in Customers, q \in Quantities \cup {0} : ChangeLine(r, c, q)
    \/ \E n \in OfferCounts : ChangeOffers(r, n)

DemandSpec == DemandInit /\ [][DemandNext]_demandVars
=============================================================================
