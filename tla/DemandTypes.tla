---------------------------- MODULE DemandTypes ----------------------------
(***************************************************************************)
(* The data of request-service: purchase_request rows, the participants of *)
(* a request, and the figures RecalculateDemand derives from them.  Shared *)
(* by the transaction-level specification (RequestDemand) and by the       *)
(* atomic one it implements (AbstractDemand).                              *)
(***************************************************************************)
EXTENDS Naturals, FiniteSets, Functions

CONSTANTS
  ItemNames,     \* the spellings callers send
  ItemKeys,      \* what request_item_key normalises a spelling to
  ItemKey,       \* [ItemNames -> ItemKeys]: "PS5" and "playstation 5" agree
  RequestIds,    \* the UUIDs gen_random_uuid() can draw
  Customers,
  Quantities,    \* the quantities a customer may ask for (validate: > 0)
  OfferCounts,   \* the counts offer-service may report (validate: >= 0)
  None

ASSUME ItemKeyAssumption == ItemKey \in [ItemNames -> ItemKeys]
ASSUME CustomersAssumption == IsFiniteSet(Customers)
ASSUME QuantityAssumption == Quantities \subseteq Nat \ {0}
ASSUME OfferCountAssumption == OfferCounts \subseteq Nat /\ 0 \in OfferCounts

\* A request's participant lines: the quantity of each customer, 0 for no line.
Lines == [Customers -> Quantities \cup {0}]

NoLines == [c \in Customers |-> 0]

\* COUNT(*) over request_participant.
CountOf(lines) == Cardinality({c \in Customers : lines[c] # 0})

\* COALESCE(SUM(quantity), 0) over request_participant.
QuantityOf(lines) == SumFunction(lines)

Counts == {CountOf(lines) : lines \in Lines}

Totals == {QuantityOf(lines) : lines \in Lines}

\* The CASE of RecalculateDemand, the only statement that decides a status.
StatusOf(totalCustomers, totalOffers) ==
  IF totalCustomers = 0 /\ totalOffers = 0 THEN "INACTIVE" ELSE "OPEN"

\* purchase_request.  0 joins Counts and Totals as the column default.
Row == [item           : ItemNames,
        createdBy      : Customers \cup {None},
        totalCustomers : Counts \cup {0},
        totalQuantity  : Totals \cup {0},
        totalOffers    : OfferCounts,
        status         : {"OPEN", "INACTIVE"}]

ASSUME NoneAssumption ==
  None \notin Customers \cup ItemNames \cup RequestIds \cup Row

\* A REQUEST_JOINED notification and the demand its message announces.
Event == [customer       : Customers,
          request        : RequestIds,
          totalCustomers : Counts \cup {0},
          totalQuantity  : Totals \cup {0}]

Joined(c, r, row) == [customer       |-> c,
                      request        |-> r,
                      totalCustomers |-> row.totalCustomers,
                      totalQuantity  |-> row.totalQuantity]
=============================================================================
