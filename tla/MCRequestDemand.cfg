CONSTANTS
  n1 = n1 n2 = n2 n3 = n3 k1 = k1 k2 = k2
  ItemNames = {n1, n2}
  ItemKeys = {k1}
  ItemKey <- OneItemKey
  LockKeys = {1}
  HashText <- OneHashText
  RequestIds = {r1, r2}
  Customers = {c1, c2}
  Quantities = {1, 2}
  OfferCounts = {0, 1}
  Handlers = {h1, h2}
  None = None
SYMMETRY MCSymmetry
SPECIFICATION Spec
INVARIANTS
  TypeOK
  OneRequestPerItem
  DemandMatchesParticipants
PROPERTIES
  JoinersAreToldTheDemand
  RefinesAtomicDemand
