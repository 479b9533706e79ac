CONSTANTS
  n1 = n1 n2 = n2 n3 = n3 k1 = k1 k2 = k2
  ItemNames = {n1, n3}
  ItemKeys = {k1, k2}
  ItemKey <- TwoItemKey
  LockKeys = {1}
  HashText <- TwoHashText
  RequestIds = {r1, r2}
  Customers = {c1}
  Quantities = {1}
  OfferCounts = {0}
  Handlers = {h1, h2}
  None = None
SPECIFICATION FairSpec
PROPERTIES
  TransactionsEnd
