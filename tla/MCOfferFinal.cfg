CONSTANTS
  Workers = {w1, w2}
  Sellers = {s1}
  Requests = {r1}
  OfferIds = {o1, o2}
  Columns = {price}
  Values = {v1, v2}
  Faults = {}
  None = None
SPECIFICATION OfferSpec
PROPERTIES
  OnlyPendingChanges
