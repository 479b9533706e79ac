CONSTANTS
  Workers = {w1, w2}
  Sellers = {s1, s2}
  Requests = {r1}
  OfferIds = {o1, o2}
  Columns = {price}
  Values = {v1}
  Faults = {"report", "late", "crash"}
  None = None
SYMMETRY MCOfferSymmetry
SPECIFICATION OfferSpec
INVARIANTS
  OfferTypeOK
  OneLiveOffer
  AnnouncedIsStored
PROPERTIES
  NeverReopened
