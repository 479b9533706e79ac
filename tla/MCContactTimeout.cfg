CONSTANTS
  Workers = {w1, w2}
  Sellers = {s1}
  Requests = {r1}
  OfferIds = {o1}
  Columns = {price}
  Values = {v1}
  Faults = {"timeout"}
  Admins = {a1}
  Customers = {c1}
  Readers = {}
  None = None
SYMMETRY MCContactSymmetry
SPECIFICATION ContactSpec
INVARIANTS
  ApprovedOfferHasGrants
