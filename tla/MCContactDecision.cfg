CONSTANTS
  Workers = {w1, w2}
  Sellers = {s1}
  Requests = {r1}
  OfferIds = {o1}
  Columns = {price}
  Values = {v1}
  Faults = {"timeout", "crash"}
  Admins = {a1, a2}
  Customers = {c1}
  Readers = {s1, s2}
  None = None
SYMMETRY MCContactSymmetry
SPECIFICATION ContactSpec
INVARIANTS
  ContactTypeOK
  NoDecisionOnPendingOffer
  GrantsFollowApproval
  ToldWhatWasDecided
  ShownOnlyWhatIsGranted
PROPERTIES
  AuditIsPermanent
