CONSTANTS
  None = None
  Faults = {}
  CallSlots <- MCSlots
  MaxWaiting = 2
  Requests = {r1, r2}
  MaxOffers = 2
  Items = {i1, i2}
  ShortNames = {i1}
  Cases = {c1, c2}
  MaxNotices = 2
  ListLimit = 1
  Keys <- MCKeys
  UrlIds <- MCUrls
  Files = {f1, f2}
SPECIFICATION Spec
INVARIANTS
  EditsTheOfferOfItsPage
