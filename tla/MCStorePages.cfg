CONSTANTS
  None = None
  Faults = {"unsent", "lost"}
  CallSlots <- MCSlots
  MaxWaiting = 2
  Requests = {r1, r2}
  MaxOffers = 2
  Items = {i1, i2}
  ShortNames = {i1}
  Cases = {c1, c2}
  MaxNotices = 2
  ListLimit = 1
  Keys <- MCKeys
  UrlIds <- MCUrls
  Files = {f1, f2}
SPECIFICATION FairSpec
INVARIANTS PagesTypeOK TermsGoToTheirOffer JoinedListedAtMostOnce RevokedShownIsRevoked ShownIsNotStale UrlsAreGivenBack RequestsWaitIsAwaited OfferSavingIsAwaited
PROPERTIES AsksForWhatIsTyped InboxConverges
