CONSTANTS
  Events = {e1, e2}
  Undecodable = {}
  Malformed = {e2}
  Relays = {p1, p2}
  Consumers = {q1}
  BatchSize = 2
  Confirms = TRUE
  MaxCopies = 2
  None = None
SPECIFICATION PipelineFairSpec
INVARIANTS
  PublishedIsNotLost
PROPERTIES
  EventuallyHandled
