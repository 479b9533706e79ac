CONSTANTS
  Events = {e1, e2, e3}
  Undecodable = {e1, e3}
  Malformed = {}
  Relays = {p1, p2}
  Consumers = {q1, q2}
  BatchSize = 2
  Confirms = FALSE
  MaxCopies = 2
  None = None
SYMMETRY MCPipelineSymmetry
SPECIFICATION PipelineSpec
INVARIANTS
  PipelineTypeOK
  StoredOnce
  RowsAreNotShared
