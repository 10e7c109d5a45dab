SPECIFICATION FairPoolSpec
CONSTANTS
  b1 = b1
  b2 = b2
  b3 = b3
  Rsp = Rsp
  None = None
  Buffers = {b1, b2, b3}
  Kinds = {"event", "aliased"}
  Undecodable = {}
  ResponseCoded = {"aliased"}
INVARIANTS
  NothingLost
