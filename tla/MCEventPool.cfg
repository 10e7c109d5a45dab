SPECIFICATION FairPoolSpec
CONSTANTS
  b1 = b1
  b2 = b2
  b3 = b3
  Rsp = Rsp
  None = None
  Buffers = {b1, b2, b3}
  Kinds = {"event", "undecodable"}
  Undecodable = {"undecodable"}
  ResponseCoded = {}
INVARIANTS
  OneOwner
  NothingLost
  PendingProtected
  ReturnUnderWay
PROPERTIES
  PacketStable
  BuffersComeBack
  ImplementsLoan
