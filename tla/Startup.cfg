SPECIFICATION FairSpec
CONSTANTS
  w1 = w1
  w2 = w2
  SystemEvents = {"wireless", "fus", "error"}
  WirelessFw = "wireless"
  Statuses = {"success", "invalid", "unassigned"}
  Success = "success"
  Assigned = {"success", "invalid"}
  MaxSystemEvents = 2
  Writers = {w1, w2}
  Nobody = Nobody
  PacketIds = {1, 2, 3}
INVARIANTS
  RunsAfterAnswer
  AclDelivery
PROPERTIES
  StartupEnds
  WritesEnd
CHECK_DEADLOCK FALSE
