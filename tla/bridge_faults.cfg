SPECIFICATION Spec
CONSTANTS
  Requests = {r1}
  Sql = Sql
  None = None
  QueueMax = 1
  ChannelMax = 2
  BatchMax = 2
  JsStream = TRUE
  Faults = {"crash", "shutdown", "outage", "loss"}
  MaxSeq = 2
INVARIANTS TypeOK EventsAccounted ResultsTruthful StreamFollowsCore
 
