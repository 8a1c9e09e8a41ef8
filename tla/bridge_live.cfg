SPECIFICATION FairSpec
CONSTANTS
  Requests = {r1}
  Sql = Sql
  None = None
  QueueMax = 1
  ChannelMax = 1
  BatchMax = 1
  JsStream = FALSE
  Faults = {"crash", "outage"}
  MaxSeq = 2
PROPERTIES EventsPublished 
