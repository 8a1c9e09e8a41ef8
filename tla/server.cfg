SPECIFICATION FairSpec
CONSTANTS
  c1 = c1
  c2 = c2
  Clients = {c1, c2}
  Sids = {1, 2}
  Patterns <- MCPatterns
  Topics <- MCTopics
  Messages <- MCMessages
  Capacity = 1
  WireMax = 0
  MaxSent <- MCMaxSent
  None = None
CHECK_DEADLOCK FALSE
INVARIANTS InOrderOnce OnlyLagSkips ClosedForCause 
PROPERTY CatchesUp
