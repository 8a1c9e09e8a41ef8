SPECIFICATION FairSpec
CONSTANTS
  c1 = c1
  c2 = c2
  Concepts = {c1, c2}
  Items = {i1}
  Scope <- MCScope
  Raising = {c2}
  Sealers = {s1}
  Readers = {r1}
  Worker = worker
  None = None
  MaxSeq = 2
  MaxCalls = 2
INVARIANTS
  
  AnswerTrue
  GraphCovers

  
CHECK_DEADLOCK FALSE
