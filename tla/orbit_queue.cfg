SPECIFICATION FairSpec
CONSTANTS
  Kernels = {1, 2}
  Concepts = {1}
  Sessions = {s1}
  Worker = Worker
  Period <- Periods
  Promoted <- AllPromoted
  PMax = 1
  MaxAttempts = 2
  MaxTime = 3
  MaxCrashes = 1
  MaxDrafts = 1
INVARIANTS OldestFirst 
 
