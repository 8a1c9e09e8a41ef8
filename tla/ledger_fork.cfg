SPECIFICATION Spec
CONSTANTS
  Sessions = {s1, s2}
  Verifiers = {}
  Ids = {i1, i2}
  Bodies = {b1}
  Evidence = {FALSE}
  None = None
  MaxSeq = 3
INVARIANT ChainWhole
