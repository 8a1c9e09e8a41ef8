SPECIFICATION Spec
CONSTANTS
  Sessions = {s1}
  Verifiers = {v1}
  Ids = {i1, i2}
  Bodies = {b1, b2}
  Evidence = {TRUE, FALSE}
  None = None
  MaxSeq = 3
SYMMETRY Symmetry
INVARIANTS ChainWhole AlarmNeedsReseal
PROPERTIES ImplementsAuditChain
