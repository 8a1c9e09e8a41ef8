SPECIFICATION Spec
CONSTANTS
  Sessions = {s1}
  Parties = {u1, u2}
  Projects = {p1, p2}
  Proposals = {x1}
  None = None
  Grants <- VotersOnly
  MaxQuorum = 2
  MaxVotes = 2
  MaxEpoch = 2
SYMMETRY Symmetry
INVARIANTS AppliedOnce EnactedTraceable EpochsContiguous
PROPERTIES OwnerKept
