SPECIFICATION Spec
CONSTANTS
  Sessions = {s1, s2}
  Parties = {u1, u2}
  Projects = {p1}
  Proposals = {x1}
  None = None
  Grants <- NoGrants
  MaxQuorum = 2
  MaxVotes = 2
  MaxEpoch = 2
SYMMETRY Symmetry
INVARIANTS EpochsSealed QuorumHeld EnactedStaysSpent EpochMeansChange
PROPERTY ImplementsLawBook
