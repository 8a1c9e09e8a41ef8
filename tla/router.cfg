SPECIFICATION Spec
CONSTANTS
  Patterns <- AllPatterns
  Inputs <- AllSubjects
  None = None
INVARIANTS
  MatchesIsFits
CHECK_DEADLOCK FALSE
