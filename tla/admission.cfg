SPECIFICATION FairSpec
CONSTANTS
  Conns = {c1}
  Tokens <- MCTokens
  Configs <- MCConfigs
  Kernels <- MCKernels
  DefaultKernel <- A
  Inputs <- MCInputs
  Faults = {"crash", "thread"}
  MaxNow = 2
  MaxChanges = 2
  Issuer = issuer
  Audience = audience
  Leeway = 1
  SafeChars <- MCSafe
  MetaChars <- MCMeta
  Malformed = Malformed
  None = None
  realmKey = realmKey
  otherKey = otherKey
  issuer = issuer
  audience = audience
INVARIANTS
  CredentialBound
  DoorIdentity
PROPERTIES
  StrictIsStrict
  PolicyConverges
  
CHECK_DEADLOCK FALSE
