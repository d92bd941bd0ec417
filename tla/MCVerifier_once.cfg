\* Spec 8 at-most-once: both validators registered, no forging peer needed.
CONSTANTS
  Accounts = {a1, a2}
  k1 = k1
  k2 = k2
  kx = kx
  NoKey = NoKey
  Validators <- MCValidators
  LocalKey <- MCLocalKey
  RootKeys <- MCRootKeys
  AttackerKeys <- MCAttackerKeys
  InitKeys <- MCBothKeys
  VerifyDelay = 1
  EvidenceLifetime = 2
  OracleReplies <- MCOracleReplies
  MaxHeight = 5
  MaxKeys = 2
  MaxRequests = 2
  MaxReorgs = 0
SYMMETRY MCSymmetry
SPECIFICATION Spec
INVARIANT AtMostOnce
