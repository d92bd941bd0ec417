\* Spec 8 at-most-once with a single validator: the offchain worker runs
\* again for a block after a re-org.
CONSTANTS
  Accounts = {a1, a2}
  k1 = k1
  k2 = k2
  kx = kx
  NoKey = NoKey
  Validators <- MCOneValidator
  LocalKey <- MCLocalKey
  RootKeys <- MCRootKeys
  AttackerKeys <- MCAttackerKeys
  InitKeys <- MCBothKeys
  VerifyDelay = 1
  EvidenceLifetime = 2
  OracleReplies <- MCOracleReplies
  MaxHeight = 5
  MaxKeys = 2
  MaxRequests = 2
  MaxReorgs = 1
SYMMETRY MCSymmetry
SPECIFICATION Spec
INVARIANT AtMostOnce
