\* The pipeline refines VerifierAbstract, from genesis, with two validators,
\* one of them without a local key, root registering keys at any time, and a forging peer.
CONSTANTS
  Accounts = {a1, a2}
  k1 = k1
  k2 = k2
  kx = kx
  NoKey = NoKey
  Validators <- MCValidators
  LocalKey <- MCLocalKeyOneKeyless
  RootKeys <- MCRootKeys
  AttackerKeys <- MCAttackerKeys
  InitKeys <- MCGenesisKeys
  VerifyDelay = 1
  EvidenceLifetime = 2
  OracleReplies <- MCOracleReplies
  MaxHeight = 5
  MaxKeys = 2
  MaxRequests = 2
  MaxReorgs = 0
SYMMETRY MCSymmetry
SPECIFICATION Spec
PROPERTY AbstractSpec
