\* Safety of the pipeline from genesis (PublicKeys empty): two validators,
\* root registering their keys at any time, and a forging peer.
CONSTANTS
  Accounts = {a1, a2}
  k1 = k1
  k2 = k2
  kx = kx
  NoKey = NoKey
  Validators <- MCValidators
  LocalKey <- MCLocalKey
  RootKeys <- MCRootKeys
  AttackerKeys <- MCAttackerKeys
  InitKeys <- MCGenesisKeys
  VerifyDelay = 1
  EvidenceLifetime = 2
  OracleReplies <- MCOracleReplies
  MaxHeight = 5
  MaxKeys = 2
  MaxRequests = 2
  MaxReorgs = 1
SYMMETRY MCSymmetry
SPECIFICATION Spec
INVARIANTS
  TypeOK
  AcceptedOnlyFromRegisteredKeys
  AcceptedWithinLifetime
  AcceptedAfterScheduledBlock
