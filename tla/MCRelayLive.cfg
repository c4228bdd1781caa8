\* Liveness: fairness, and no symmetry.  Two messages that compete for one
\* nonce, so that one of them fails; the relayer may crash once.
CONSTANTS
  Messages <- MCMessages
  NonceOf <- MCRivalNonceOf
  Keys <- MCOneKey
  Requests = {r1, r2}
  Inputs <- MCOneSigner
  Thresholds = {1}
  MaxChanges = 0
  MaxCrashes = 1
SPECIFICATION FairSpec
PROPERTY QueueDrains
CHECK_DEADLOCK FALSE
