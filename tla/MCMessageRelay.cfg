\* Two requests over two messages for consecutive nonces, two signing keys;
\* the wallet changes once and the relayer crashes once, at any point.
CONSTANTS
  Messages <- MCMessages
  NonceOf <- MCNonceOf
  Keys <- MCKeys
  Requests = {r1, r2}
  Inputs <- MCInputs
  Thresholds = {1, 2}
  MaxChanges = 1
  MaxCrashes = 1
SPECIFICATION Spec
SYMMETRY MCSymmetry
INVARIANT TypeOK SentOncePerSignature HashMeansReceipt QueuedSurvives PendingIsQueued
PROPERTY QueueIsDurable
CHECK_DEADLOCK FALSE
