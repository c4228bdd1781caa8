\* One signature posted twice at once.
CONSTANTS
  Messages <- MCOneMessage
  NonceOf <- MCOneNonceOf
  Keys <- MCOneKey
  Requests = {r1, r2}
  Inputs <- MCOneInput
  Thresholds = {1}
  MaxChanges = 0
  MaxCrashes = 0
SPECIFICATION Spec
INVARIANT SignaturesDistinct
CHECK_DEADLOCK FALSE
