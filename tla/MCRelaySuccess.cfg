\* One message with one signature: its transaction is mined and reverts.
CONSTANTS
  Messages <- MCOneMessage
  NonceOf <- MCOneNonceOf
  Keys <- MCOneKey
  Requests = {r1}
  Inputs <- MCOneInput
  Thresholds = {1}
  MaxChanges = 0
  MaxCrashes = 0
SPECIFICATION Spec
INVARIANT SuccessMeansExecuted
CHECK_DEADLOCK FALSE
