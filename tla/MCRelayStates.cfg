\* One message with one signature: the row is updated late.
CONSTANTS
  Messages <- MCOneMessage
  NonceOf <- MCOneNonceOf
  Keys <- MCOneKey
  Requests = {r1}
  Inputs <- MCOneInput
  Thresholds = {1}
  MaxChanges = 0
  MaxCrashes = 0
SPECIFICATION Spec
PROPERTY StatesFollowDiagram
CHECK_DEADLOCK FALSE
