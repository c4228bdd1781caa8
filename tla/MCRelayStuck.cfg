\* One message with one signature, posted again after a crash.
CONSTANTS
  Messages <- MCOneMessage
  NonceOf <- MCOneNonceOf
  Keys <- MCOneKey
  Requests = {r1, r2}
  Inputs <- MCOneInput
  Thresholds = {1}
  MaxChanges = 0
  MaxCrashes = 1
SPECIFICATION FairSpec
PROPERTY EnoughSignaturesSettle
CHECK_DEADLOCK FALSE
