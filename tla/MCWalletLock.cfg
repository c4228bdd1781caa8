\* The owners set a threshold of two and then give up one of the two keys.
CONSTANTS
  Accounts <- MCAccounts
  Contracts <- MCContracts
  Wallet = 4
  Ops <- MCLockOps
  MaxNonce = 1
  MaxDepth = 1
  MaxSignatures = 2
  Numbers = {0, 9, 10}
SPECIFICATION Spec
INVARIANT RequiredWithinOwnedKeys
CHECK_DEADLOCK FALSE
