\* Two accounts, one contract that re-enters, two nonces.
CONSTANTS
  Accounts <- MCAccounts
  Contracts <- MCContracts
  Wallet = 4
  Ops <- MCOps
  MaxNonce = 2
  MaxDepth = 2
  MaxSignatures = 2
  Numbers = {0, 9, 10}
SPECIFICATION Spec
INVARIANT TypeOK
INVARIANT NoncesSpentOnce
INVARIANT KeysConsistent
INVARIANT CollectedSignaturesAccepted
INVARIANT SignedAsSent
PROPERTY QuorumOfOwners
PROPERTY LedgerSpec
CHECK_DEADLOCK FALSE
