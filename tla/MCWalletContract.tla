-------------------------- MODULE MCWalletContract --------------------------
(***************************************************************************)
(* Instances of WalletContract small enough for TLC.  Address 3 is a       *)
(* contract that can re-enter the wallet and can be given a key.           *)
(***************************************************************************)
EXTENDS MessageFormats

MCAccounts == {1, 2}
MCContracts == {3}

AddKey(key, purpose) == [fn |-> "addKey", key |-> key, purpose |-> purpose]
RemoveKey(key, purpose) == [fn |-> "removeKey", key |-> key, purpose |-> purpose]
Require(n) == [fn |-> "setRequiredSignatures", required |-> n]
CallOther == [fn |-> "call", to |-> 3]

MCOps ==
  {AddKey(1, MANAGEMENT_KEY), AddKey(2, ACTION_KEY), AddKey(NULL_ADDRESS, ACTION_KEY),
   [fn |-> "addKeys", keys |-> <<2, 3>>, purposes |-> <<MANAGEMENT_KEY, MANAGEMENT_KEY>>],
   RemoveKey(1, MANAGEMENT_KEY), RemoveKey(2, ACTION_KEY), RemoveKey(3, 0),
   Require(0), Require(1), Require(2), CallOther}

\* Enough to set a threshold of two and lose one of the two keys.
MCLockOps == {AddKey(2, ACTION_KEY), Require(2), RemoveKey(2, ACTION_KEY)}
=============================================================================
