--------------------------- MODULE WalletContract ---------------------------
(***************************************************************************)
(* The wallet smart contract: KeyHolder.sol (who owns the wallet) and      *)
(* ERC1077.sol (meta-transactions signed by the owners), in the state      *)
(* WalletMaster.initialize leaves them.                                    *)
(*                                                                         *)
(* A transaction is atomic, yet it is not one step here.  executeSigned    *)
(* makes a low-level call to `to`, and a contract called this way may call *)
(* the wallet again before the first executeSigned returns.  Each          *)
(* executeSigned in progress is a frame of a call stack: BeginExecute      *)
(* pushes it, FinishExecute and RevertExecute pop it, and anything in      *)
(* between is what the called contract does.                               *)
(***************************************************************************)
EXTENDS Integers, Sequences, FiniteSets

CONSTANTS
  Accounts,       \* externally owned accounts: they sign, and send transactions
  Contracts,      \* other contracts: they cannot sign, but they can call
  Wallet,         \* the address of this wallet, address(this)
  Ops,            \* the calls that messages and transactions may carry
  MaxNonce,       \* bound: executeSigned accepts nonces below it
  MaxDepth,       \* bound: executeSigned calls nested in one another
  MaxSignatures   \* bound: signatures attached to a message

NULL_ADDRESS == 0
Address == Accounts \cup Contracts \cup {Wallet, NULL_ADDRESS}

MANAGEMENT_KEY == 1
ACTION_KEY == 2
Purpose == {0, MANAGEMENT_KEY, ACTION_KEY}   \* 0 is what an unset slot reads as

MAX_KEYS_PER_ADD == 5

\* A call of the wallet's own functions, or ("call") of another contract.
Op ==
  [fn : {"addKey", "removeKey"}, key : Address, purpose : Purpose]
    \cup [fn : {"addKeys"}, keys : Seq(Address), purposes : Seq(Purpose)]
    \cup [fn : {"setRequiredSignatures"}, required : Nat]
    \cup [fn : {"call"}, to : Contracts]

ASSUME AddressAssumption ==
  /\ Accounts \subseteq Nat \ {0}
  /\ Contracts \subseteq Nat \ {0}
  /\ Wallet \in Nat \ {0}
  /\ Accounts \cap Contracts = {}
  /\ Wallet \notin Accounts \cup Contracts
  /\ IsFiniteSet(Accounts) /\ IsFiniteSet(Contracts)

ASSUME OpsAssumption == Ops \subseteq Op

ASSUME BoundAssumption ==
  MaxNonce \in Nat /\ MaxDepth \in Nat /\ MaxSignatures \in Nat

VARIABLES
  wallet,   \* the contract's storage and its ExecutedSigned event log
  depth,    \* number of executeSigned calls in progress
  frame     \* frame[i], for i <= depth: the i-th of them, outermost first

vars == <<wallet, depth, frame>>

\* `owners` are the addresses with keys[a].key # 0, `purpose` is
\* keys[a].purpose; `log` holds the ExecutedSigned events that still stand.
WalletState ==
  [owners : SUBSET Address, purpose : [Address -> Purpose], keyCount : Nat,
   required : Nat, nonce : Nat,
   log : Seq([nonce : Nat, op : Ops, success : BOOLEAN])]

\* `saved` is the storage the frame started from, restored if it reverts.
Frame == [op : Ops, nonce : Nat, sigs : Seq(Address), saved : WalletState]

NoFrame == [op |-> "none"]

-----------------------------------------------------------------------------
(***************************************************************************)
(* KeyHolder: the functions that manage keys, called by `sender`.          *)
(***************************************************************************)
ManagementKeyOrThis(w, sender) ==
  w.purpose[sender] = MANAGEMENT_KEY \/ sender = Wallet

\* Variant: a key already added is added again.
AddableTwice(w, sender, key) == key # sender /\ key # NULL_ADDRESS

\* keys[0].key reads 0, so the null address counts as already added.
Addable(w, sender, key) ==
  /\ key # sender
  /\ key \notin w.owners
  /\ key # NULL_ADDRESS

\* addKeys calls addKey in turn and reverts as a whole, so a key that occurs
\* twice in the list is refused as already added.
AddableAll(w, sender, keys, purposes) ==
  /\ Len(keys) <= MAX_KEYS_PER_ADD
  /\ Len(keys) = Len(purposes)
  /\ \A i \in DOMAIN keys : Addable(w, sender, keys[i])
  /\ \A i, j \in DOMAIN keys : keys[i] = keys[j] => i = j

\* Variant: keyCount - 1 without SafeMath.
RemovableUnchecked(w, sender, key, purpose) ==
  key # sender /\ w.purpose[key] = purpose

\* Only the purpose is compared: an absent key passes with purpose 0.
\* keyCount.sub(1) reverts at zero.
Removable(w, sender, key, purpose) ==
  /\ key # sender
  /\ w.purpose[key] = purpose
  /\ w.keyCount > 0

Requirable(w, required) ==
  /\ required # w.required
  /\ required > 0
  /\ required <= w.keyCount

\* The require clauses of the function `op` names, modifier included.
Permitted(w, sender, op) ==
  /\ ManagementKeyOrThis(w, sender)
  /\ \/ op.fn = "addKey" /\ Addable(w, sender, op.key)
     \/ op.fn = "addKeys" /\ AddableAll(w, sender, op.keys, op.purposes)
     \/ op.fn = "removeKey" /\ Removable(w, sender, op.key, op.purpose)
     \/ op.fn = "setRequiredSignatures" /\ Requirable(w, op.required)

WithKeys(w, keys, purposes) ==
  [w EXCEPT
     !.owners = @ \cup {keys[i] : i \in DOMAIN keys},
     !.purpose = [a \in Address |->
        IF \E i \in DOMAIN keys : keys[i] = a
        THEN purposes[CHOOSE i \in DOMAIN keys : keys[i] = a]
        ELSE @[a]],
     !.keyCount = @ + Len(keys)]

WithoutKey(w, key) ==
  [w EXCEPT !.owners = @ \ {key}, !.purpose[key] = 0, !.keyCount = @ - 1]

\* The storage `op` leaves behind when it is permitted.
Effect(w, op) ==
  CASE op.fn = "addKey"    -> WithKeys(w, <<op.key>>, <<op.purpose>>)
    [] op.fn = "addKeys"   -> WithKeys(w, op.keys, op.purposes)
    [] op.fn = "removeKey" -> WithoutKey(w, op.key)
    [] op.fn = "setRequiredSignatures" -> [w EXCEPT !.required = op.required]

-----------------------------------------------------------------------------
(***************************************************************************)
(* ERC1077: executing a signed message.                                    *)
(***************************************************************************)
\* Variant: a signer may sign twice (< for <= in the loop).
SignaturesAscendWeakly(w, sigs) ==
  \A i \in DOMAIN sigs :
    /\ sigs[i] \in w.owners
    /\ sigs[i] >= IF i = 1 THEN NULL_ADDRESS ELSE sigs[i - 1]

\* areSignaturesValid: every signer holds a key, and signers strictly ascend
\* from address zero, which is also what ecrecover returns on failure.
SignaturesValid(w, sigs) ==
  \A i \in DOMAIN sigs :
    /\ sigs[i] \in w.owners
    /\ sigs[i] > IF i = 1 THEN NULL_ADDRESS ELSE sigs[i - 1]

\* The require clauses of executeSigned.
Acceptable(w, nonce, sigs) ==
  /\ Len(sigs) # 0
  /\ Len(sigs) >= w.required
  /\ nonce = w.nonce
  /\ SignaturesValid(w, sigs)

\* Variant: the nonce is not spent before the call is made.
KeepNonce(w) == w

\* lastNonce++, before the call is made.
SpendNonce(w) == [w EXCEPT !.nonce = @ + 1]

\* The event is emitted after the call, whatever its outcome.
Logged(w, f, success) ==
  [w EXCEPT !.log = Append(@, [nonce |-> f.nonce, op |-> f.op, success |-> success])]

\* Whoever runs now: the sender of a transaction, or the contract that the
\* innermost executeSigned has called.  A message to the wallet itself leaves
\* nobody to make further calls.
Running ==
  IF depth = 0
  THEN Accounts \cup Contracts
  ELSE IF frame[depth].op.fn = "call" THEN {frame[depth].op.to} ELSE {}

\* executeSigned number `d` returns to its caller.
Pop(d) == frame' = [frame EXCEPT ![d] = NoFrame] /\ depth' = d - 1

-----------------------------------------------------------------------------
Init ==
  /\ \E key \in Accounts :
       wallet = [owners |-> {key},
                 purpose |-> [a \in Address |-> IF a = key THEN MANAGEMENT_KEY ELSE 0],
                 keyCount |-> 1, required |-> 1, nonce |-> 0, log |-> << >>]
  /\ depth = 0
  /\ frame = [i \in 1..MaxDepth |-> NoFrame]

\* A function of the wallet called as such, not through executeSigned.
DirectCall(sender, op) ==
  /\ sender \in Running
  /\ Permitted(wallet, sender, op)
  /\ wallet' = Effect(wallet, op)
  /\ UNCHANGED <<depth, frame>>

\* executeSigned up to its low-level call.  Anyone may send it.
BeginExecute(op, nonce, sigs) ==
  /\ Running # {}
  /\ depth < MaxDepth
  /\ nonce < MaxNonce
  /\ Acceptable(wallet, nonce, sigs)
  /\ depth' = depth + 1
  /\ frame' = [frame EXCEPT ![depth + 1] =
                 [op |-> op, nonce |-> nonce, sigs |-> sigs, saved |-> wallet]]
  /\ wallet' = SpendNonce(wallet)

\* Variant: the failed call also gives its nonce back.
FinishCallRefundingNonce(success) ==
  /\ depth > 0
  /\ LET f == frame[depth]
     IN /\ f.op.fn = "call"
        /\ wallet' = Logged(IF success THEN wallet ELSE f.saved, f, success)
        /\ Pop(depth)

\* The call to another contract returns, and so does executeSigned.  A failed
\* call undoes what was done during it, not the nonce spent before it.
FinishCall(success) ==
  /\ depth > 0
  /\ LET f == frame[depth]
     IN /\ f.op.fn = "call"
        /\ wallet' = Logged(IF success THEN wallet ELSE SpendNonce(f.saved), f, success)
        /\ Pop(depth)

\* The same for a message to the wallet itself: msg.sender is the wallet.  The
\* call may fail for want of gas even when it is permitted.
FinishSelfCall(success) ==
  /\ depth > 0
  /\ LET f == frame[depth]
     IN /\ f.op.fn # "call"
        /\ success => Permitted(wallet, Wallet, f.op)
        /\ wallet' = Logged(IF success THEN Effect(wallet, f.op) ELSE wallet, f, success)
        /\ Pop(depth)

\* executeSigned reverts: out of gas, or the wallet cannot pay the refund.
RevertExecute ==
  /\ depth > 0
  /\ wallet' = frame[depth].saved
  /\ Pop(depth)

Signatures == UNION {[1..n -> Accounts \cup {NULL_ADDRESS}] : n \in 0..MaxSignatures}

Next ==
  \/ \E sender \in Accounts \cup Contracts, op \in Ops : DirectCall(sender, op)
  \/ \E op \in Ops, nonce \in 0..MaxNonce, sigs \in Signatures :
       BeginExecute(op, nonce, sigs)
  \/ \E success \in BOOLEAN : FinishCall(success)
  \/ \E success \in BOOLEAN : FinishSelfCall(success)
  \/ RevertExecute

Spec == Init /\ [][Next]_vars

-----------------------------------------------------------------------------
\* The three variables have the types of the contract's storage, and every
\* executeSigned in progress keeps a storage to fall back on.
TypeOK ==
  /\ wallet \in WalletState
  /\ depth \in 0..MaxDepth
  /\ DOMAIN frame = 1..MaxDepth
  /\ \A i \in 1..depth : frame[i] \in Frame

InFlight == {frame[i].nonce : i \in 1..depth}
Spent(w) == {w.log[i].nonce : i \in DOMAIN w.log}

\* Each nonce below lastNonce was spent by exactly one executeSigned, which
\* either is in progress or has left its event; whatever called contracts
\* re-enter and whichever calls revert, no nonce is spent twice or lost
\* (ERC1077.sol:119-128).
NoncesSpentOnce ==
  /\ Spent(wallet) \cup InFlight = 0..(wallet.nonce - 1)
  /\ Spent(wallet) \cap InFlight = {}
  /\ \A i, j \in DOMAIN wallet.log :
       wallet.log[i].nonce = wallet.log[j].nonce => i = j

\* An accepted message carries the signatures of at least requiredSignatures
\* different holders of a key, counted as a set: what the length check and
\* the ascending order of signers together are for (ERC1077.sol:118,169).
QuorumOfOwners ==
  [][depth' > depth =>
       LET signers == {frame'[depth'].sigs[i] : i \in DOMAIN frame'[depth'].sigs}
       IN /\ signers \subseteq wallet.owners
          /\ Cardinality(signers) >= wallet.required]_vars

\* keyCount never exceeds the number of keys, no message is ever executable
\* without a signature, address zero is never a key, and an address without a
\* key has no purpose left over from an earlier one (KeyHolder.sol:52-84;
\* "There cannot be an owner with address 0", ERC1077.sol:152).
KeysConsistent ==
  /\ wallet.keyCount <= Cardinality(wallet.owners)
  /\ wallet.required > 0
  /\ NULL_ADDRESS \notin wallet.owners
  /\ \A a \in Address : wallet.purpose[a] # 0 => a \in wallet.owners

\* The history a reader of the blockchain sees: the storage before the
\* transaction in progress, its events in nonce order.
Committed == IF depth = 0 THEN wallet ELSE frame[1].saved

Ledger == INSTANCE NonceLedger WITH
  ledger <- [n \in 1..Len(Committed.log) |->
               {Committed.log[i] : i \in {j \in DOMAIN Committed.log :
                                            Committed.log[j].nonce = n - 1}}]

\* Every transaction extends the history of executed messages and rewrites
\* none of it (ERC1077.sol:106-132).
LedgerSpec == Ledger!Spec

\* "Signatures exceed owned keys number" is what setRequiredSignatures refuses
\* (ERC1077.sol:53): the threshold can be met by the keys there are.
RequiredWithinOwnedKeys == wallet.required <= Cardinality(wallet.owners)
=============================================================================
