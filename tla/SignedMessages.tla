--------------------------- MODULE SignedMessages ---------------------------
(***************************************************************************)
(* What the keys of a wallet sign and what the contract checks.  The SDK   *)
(* hashes a message and signs the hash; the relayer recovers each signer,  *)
(* stores the signature under its key, sorts the signatures it has by key, *)
(* joins them and encodes the call of executeSigned; the contract hashes   *)
(* its arguments and recovers the signers from the joined signatures.      *)
(*                                                                         *)
(* keccak256 is the tuple of what it hashes, a signature a record of the   *)
(* signer and the digest signed.                                           *)
(***************************************************************************)
EXTENDS WalletContract

Field == {0, 1}   \* two values that a field may have

\* The accounts that sign a message, in this order.
SignedBy == UNION {[1..n -> Accounts] : n \in 1..MaxSignatures}

\* UnsignedMessage.
Message ==
  [from : {Wallet, NULL_ADDRESS}, to : Field, value : Field, data : Field, nonce : Field,
   gasPrice : Field, gasToken : Field, gasLimit : Field, operationType : Field]

Keccak(bytes) == <<"keccak256", bytes>>

\* The prefix of hashMessage in ethers and of toEthSignedMessageHash on chain.
EthSigned(digest) == Keccak(<<"Ethereum Signed Message", digest>>)

Sign(digest, key) == [signer |-> key, over |-> EthSigned(digest)]

\* ecrecover: for another digest it returns an address without a known key.
Recover(digest, signature) ==
  IF signature.over = digest THEN signature.signer ELSE NULL_ADDRESS

-----------------------------------------------------------------------------
(***************************************************************************)
(* The SDK and the relayer.                                                *)
(***************************************************************************)
CalculateMessageHash(m) ==
  Keccak(<<m.from, m.to, m.value, Keccak(m.data), m.nonce, m.gasPrice, m.gasToken,
           m.gasLimit, m.operationType>>)

CreateSignedMessage(m, key) == Sign(CalculateMessageHash(m), key)

\* addSignature, for each of them as it arrives.
Collected(m, keys) ==
  [i \in DOMAIN keys |->
     LET signature == CreateSignedMessage(m, keys[i])
     IN [key |-> Recover(EthSigned(CalculateMessageHash(m)), signature), signature |-> signature]]

\* The pairs that a stable sort by key puts before the i-th.
Before(pairs, i) ==
  {j \in DOMAIN pairs :
     pairs[j].key < pairs[i].key \/ (pairs[j].key = pairs[i].key /\ j < i)}

\* Variant: the highest key first.
SortedDescending(pairs) ==
  [n \in DOMAIN pairs |->
     pairs[CHOOSE i \in DOMAIN pairs : Cardinality(Before(pairs, i)) = Len(pairs) - n]]

\* sortSignatureKeyPairsByKey.
Sorted(pairs) ==
  [n \in DOMAIN pairs |->
     pairs[CHOOSE i \in DOMAIN pairs : Cardinality(Before(pairs, i)) = n - 1]]

\* Signatures of 65 bytes each: joined, they are still a sequence.
CollectedSignatures(pairs) ==
  LET sorted == Sorted(pairs) IN [i \in DOMAIN sorted |-> sorted[i].signature]

\* encodeDataForExecuteSigned: the arguments by position.
Encoded(m, signatures) ==
  <<m.to, m.value, m.data, m.nonce, m.gasPrice, m.gasToken, m.gasLimit, m.operationType, signatures>>

-----------------------------------------------------------------------------
(***************************************************************************)
(* The contract.                                                           *)
(***************************************************************************)
\* calculateMessageHash, of the wallet itself and the other arguments.
ContractHash(a) ==
  Keccak(<<Wallet, a[1], a[2], Keccak(a[3]), a[4], a[5], a[6], a[7], a[8]>>)

\* canExecute: the signers that areSignaturesValid goes through.
Signers(a) ==
  LET digest == EthSigned(ContractHash(a))
  IN [i \in DOMAIN a[9] |-> Recover(digest, a[9][i])]

-----------------------------------------------------------------------------
BaseMessage ==
  [from |-> Wallet, to |-> 0, value |-> 0, data |-> 0, nonce |-> 0,
   gasPrice |-> 0, gasToken |-> 0, gasLimit |-> 0, operationType |-> 0]

\* A message and those that differ from it in one field.
Messages == {m \in Message : Cardinality({f \in DOMAIN m : m[f] # BaseMessage[f]}) <= 1}

\* The signatures of one message, sent to the wallet with it or with another one.
Deliveries ==
  {[keys |-> keys, intact |-> other = m,
    signers |-> Signers(Encoded(other, CollectedSignatures(Collected(m, keys))))] :
     m \in Messages, other \in {o \in Messages : o.from = Wallet}, keys \in SignedBy}

\* Whatever the order in which owners sign, the contract takes what the relayer
\* sends for a message, and takes these signatures for no other message; it
\* refuses when one signer is no owner or when a signature is there twice.
CollectedSignaturesAccepted ==
  \A d \in Deliveries :
    SignaturesValid(wallet, d.signers) <=>
      /\ d.intact
      /\ \A i \in DOMAIN d.keys : d.keys[i] \in wallet.owners
      /\ \A i, j \in DOMAIN d.keys : d.keys[i] = d.keys[j] => i = j
=============================================================================
