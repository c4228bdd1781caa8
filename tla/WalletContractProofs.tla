------------------------ MODULE WalletContractProofs ------------------------
(***************************************************************************)
(* Safety of the wallet contract for every set of accounts, contracts and  *)
(* calls, and every bound.                                                 *)
(***************************************************************************)
EXTENDS WalletContract, FiniteSetTheorems, FunctionTheorems,
        WellFoundedInduction, SequenceTheorems, TLAPS

-----------------------------------------------------------------------------
(***************************************************************************)
(* The inductive invariant.  A storage is well formed when its keys are,   *)
(* and when its log and the executeSigned calls it was saved under account *)
(* for every nonce it has spent.  That must hold of every saved storage    *)
(* too, since a revert makes it current again.                             *)
(***************************************************************************)
KeysOK(w) ==
  /\ w.keyCount <= Cardinality(w.owners)
  /\ NULL_ADDRESS \notin w.owners
  /\ \A a \in Address : w.purpose[a] # 0 => a \in w.owners
  /\ w.required > 0

Open(d) == {frame[i].nonce : i \in 1..d}

\* `open` are the nonces of the executeSigned calls in progress.
NoncesOK(w, open) ==
  /\ \A n \in Nat : n < w.nonce <=> (n \in Spent(w) \/ n \in open)
  /\ \A n \in Nat : ~ (n \in Spent(w) /\ n \in open)
  /\ \A i, j \in DOMAIN w.log : w.log[i].nonce = w.log[j].nonce => i = j

\* The storage is consistent now, and so is every copy that a failing call or
\* a reverting transaction would bring back.
IInv ==
  /\ TypeOK
  /\ KeysOK(wallet) /\ NoncesOK(wallet, Open(depth))
  /\ \A i \in 1..depth :
       /\ KeysOK(frame[i].saved) /\ NoncesOK(frame[i].saved, Open(i - 1))
       /\ frame[i].nonce = frame[i].saved.nonce

-----------------------------------------------------------------------------
(***************************************************************************)
(* Lemmas about the operators.                                             *)
(***************************************************************************)
LEMMA AddressFacts ==
  /\ Accounts \subseteq Address /\ Contracts \subseteq Address
  /\ Wallet \in Address /\ NULL_ADDRESS \in Address
  /\ Address \subseteq Nat
  /\ IsFiniteSet(Address)
<1>1. IsFiniteSet({Wallet, NULL_ADDRESS})
  <2>1. {Wallet, NULL_ADDRESS} = {Wallet} \cup {NULL_ADDRESS}
    OBVIOUS
  <2>2. IsFiniteSet({Wallet}) /\ IsFiniteSet({NULL_ADDRESS})
    BY FS_Singleton
  <2>3. IsFiniteSet({Wallet} \cup {NULL_ADDRESS})
    BY <2>2, FS_Union
  <2> QED BY <2>1, <2>3
<1>2. IsFiniteSet(Accounts \cup Contracts)
  BY AddressAssumption, FS_Union
<1>3. Address = (Accounts \cup Contracts) \cup {Wallet, NULL_ADDRESS}
  BY DEF Address
<1>4. IsFiniteSet(Address)
  BY <1>1, <1>2, <1>3, FS_Union
<1> QED BY <1>4, AddressAssumption DEF Address, NULL_ADDRESS

\* The lists of signers that messages carry are sequences of addresses.
LEMMA SignaturesAreSequences == Signatures \subseteq Seq(Address)
<1> SUFFICES ASSUME NEW sigs \in Signatures PROVE sigs \in Seq(Address)
  OBVIOUS
<1>1. PICK n \in 0..MaxSignatures : sigs \in [1..n -> Accounts \cup {NULL_ADDRESS}]
  BY DEF Signatures
<1>2. n \in Nat /\ sigs \in [1..n -> Address]
  <2>1. Accounts \cup {NULL_ADDRESS} \subseteq Address
    BY AddressFacts
  <2> QED BY <1>1, <2>1, BoundAssumption
<1>3. sigs \in UNION {[1..k -> Address] : k \in Nat}
  BY <1>2
<1> QED BY <1>3, SeqDef

\* There are finitely many owners, so they can be counted.
LEMMA OwnersFinite ==
  ASSUME NEW w \in WalletState
  PROVE  IsFiniteSet(w.owners) /\ Cardinality(w.owners) \in Nat
BY AddressFacts, FS_Subset, FS_CardinalityType DEF WalletState

\* A list of n different keys adds exactly n owners.
LEMMA WithKeysCardinality ==
  ASSUME NEW w \in WalletState, NEW keys \in Seq(Address),
         \A i \in DOMAIN keys : keys[i] \notin w.owners,
         \A i, j \in DOMAIN keys : keys[i] = keys[j] => i = j
  PROVE  Cardinality(w.owners \cup {keys[i] : i \in DOMAIN keys})
           = Cardinality(w.owners) + Len(keys)
<1> DEFINE R == {keys[i] : i \in DOMAIN keys}
           n == Len(keys)
<1>1. n \in Nat /\ DOMAIN keys = 1..n /\ keys \in [1..n -> R]
  OBVIOUS
<1>2. keys \in Bijection(1..n, R)
  BY <1>1, Fun_IsBij
<1>3. ExistsBijection(1..n, R)
  BY <1>2 DEF ExistsBijection
<1>4. IsFiniteSet(1..n) /\ Cardinality(1..n) = n
  <2>1. 1 \in Int /\ n \in Int
    BY <1>1
  <2> HIDE DEF n
  <2>2. /\ IsFiniteSet(1..n)
        /\ Cardinality(1..n) = IF 1 > n THEN 0 ELSE n - 1 + 1
    BY <2>1, FS_Interval
  <2> QED BY <1>1, <2>2
<1>5. IsFiniteSet(R) /\ Cardinality(R) = n
  BY <1>3, <1>4, FS_Bijection
<1>6. w.owners \cap R = {}
  OBVIOUS
<1>7. Cardinality(w.owners \cup R)
        = Cardinality(w.owners) + Cardinality(R) - Cardinality(w.owners \cap R)
  BY <1>5, OwnersFinite, FS_Union
<1>8. Cardinality(w.owners \cap R) = 0
  BY <1>6, FS_EmptySet
<1>9. Cardinality(w.owners \cup R) = Cardinality(w.owners) + n
  <2> HIDE DEF R, n
  <2> QED BY <1>1, <1>5, <1>7, <1>8, OwnersFinite
<1> QED BY <1>9

\* Adding new keys keeps a sound storage sound.
LEMMA WithKeysOK ==
  ASSUME NEW w \in WalletState, KeysOK(w), NEW sender \in Address,
         NEW keys \in Seq(Address), NEW purposes \in Seq(Purpose),
         Len(keys) = Len(purposes),
         \A i \in DOMAIN keys : Addable(w, sender, keys[i]),
         \A i, j \in DOMAIN keys : keys[i] = keys[j] => i = j
  PROVE  /\ WithKeys(w, keys, purposes) \in WalletState
         /\ KeysOK(WithKeys(w, keys, purposes))
         /\ WithKeys(w, keys, purposes).log = w.log
         /\ WithKeys(w, keys, purposes).nonce = w.nonce
<1> DEFINE v == WithKeys(w, keys, purposes)
<1>1. DOMAIN keys = DOMAIN purposes /\ Len(keys) \in Nat
  OBVIOUS
<1>2. \A a \in Address :
        (\E i \in DOMAIN keys : keys[i] = a)
          => purposes[CHOOSE i \in DOMAIN keys : keys[i] = a] \in Purpose
  BY <1>1
<1>3. v.owners = w.owners \cup {keys[i] : i \in DOMAIN keys}
  BY DEF WithKeys, WalletState
<1>4. v.purpose = [a \in Address |->
                     IF \E i \in DOMAIN keys : keys[i] = a
                     THEN purposes[CHOOSE i \in DOMAIN keys : keys[i] = a]
                     ELSE w.purpose[a]]
  BY DEF WithKeys, WalletState
<1>5. v.keyCount = w.keyCount + Len(keys)
  BY DEF WithKeys, WalletState
<1>6. v.required = w.required /\ v.log = w.log /\ v.nonce = w.nonce
  BY DEF WithKeys, WalletState
<1>7. v.purpose \in [Address -> Purpose]
  BY <1>2, <1>4 DEF WalletState
<1>8. v.owners \in SUBSET Address /\ v.keyCount \in Nat
  BY <1>1, <1>3, <1>5 DEF WalletState
<1>9. v \in WalletState
  BY <1>6, <1>7, <1>8 DEF WithKeys, WalletState
<1>10. v.keyCount <= Cardinality(v.owners)
  <2>1. Cardinality(v.owners) = Cardinality(w.owners) + Len(keys)
    BY <1>3, WithKeysCardinality DEF Addable
  <2>2. w.keyCount \in Nat /\ w.keyCount <= Cardinality(w.owners)
    BY DEF KeysOK, WalletState
  <2> HIDE DEF v
  <2> QED BY <1>1, <1>5, <2>1, <2>2, OwnersFinite
<1>11. NULL_ADDRESS \notin v.owners
  BY <1>3 DEF KeysOK, Addable
<1>12. \A a \in Address : v.purpose[a] # 0 => a \in v.owners
  BY <1>3, <1>4 DEF KeysOK
<1> QED BY <1>6, <1>9, <1>10, <1>11, <1>12 DEF KeysOK

\* Removing a key that Removable admits does too.
LEMMA WithoutKeyOK ==
  ASSUME NEW w \in WalletState, KeysOK(w), NEW sender \in Address,
         NEW key \in Address, NEW purpose \in Purpose,
         Removable(w, sender, key, purpose)
  PROVE  /\ WithoutKey(w, key) \in WalletState
         /\ KeysOK(WithoutKey(w, key))
         /\ WithoutKey(w, key).log = w.log
         /\ WithoutKey(w, key).nonce = w.nonce
<1> DEFINE v == WithoutKey(w, key)
<1>1. /\ v.owners = w.owners \ {key}
      /\ v.purpose = [w.purpose EXCEPT ![key] = 0]
      /\ v.keyCount = w.keyCount - 1
      /\ v.required = w.required /\ v.log = w.log /\ v.nonce = w.nonce
  BY DEF WithoutKey, WalletState
<1>2. v \in WalletState
  <2>1. w.keyCount - 1 \in Nat
    BY DEF WalletState, Removable
  <2>2. [w.purpose EXCEPT ![key] = 0] \in [Address -> Purpose]
    BY DEF WalletState, Purpose
  <2> QED BY <2>1, <2>2 DEF WithoutKey, WalletState
<1>3. Cardinality(v.owners) >= Cardinality(w.owners) - 1
  <2>1. Cardinality(w.owners \ {key})
          = IF key \in w.owners THEN Cardinality(w.owners) - 1
                                ELSE Cardinality(w.owners)
    BY OwnersFinite, FS_RemoveElement
  <2> HIDE DEF v
  <2> QED BY <1>1, <2>1, OwnersFinite
<1>4. v.keyCount <= Cardinality(v.owners)
  <2>1. w.keyCount \in Nat /\ w.keyCount <= Cardinality(w.owners)
    BY DEF KeysOK, WalletState
  <2>2. Cardinality(v.owners) \in Nat
    BY <1>2, OwnersFinite
  <2> HIDE DEF v
  <2> QED BY <1>1, <1>3, <2>1, <2>2, OwnersFinite
<1>5. \A a \in Address : v.purpose[a] # 0 => a \in v.owners
  BY <1>1 DEF KeysOK, WalletState
<1> QED BY <1>1, <1>2, <1>4, <1>5 DEF KeysOK

\* A permitted call keeps the keys well formed and touches neither nonce nor log.
LEMMA EffectOK ==
  ASSUME NEW w \in WalletState, KeysOK(w), NEW sender \in Address,
         NEW op \in Ops, Permitted(w, sender, op)
  PROVE  /\ Effect(w, op) \in WalletState
         /\ KeysOK(Effect(w, op))
         /\ Effect(w, op).log = w.log
         /\ Effect(w, op).nonce = w.nonce
<1>0. op \in Op
  BY OpsAssumption
<1>1. CASE op.fn = "addKey" /\ Addable(w, sender, op.key)
  <2>1. op.key \in Address /\ op.purpose \in Purpose
    BY <1>0, <1>1 DEF Op
  <2> DEFINE ks == <<op.key>>
             ps == <<op.purpose>>
  <2>2. ks \in Seq(Address) /\ ps \in Seq(Purpose) /\ Len(ks) = Len(ps)
    BY <2>1
  <2>3. DOMAIN ks = {1} /\ ks[1] = op.key
    OBVIOUS
  <2>4. Effect(w, op) = WithKeys(w, ks, ps)
    BY <1>1 DEF Effect
  <2> HIDE DEF ks, ps
  <2> QED BY <1>1, <2>2, <2>3, <2>4, WithKeysOK
<1>2. CASE op.fn = "addKeys" /\ AddableAll(w, sender, op.keys, op.purposes)
  <2>1. op.keys \in Seq(Address) /\ op.purposes \in Seq(Purpose)
    BY <1>0, <1>2 DEF Op
  <2>2. Effect(w, op) = WithKeys(w, op.keys, op.purposes)
    BY <1>2 DEF Effect
  <2> QED BY <1>2, <2>1, <2>2, WithKeysOK DEF AddableAll
<1>3. CASE op.fn = "removeKey" /\ Removable(w, sender, op.key, op.purpose)
  <2>1. op.key \in Address /\ op.purpose \in Purpose
    BY <1>0, <1>3 DEF Op
  <2>2. Effect(w, op) = WithoutKey(w, op.key)
    BY <1>3 DEF Effect
  <2> QED BY <1>3, <2>1, <2>2, WithoutKeyOK
<1>4. CASE op.fn = "setRequiredSignatures" /\ Requirable(w, op.required)
  <2>1. op.required \in Nat
    BY <1>0, <1>4 DEF Op
  <2>2. Effect(w, op) = [w EXCEPT !.required = op.required]
    BY <1>4 DEF Effect
  <2> QED BY <1>4, <2>1, <2>2 DEF KeysOK, WalletState, Requirable
<1> QED BY <1>1, <1>2, <1>3, <1>4 DEF Permitted

\* So does spending a nonce.
LEMMA SpendNonceOK ==
  ASSUME NEW w \in WalletState, NEW open, KeysOK(w), NoncesOK(w, open)
  PROVE  /\ SpendNonce(w) \in WalletState
         /\ KeysOK(SpendNonce(w))
         /\ NoncesOK(SpendNonce(w), open \cup {w.nonce})
<1> DEFINE v == SpendNonce(w)
<1>1. v.nonce = w.nonce + 1 /\ v.log = w.log /\ w.nonce \in Nat
  BY DEF SpendNonce, WalletState
<1>2. v \in WalletState /\ KeysOK(v)
  BY DEF SpendNonce, WalletState, KeysOK
<1>3. Spent(v) = Spent(w)
  BY <1>1 DEF Spent
<1>4. NoncesOK(v, open \cup {w.nonce})
  <2> HIDE DEF v
  <2> QED BY <1>1, <1>3 DEF NoncesOK
<1> QED BY <1>2, <1>4

\* So does emitting an event.
LEMMA LoggedOK ==
  ASSUME NEW w \in WalletState, NEW f \in Frame, NEW success \in BOOLEAN, NEW open,
         KeysOK(w), NoncesOK(w, open \cup {f.nonce}), f.nonce \notin open
  PROVE  /\ Logged(w, f, success) \in WalletState
         /\ KeysOK(Logged(w, f, success))
         /\ NoncesOK(Logged(w, f, success), open)
<1> DEFINE v == Logged(w, f, success)
           e == [nonce |-> f.nonce, op |-> f.op, success |-> success]
           Entry == [nonce : Nat, op : Ops, success : BOOLEAN]
<1>1. f.nonce \in Nat /\ e \in Entry
  BY DEF Frame
<1>2. w.log \in Seq(Entry)
  BY DEF WalletState
<1>3. v.log = Append(w.log, e) /\ v.nonce = w.nonce /\ w.nonce \in Nat
  BY DEF Logged, WalletState
<1>4. /\ v.log \in Seq(Entry) /\ DOMAIN v.log = 1..(Len(w.log) + 1)
      /\ DOMAIN w.log = 1..Len(w.log) /\ Len(w.log) \in Nat
      /\ \A i \in DOMAIN w.log : v.log[i] = w.log[i]
      /\ v.log[Len(w.log) + 1] = e
  <2> HIDE DEF Entry, e
  <2> QED BY <1>1, <1>2, <1>3
<1>5. v \in WalletState /\ KeysOK(v)
  BY <1>4 DEF Logged, WalletState, KeysOK
<1>6. Spent(v) = Spent(w) \cup {f.nonce}
  <2>1. /\ \A i \in 1..Len(w.log) : v.log[i].nonce = w.log[i].nonce
        /\ v.log[Len(w.log) + 1].nonce = f.nonce
    BY <1>4
  <2>2. 1..(Len(w.log) + 1) = (1..Len(w.log)) \cup {Len(w.log) + 1}
    BY <1>4
  <2>3. Spent(v) = {v.log[i].nonce : i \in (1..Len(w.log)) \cup {Len(w.log) + 1}}
    BY <1>4, <2>2 DEF Spent
  <2>4. Spent(w) = {w.log[i].nonce : i \in 1..Len(w.log)}
    BY <1>4 DEF Spent
  <2> HIDE DEF v, e, Entry
  <2> QED BY <2>1, <2>3, <2>4
<1>7. f.nonce \notin Spent(w)
  BY <1>1 DEF NoncesOK
<1>8. \A i, j \in DOMAIN v.log : v.log[i].nonce = v.log[j].nonce => i = j
  <2>1. \A i \in DOMAIN w.log : w.log[i].nonce # f.nonce
    BY <1>7 DEF Spent
  <2>2. /\ \A i \in 1..Len(w.log) : v.log[i].nonce = w.log[i].nonce
        /\ v.log[Len(w.log) + 1].nonce = f.nonce
    BY <1>4
  <2>3. \A i, j \in 1..Len(w.log) : w.log[i].nonce = w.log[j].nonce => i = j
    BY <1>4 DEF NoncesOK
  <2>4. \A i \in 1..Len(w.log) : w.log[i].nonce # f.nonce
    BY <1>4, <2>1
  <2>5. DOMAIN v.log = (1..Len(w.log)) \cup {Len(w.log) + 1}
    BY <1>4
  <2> HIDE DEF v, e, Entry
  <2> QED BY <2>2, <2>3, <2>4, <2>5
<1>9. NoncesOK(v, open)
  <2> HIDE DEF v
  <2> QED BY <1>1, <1>3, <1>6, <1>7, <1>8 DEF NoncesOK
<1> QED BY <1>5, <1>9

\* Same nonce, same log: the accounts still balance.
LEMMA NoncesOKSame ==
  ASSUME NEW w, NEW v, NEW open, NoncesOK(w, open), v.log = w.log, v.nonce = w.nonce
  PROVE  NoncesOK(v, open)
BY DEF NoncesOK, Spent

-----------------------------------------------------------------------------
(***************************************************************************)
(* Each action keeps the inductive invariant.                              *)
(***************************************************************************)
LEMMA InitIInv == Init => IInv
<1> SUFFICES ASSUME Init PROVE IInv
  OBVIOUS
<1>1. PICK key \in Accounts :
        wallet = [owners |-> {key},
                  purpose |-> [a \in Address |-> IF a = key THEN MANAGEMENT_KEY ELSE 0],
                  keyCount |-> 1, required |-> 1, nonce |-> 0, log |-> << >>]
  BY DEF Init
<1>2. key \in Address /\ key # NULL_ADDRESS
  BY AddressFacts, AddressAssumption DEF NULL_ADDRESS
<1>3. wallet \in WalletState
  <2>1. << >> \in Seq([nonce : Nat, op : Ops, success : BOOLEAN])
    OBVIOUS
  <2>2. [a \in Address |-> IF a = key THEN MANAGEMENT_KEY ELSE 0] \in [Address -> Purpose]
    BY DEF Purpose
  <2> QED BY <1>1, <1>2, <2>1, <2>2 DEF WalletState
<1>4. TypeOK
  BY <1>3, BoundAssumption DEF Init, TypeOK
<1>5. KeysOK(wallet)
  <2>1. Cardinality({key}) = 1
    BY FS_Singleton
  <2> QED BY <1>1, <1>2, <2>1 DEF KeysOK
<1>6. NoncesOK(wallet, Open(depth))
  <2>1. Spent(wallet) = {} /\ Open(depth) = {}
    BY <1>1 DEF Spent, Open, Init
  <2> QED BY <1>1, <2>1 DEF NoncesOK
<1> QED BY <1>4, <1>5, <1>6 DEF IInv, Init

\* The invariant survives a direct call.
LEMMA DirectCallIInv ==
  ASSUME IInv, NEW sender \in Accounts \cup Contracts, NEW op \in Ops,
         DirectCall(sender, op)
  PROVE  IInv'
<1>1. wallet' \in WalletState /\ KeysOK(wallet') /\ NoncesOK(wallet', Open(depth))
  <2>1. wallet \in WalletState /\ KeysOK(wallet) /\ NoncesOK(wallet, Open(depth))
    BY DEF IInv, TypeOK
  <2>2. Permitted(wallet, sender, op) /\ wallet' = Effect(wallet, op)
    BY DEF DirectCall
  <2>3. sender \in Address
    BY AddressFacts
  <2> QED BY <2>1, <2>2, <2>3, EffectOK, NoncesOKSame
<1>2. depth' = depth /\ frame' = frame
  BY DEF DirectCall
<1> QED BY <1>1, <1>2 DEF IInv, TypeOK, Open

\* It survives the start of an executeSigned, which opens one more nonce.
LEMMA BeginExecuteIInv ==
  ASSUME IInv, NEW op \in Ops, NEW nonce \in 0..MaxNonce, NEW sigs \in Signatures,
         BeginExecute(op, nonce, sigs)
  PROVE  IInv'
<1> DEFINE f == [op |-> op, nonce |-> nonce, sigs |-> sigs, saved |-> wallet]
<1>1. /\ depth \in 0..MaxDepth /\ depth < MaxDepth /\ depth' = depth + 1
      /\ frame' = [frame EXCEPT ![depth + 1] = f]
      /\ DOMAIN frame = 1..MaxDepth
      /\ nonce = wallet.nonce /\ wallet' = SpendNonce(wallet)
  BY DEF BeginExecute, Acceptable, IInv, TypeOK
<1>2. wallet \in WalletState /\ KeysOK(wallet) /\ NoncesOK(wallet, Open(depth))
  BY DEF IInv, TypeOK
<1>3. /\ frame'[depth + 1] = f
      /\ \A i \in 1..depth : frame'[i] = frame[i]
      /\ DOMAIN frame' = 1..MaxDepth
  BY <1>1, BoundAssumption
<1>4. f \in Frame
  <2>1. sigs \in Seq(Address)
    BY SignaturesAreSequences
  <2>2. nonce \in Nat
    BY BoundAssumption
  <2> QED BY <1>2, <2>1, <2>2 DEF Frame
<1>5. \A d \in 0..depth : Open(d)' = Open(d)
  BY <1>1, <1>3 DEF Open
<1>6. Open(depth)' = Open(depth) \cup {wallet.nonce}
  <2>1. 1..(depth + 1) = (1..depth) \cup {depth + 1}
    BY <1>1
  <2>2. frame'[depth + 1].nonce = wallet.nonce
    BY <1>1, <1>3
  <2>3. Open(depth)' = {frame'[i].nonce : i \in (1..depth) \cup {depth + 1}}
    BY <1>1, <2>1 DEF Open
  <2> HIDE DEF f
  <2> QED BY <1>3, <2>2, <2>3 DEF Open
<1>7. wallet' \in WalletState /\ KeysOK(wallet') /\ NoncesOK(wallet', Open(depth)')
  BY <1>1, <1>2, <1>6, SpendNonceOK
<1>8. TypeOK'
  <2>1. \A i \in 1..depth' : frame'[i] \in Frame
    <3> SUFFICES ASSUME NEW i \in 1..depth' PROVE frame'[i] \in Frame
      OBVIOUS
    <3>1. CASE i = depth + 1
      BY <1>3, <1>4, <3>1
    <3>2. CASE i # depth + 1
      <4>1. i \in 1..depth
        BY <1>1, <3>2
      <4> QED BY <1>3, <4>1 DEF IInv, TypeOK
    <3> QED BY <3>1, <3>2
  <2>2. depth' \in 0..MaxDepth
    BY <1>1, BoundAssumption
  <2> QED BY <1>3, <1>7, <2>1, <2>2 DEF TypeOK
<1>9. ASSUME NEW i \in 1..depth'
      PROVE  /\ KeysOK(frame'[i].saved) /\ NoncesOK(frame'[i].saved, Open(i - 1)')
             /\ frame'[i].nonce = frame'[i].saved.nonce
  <2>1. CASE i = depth + 1
    <3>1. frame'[i].saved = wallet /\ frame'[i].nonce = wallet.nonce
      BY <1>1, <1>3, <2>1
    <3>2. Open(i - 1)' = Open(depth)
      BY <1>1, <1>5, <2>1
    <3> QED BY <1>2, <3>1, <3>2
  <2>2. CASE i # depth + 1
    <3>1. i \in 1..depth /\ i - 1 \in 0..depth
      BY <1>1, <2>2
    <3>2. frame'[i] = frame[i] /\ Open(i - 1)' = Open(i - 1)
      BY <1>3, <1>5, <3>1
    <3> QED BY <3>1, <3>2 DEF IInv
  <2> QED BY <2>1, <2>2
<1> QED BY <1>7, <1>8, <1>9 DEF IInv

\* What popping the innermost frame leaves of the frames below it.
LEMMA PopIInv ==
  ASSUME IInv, depth > 0, Pop(depth),
         wallet' \in WalletState, KeysOK(wallet'), NoncesOK(wallet', Open(depth - 1))
  PROVE  IInv'
<1>1. /\ depth \in 1..MaxDepth /\ depth' = depth - 1
      /\ frame' = [frame EXCEPT ![depth] = NoFrame]
      /\ DOMAIN frame = 1..MaxDepth
  BY BoundAssumption DEF Pop, IInv, TypeOK
<1>2. \A i \in 1..depth' : i \in 1..depth /\ frame'[i] = frame[i]
  BY <1>1, BoundAssumption
<1>3. \A d \in 0..depth' : Open(d)' = Open(d)
  BY <1>1, <1>2 DEF Open
<1>4. Open(depth)' = Open(depth - 1)
  BY <1>1, <1>3
<1>5. TypeOK'
  <2>1. DOMAIN frame' = 1..MaxDepth /\ depth' \in 0..MaxDepth
    BY <1>1, BoundAssumption
  <2> QED BY <1>2, <2>1 DEF IInv, TypeOK
<1>6. ASSUME NEW i \in 1..depth'
      PROVE  /\ KeysOK(frame'[i].saved) /\ NoncesOK(frame'[i].saved, Open(i - 1)')
             /\ frame'[i].nonce = frame'[i].saved.nonce
  <2>1. i - 1 \in 0..depth' /\ i \in 1..depth /\ frame'[i] = frame[i]
    BY <1>1, <1>2
  <2>2. Open(i - 1)' = Open(i - 1)
    BY <1>3, <2>1
  <2> QED BY <2>1, <2>2 DEF IInv
<1> QED BY <1>4, <1>5, <1>6 DEF IInv

\* The innermost frame spent the nonce of the storage it was saved with, which
\* no frame below it has.
LEMMA InnermostFrame ==
  ASSUME IInv, depth > 0
  PROVE  /\ frame[depth] \in Frame /\ frame[depth].op \in Ops
         /\ frame[depth].saved \in WalletState /\ KeysOK(frame[depth].saved)
         /\ NoncesOK(frame[depth].saved, Open(depth - 1))
         /\ frame[depth].nonce = frame[depth].saved.nonce
         /\ frame[depth].nonce \notin Open(depth - 1)
         /\ Open(depth) = Open(depth - 1) \cup {frame[depth].nonce}
<1>1. depth \in 1..MaxDepth /\ depth \in 1..depth
  BY BoundAssumption DEF IInv, TypeOK
<1>2. /\ frame[depth] \in Frame /\ KeysOK(frame[depth].saved)
      /\ NoncesOK(frame[depth].saved, Open(depth - 1))
      /\ frame[depth].nonce = frame[depth].saved.nonce
  BY <1>1 DEF IInv, TypeOK
<1>3. /\ frame[depth].op \in Ops /\ frame[depth].saved \in WalletState
      /\ frame[depth].nonce \in Nat
  BY <1>2 DEF Frame
<1>4. frame[depth].nonce \notin Open(depth - 1)
  BY <1>2, <1>3 DEF NoncesOK
<1>5. 1..depth = (1..(depth - 1)) \cup {depth}
  BY <1>1
<1>6. Open(depth) = Open(depth - 1) \cup {frame[depth].nonce}
  BY <1>5 DEF Open
<1> QED BY <1>2, <1>3, <1>4, <1>6

\* It survives the return of a call to another contract.
LEMMA FinishCallIInv ==
  ASSUME IInv, NEW success \in BOOLEAN, FinishCall(success)
  PROVE  IInv'
<1> DEFINE f == frame[depth]
           base == IF success THEN wallet ELSE SpendNonce(f.saved)
<1>1. depth > 0 /\ Pop(depth) /\ wallet' = Logged(base, f, success)
  BY DEF FinishCall
<1>2. base \in WalletState /\ KeysOK(base) /\ NoncesOK(base, Open(depth - 1) \cup {f.nonce})
  <2>1. CASE success
    BY <1>1, <2>1, InnermostFrame DEF IInv, TypeOK
  <2>2. CASE ~success
    BY <1>1, <2>2, InnermostFrame, SpendNonceOK
  <2> QED BY <2>1, <2>2
<1> HIDE DEF base
<1>3. /\ wallet' \in WalletState /\ KeysOK(wallet')
      /\ NoncesOK(wallet', Open(depth - 1))
  BY <1>1, <1>2, InnermostFrame, LoggedOK
<1> QED BY <1>1, <1>3, PopIInv

\* It survives the return of a call to the wallet itself.
LEMMA FinishSelfCallIInv ==
  ASSUME IInv, NEW success \in BOOLEAN, FinishSelfCall(success)
  PROVE  IInv'
<1> DEFINE f == frame[depth]
           base == IF success THEN Effect(wallet, f.op) ELSE wallet
<1>1. /\ depth > 0 /\ Pop(depth) /\ wallet' = Logged(base, f, success)
      /\ success => Permitted(wallet, Wallet, f.op)
  BY DEF FinishSelfCall
<1>2. /\ wallet \in WalletState /\ KeysOK(wallet)
      /\ NoncesOK(wallet, Open(depth - 1) \cup {f.nonce})
  BY <1>1, InnermostFrame DEF IInv, TypeOK
<1>3. base \in WalletState /\ KeysOK(base) /\ NoncesOK(base, Open(depth - 1) \cup {f.nonce})
  <2>1. CASE success
    <3>1. /\ Effect(wallet, f.op) \in WalletState /\ KeysOK(Effect(wallet, f.op))
          /\ Effect(wallet, f.op).log = wallet.log
          /\ Effect(wallet, f.op).nonce = wallet.nonce
      BY <1>1, <1>2, <2>1, InnermostFrame, AddressFacts, EffectOK
    <3> QED BY <1>2, <2>1, <3>1, NoncesOKSame
  <2>2. CASE ~success
    BY <1>2, <2>2
  <2> QED BY <2>1, <2>2
<1> HIDE DEF base
<1>4. /\ wallet' \in WalletState /\ KeysOK(wallet')
      /\ NoncesOK(wallet', Open(depth - 1))
  BY <1>1, <1>3, InnermostFrame, LoggedOK
<1> QED BY <1>1, <1>4, PopIInv

\* It survives a revert, to a storage that satisfied it already.
LEMMA RevertExecuteIInv ==
  ASSUME IInv, RevertExecute
  PROVE  IInv'
<1>1. depth > 0 /\ Pop(depth) /\ wallet' = frame[depth].saved
  BY DEF RevertExecute
<1> QED BY <1>1, InnermostFrame, PopIInv

\* It survives every step.
LEMMA NextIInv == IInv /\ [Next]_vars => IInv'
<1> SUFFICES ASSUME IInv, [Next]_vars PROVE IInv'
  OBVIOUS
<1>1. CASE UNCHANGED vars
  BY <1>1 DEF vars, IInv, TypeOK, Open
<1>2. CASE Next
  BY <1>2, DirectCallIInv, BeginExecuteIInv, FinishCallIInv, FinishSelfCallIInv,
     RevertExecuteIInv DEF Next
<1> QED BY <1>1, <1>2

\* Every reachable state satisfies IInv: the current storage is sound, and so is
\* each one the executeSigned calls in progress may revert to.
THEOREM Invariance == Spec => []IInv
BY InitIInv, NextIInv, PTL DEF Spec

\* TypeOK holds for every instance: whatever is executed, nested or reverted,
\* the storage stays a storage; keyCount never goes below zero.
THEOREM TypeCorrect == Spec => []TypeOK
<1>1. IInv => TypeOK
  BY DEF IInv
<1> QED BY <1>1, Invariance, PTL

\* NoncesSpentOnce holds for every instance: replay is impossible however deep
\* the calls nest and whichever of them revert.
THEOREM NonceSafety == Spec => []NoncesSpentOnce
<1>1. IInv => NoncesSpentOnce
  <2> SUFFICES ASSUME IInv PROVE NoncesSpentOnce
    OBVIOUS
  <2>1. /\ wallet \in WalletState /\ NoncesOK(wallet, Open(depth))
        /\ \A i \in 1..depth : frame[i] \in Frame
    BY DEF IInv, TypeOK
  <2>2. Open(depth) = InFlight /\ wallet.nonce \in Nat
    BY <2>1 DEF Open, InFlight, WalletState
  <2>3. InFlight \subseteq Nat
    BY <2>1 DEF InFlight, Frame
  <2>4. Spent(wallet) \subseteq Nat
    <3>1. wallet.log \in Seq([nonce : Nat, op : Ops, success : BOOLEAN])
      BY <2>1 DEF WalletState
    <3> DEFINE Entry == [nonce : Nat, op : Ops, success : BOOLEAN]
    <3>2. \A i \in DOMAIN wallet.log : wallet.log[i] \in Entry
      <4> HIDE DEF Entry
      <4> QED BY <3>1, ElementOfSeq, LenProperties DEF Entry
    <3>3. \A e \in Entry : e.nonce \in Nat
      OBVIOUS
    <3> HIDE DEF Entry
    <3> QED BY <3>2, <3>3 DEF Spent
  <2>5. Spent(wallet) \cup InFlight = 0..(wallet.nonce - 1)
    <3>1. \A n \in Nat : n < wallet.nonce <=> n \in Spent(wallet) \cup InFlight
      BY <2>1, <2>2 DEF NoncesOK
    <3>2. \A n : n \in 0..(wallet.nonce - 1) <=> n \in Nat /\ n < wallet.nonce
      BY <2>2
    <3> QED BY <2>3, <2>4, <3>1, <3>2
  <2>6. Spent(wallet) \cap InFlight = {}
    BY <2>1, <2>2, <2>3 DEF NoncesOK
  <2> QED BY <2>1, <2>5, <2>6 DEF NoncesOK, NoncesSpentOnce
<1> QED BY <1>1, Invariance, PTL

\* KeysConsistent holds for every instance.
THEOREM KeySafety == Spec => []KeysConsistent
<1>1. IInv => KeysConsistent
  BY DEF IInv, KeysOK, KeysConsistent
<1> QED BY <1>1, Invariance, PTL

-----------------------------------------------------------------------------
(***************************************************************************)
(* Signers in ascending order are different signers.                       *)
(***************************************************************************)
LEMMA LeastNatural ==
  ASSUME NEW T \in SUBSET Nat, T # {}
  PROVE  \E x \in T : \A y \in T : x <= y
<1>1. IsWellFoundedOn(OpToRel(<, Nat), Nat)
  BY NatLessThanWellFounded
<1> DEFINE R == OpToRel(<, Nat)
<1>2. \A x, y \in Nat : <<x, y>> \in R <=> x < y
  BY DEF OpToRel
<1> HIDE DEF R
<1>3. \E x \in T : \A y \in T : ~ (<<y, x>> \in R)
  <2>1. IsWellFoundedOn(R, Nat)
    BY <1>1 DEF R
  <2> QED BY <2>1, WFMin
<1>4. PICK x \in T : \A y \in T : ~ (<<y, x>> \in R)
  BY <1>3
<1>5. \A y \in T : ~ (y < x)
  BY <1>2, <1>4
<1> QED BY <1>5

\* If some later signer did not exceed an earlier one, the first such signer
\* would not exceed its predecessor either.
LEMMA SignersAscend ==
  ASSUME NEW w \in WalletState, NEW sigs \in Seq(Address), SignaturesValid(w, sigs)
  PROVE  \A i, j \in DOMAIN sigs : i < j => sigs[i] < sigs[j]
<1> DEFINE n == Len(sigs)
           Bad == {j \in 1..n : \E i \in 1..n : i < j /\ ~ (sigs[i] < sigs[j])}
<1>1. DOMAIN sigs = 1..n /\ n \in Nat /\ \A i \in 1..n : sigs[i] \in Nat
  BY AddressFacts, LenProperties, ElementOfSeq
<1>2. \A j \in 2..n : sigs[j] > sigs[j - 1]
  BY <1>1 DEF SignaturesValid
<1> HIDE DEF n
<1>3. ASSUME Bad # {} PROVE FALSE
  <2>1. PICK j \in Bad : \A k \in Bad : j <= k
    <3>1. Bad \in SUBSET Nat
      BY <1>1
    <3> QED BY <1>3, <3>1, LeastNatural
  <2>2. PICK i \in 1..n : i < j /\ ~ (sigs[i] < sigs[j])
    OBVIOUS
  <2>3. j \in 2..n /\ j - 1 \in 1..n /\ j - 1 \notin Bad
    BY <1>1, <2>1, <2>2
  <2>4. sigs[i] <= sigs[j - 1]
    <3>1. CASE i = j - 1
      BY <1>1, <2>3, <3>1
    <3>2. CASE i < j - 1
      BY <1>1, <2>2, <2>3, <3>2
    <3> QED BY <1>1, <2>2, <2>3, <3>1, <3>2
  <2> QED BY <1>1, <1>2, <2>2, <2>3, <2>4
<1> QED BY <1>1, <1>3

\* QuorumOfOwners holds for every instance: the length of a valid list of
\* signatures is the number of owners who signed.
THEOREM QuorumSafety == Spec => QuorumOfOwners
<1> DEFINE Signers(sigs) == {sigs[i] : i \in DOMAIN sigs}
<1>1. ASSUME NEW w \in WalletState, NEW sigs \in Seq(Address), SignaturesValid(w, sigs)
      PROVE  Signers(sigs) \subseteq w.owners /\ Cardinality(Signers(sigs)) = Len(sigs)
  <2> DEFINE n == Len(sigs)
             S == Signers(sigs)
  <2>1. DOMAIN sigs = 1..n /\ n \in Nat /\ sigs \in [1..n -> S]
    OBVIOUS
  <2>2. \A i \in 1..n : sigs[i] \in Nat
    BY AddressFacts, ElementOfSeq
  <2>3. \A i, j \in 1..n : sigs[i] = sigs[j] => i = j
    <3>1. \A i, j \in 1..n : i < j => sigs[i] < sigs[j]
      BY <1>1, <2>1, SignersAscend
    <3> HIDE DEF n
    <3> SUFFICES ASSUME NEW i \in 1..n, NEW j \in 1..n, sigs[i] = sigs[j]
                 PROVE  i = j
      OBVIOUS
    <3>2. ~ (i < j) /\ ~ (j < i)
      BY <2>2, <3>1
    <3> QED BY <2>1, <3>2
  <2>4. \A x \in S : \E i \in 1..n : sigs[i] = x
    BY <2>1
  <2>5. ExistsBijection(1..n, S)
    <3> HIDE DEF n, S
    <3>1. sigs \in Bijection(1..n, S)
      BY <2>1, <2>3, <2>4, Fun_IsBij
    <3> QED BY <3>1 DEF ExistsBijection
  <2>6. IsFiniteSet(1..n) /\ Cardinality(1..n) = n
    <3> HIDE DEF n
    <3>0. 1 \in Int /\ n \in Int
      BY <2>1
    <3>1. /\ IsFiniteSet(1..n)
          /\ Cardinality(1..n) = IF 1 > n THEN 0 ELSE n - 1 + 1
      BY <3>0, FS_Interval
    <3> QED BY <2>1, <3>1
  <2>7. Cardinality(S) = n
    <3> HIDE DEF n, S
    <3> QED BY <2>5, <2>6, FS_Bijection
  <2>8. S \subseteq w.owners
    BY <1>1 DEF SignaturesValid
  <2> QED BY <2>7, <2>8
<1>2. IInv /\ [Next]_vars =>
        [depth' > depth =>
           /\ Signers(frame'[depth'].sigs) \subseteq wallet.owners
           /\ Cardinality(Signers(frame'[depth'].sigs)) >= wallet.required]_vars
  <2> SUFFICES ASSUME IInv, Next, depth' > depth
               PROVE  /\ Signers(frame'[depth'].sigs) \subseteq wallet.owners
                      /\ Cardinality(Signers(frame'[depth'].sigs)) >= wallet.required
    OBVIOUS
  <2>1. depth \in 0..MaxDepth /\ wallet \in WalletState /\ DOMAIN frame = 1..MaxDepth
    BY DEF IInv, TypeOK
  <2>2. PICK op \in Ops, nonce \in 0..MaxNonce, sigs \in Signatures :
          BeginExecute(op, nonce, sigs)
    BY <2>1, BoundAssumption
       DEF Next, DirectCall, FinishCall, FinishSelfCall, RevertExecute, Pop
  <2>3. depth' = depth + 1 /\ depth + 1 \in 1..MaxDepth
    BY <2>1, <2>2, BoundAssumption DEF BeginExecute
  <2>4. frame'[depth'].sigs = sigs
    BY <2>1, <2>2, <2>3 DEF BeginExecute
  <2>5. Len(sigs) >= wallet.required /\ SignaturesValid(wallet, sigs)
    BY <2>2 DEF BeginExecute, Acceptable
  <2>6. sigs \in Seq(Address)
    BY SignaturesAreSequences
  <2> QED BY <1>1, <2>1, <2>4, <2>5, <2>6
<1> QED BY <1>2, Invariance, PTL DEF Spec, QuorumOfOwners

-----------------------------------------------------------------------------
(***************************************************************************)
(* The history of executed messages.  A storage has logged as many of them *)
(* as it has spent nonces, but for those in progress; and what follows the *)
(* storage the transaction started from keeps its log and goes on with     *)
(* nonces that it had not reached.                                         *)
(***************************************************************************)
Balanced(w, open) == Len(w.log) + open = w.nonce

Continues(w, v) ==
  /\ v.nonce <= w.nonce /\ Len(v.log) <= Len(w.log)
  /\ \A i \in DOMAIN v.log : w.log[i] = v.log[i]
  /\ \A i \in DOMAIN w.log : i > Len(v.log) => w.log[i].nonce >= v.nonce

HistoryInv ==
  /\ Balanced(wallet, depth)
  /\ depth > 0 => Continues(wallet, frame[1].saved)
  /\ \A i \in 1..depth :
       Balanced(frame[i].saved, i - 1) /\ Continues(frame[i].saved, frame[1].saved)

LedgerOf(w) ==
  [n \in 1..Len(w.log) |-> {w.log[i] : i \in {j \in DOMAIN w.log : w.log[j].nonce = n - 1}}]

Entry == [nonce : Nat, op : Ops, success : BOOLEAN]

LEMMA StorageFacts ==
  ASSUME NEW w \in WalletState
  PROVE  /\ w.nonce \in Nat /\ w.log \in Seq(Entry) /\ Len(w.log) \in Nat
         /\ DOMAIN w.log = 1..Len(w.log)
         /\ \A i \in DOMAIN w.log : w.log[i].nonce \in Nat
<1>1. w.nonce \in Nat /\ w.log \in Seq(Entry)
  BY DEF WalletState, Entry
<1>2. Len(w.log) \in Nat /\ DOMAIN w.log = 1..Len(w.log)
  BY <1>1
<1>3. \A i \in DOMAIN w.log : w.log[i] \in Entry
  BY <1>1
<1> QED BY <1>1, <1>2, <1>3 DEF Entry

LEMMA SameLogContinues ==
  ASSUME NEW v, NEW w, NEW u, Continues(w, v), u.log = w.log, u.nonce = w.nonce
  PROVE  Continues(u, v)
BY DEF Continues

LEMMA ContinuesItself == ASSUME NEW w \in WalletState PROVE Continues(w, w)
BY StorageFacts DEF Continues

LEMMA SpendContinues ==
  ASSUME NEW v \in WalletState, NEW w \in WalletState, NEW open \in Nat,
         Balanced(w, open), Continues(w, v)
  PROVE  Balanced(SpendNonce(w), open + 1) /\ Continues(SpendNonce(w), v)
<1>1. SpendNonce(w).log = w.log /\ SpendNonce(w).nonce = w.nonce + 1
  BY DEF SpendNonce, WalletState
<1>2. w.nonce \in Nat /\ v.nonce \in Nat /\ Len(w.log) \in Nat
  BY StorageFacts
<1>3. Balanced(SpendNonce(w), open + 1)
  <2> DEFINE logged == Len(w.log)
  <2>0. logged \in Nat /\ logged + open = w.nonce
    BY <1>2 DEF Balanced
  <2> HIDE DEF logged
  <2>1. logged + (open + 1) = w.nonce + 1
    BY <2>0
  <2> QED BY <1>1, <2>1 DEF Balanced, logged
<1>4. Continues(SpendNonce(w), v)
  <2>1. v.nonce <= w.nonce + 1
    BY <1>2 DEF Continues
  <2> QED BY <1>1, <2>1 DEF Continues
<1> QED BY <1>3, <1>4

LEMMA LoggedContinues ==
  ASSUME NEW v \in WalletState, NEW w \in WalletState, NEW f \in Frame, NEW success \in BOOLEAN,
         NEW open \in Nat, Balanced(w, open + 1), Continues(w, v), f.nonce >= v.nonce
  PROVE  /\ Balanced(Logged(w, f, success), open) /\ Continues(Logged(w, f, success), v)
         /\ Len(Logged(w, f, success).log) > Len(v.log)
<1> DEFINE u == Logged(w, f, success)
           e == [nonce |-> f.nonce, op |-> f.op, success |-> success]
<1>1. u.log = Append(w.log, e) /\ u.nonce = w.nonce /\ e.nonce = f.nonce
  BY DEF Logged, WalletState
<1>2. /\ w.nonce \in Nat /\ w.log \in Seq(Entry) /\ Len(w.log) \in Nat
      /\ DOMAIN w.log = 1..Len(w.log)
      /\ v.nonce \in Nat /\ Len(v.log) \in Nat /\ DOMAIN v.log = 1..Len(v.log)
  BY StorageFacts
<1>3. e \in Entry
  BY DEF Frame, Entry
<1> HIDE DEF e, u
<1>4. /\ DOMAIN u.log = 1..(Len(w.log) + 1) /\ Len(u.log) = Len(w.log) + 1
      /\ \A i \in 1..Len(w.log) : u.log[i] = w.log[i]
      /\ u.log[Len(w.log) + 1] = e
  BY <1>1, <1>2, <1>3
<1>5. Balanced(u, open) /\ Len(u.log) > Len(v.log)
  <2> DEFINE logged == Len(w.log)
  <2>1. logged \in Nat /\ logged + (open + 1) = w.nonce /\ Len(v.log) <= logged
    BY <1>2 DEF Balanced, Continues
  <2>2. Len(u.log) = logged + 1
    BY <1>4
  <2> HIDE DEF logged
  <2>3. (logged + 1) + open = w.nonce /\ logged + 1 > Len(v.log)
    BY <1>2, <2>1
  <2> QED BY <1>1, <2>2, <2>3 DEF Balanced
<1>6. Continues(u, v)
  <2>1. \A i \in DOMAIN v.log : i \in 1..Len(w.log) /\ u.log[i] = v.log[i]
    BY <1>2, <1>4 DEF Continues
  <2>2. ASSUME NEW i \in DOMAIN u.log, i > Len(v.log) PROVE u.log[i].nonce >= v.nonce
    <3>1. CASE i = Len(w.log) + 1
      BY <1>1, <1>4, <3>1
    <3>2. CASE i # Len(w.log) + 1
      <4>1. i \in DOMAIN w.log /\ u.log[i] = w.log[i]
        BY <1>2, <1>4, <3>2
      <4> QED BY <2>2, <4>1 DEF Continues
    <3> QED BY <3>1, <3>2
  <2> QED BY <1>1, <1>2, <1>4, <2>1, <2>2 DEF Continues
<1> QED BY <1>5, <1>6 DEF u

\* What was logged before is where it was, for what follows has later nonces.
LEMMA LedgerKept ==
  ASSUME NEW v \in WalletState, NEW w \in WalletState, Balanced(v, 0), Continues(w, v)
  PROVE  /\ DOMAIN LedgerOf(v) = 1..Len(v.log) /\ Len(LedgerOf(v)) = Len(v.log)
         /\ Len(LedgerOf(w)) = Len(w.log)
         /\ \A n \in DOMAIN LedgerOf(v) : LedgerOf(w)[n] = LedgerOf(v)[n]
<1>1. /\ Len(v.log) \in Nat /\ Len(w.log) \in Nat /\ v.nonce = Len(v.log)
      /\ DOMAIN v.log = 1..Len(v.log) /\ DOMAIN w.log = 1..Len(w.log)
      /\ \A i \in DOMAIN w.log : w.log[i].nonce \in Nat
      /\ \A i \in DOMAIN v.log : v.log[i].nonce \in Nat
  BY StorageFacts DEF Balanced
<1>2. /\ DOMAIN LedgerOf(v) = 1..Len(v.log) /\ Len(LedgerOf(v)) = Len(v.log)
      /\ Len(LedgerOf(w)) = Len(w.log)
  BY <1>1 DEF LedgerOf
<1>3. ASSUME NEW n \in 1..Len(v.log) PROVE LedgerOf(w)[n] = LedgerOf(v)[n]
  <2>1. \A j \in DOMAIN w.log :
          w.log[j].nonce = n - 1 => j \in DOMAIN v.log /\ w.log[j] = v.log[j]
    BY <1>1 DEF Continues
  <2>2. \A j \in DOMAIN v.log : j \in DOMAIN w.log /\ w.log[j] = v.log[j]
    BY <1>1 DEF Continues
  <2>3. {w.log[i] : i \in {j \in DOMAIN w.log : w.log[j].nonce = n - 1}} =
        {v.log[i] : i \in {j \in DOMAIN v.log : v.log[j].nonce = n - 1}}
    BY <2>1, <2>2
  <2>4. n \in 1..Len(w.log)
    BY <1>1 DEF Continues
  <2> QED BY <2>3, <2>4 DEF LedgerOf
<1> QED BY <1>2, <1>3

LEMMA HistoryInit == Init => HistoryInv
<1> SUFFICES ASSUME Init PROVE HistoryInv
  OBVIOUS
<1>1. depth = 0 /\ wallet.log = << >> /\ wallet.nonce = 0
  BY DEF Init
<1> QED BY <1>1 DEF HistoryInv, Balanced

\* The storages that the frames keep, of the types that the lemmas ask for.
LEMMA SavedFacts ==
  ASSUME IInv
  PROVE  /\ wallet \in WalletState /\ depth \in Nat /\ DOMAIN frame = 1..MaxDepth
         /\ depth \in 0..MaxDepth
         /\ \A i \in 1..depth : frame[i].saved \in WalletState
BY BoundAssumption DEF IInv, TypeOK, Frame

LEMMA PopHistory ==
  ASSUME IInv, HistoryInv, depth > 0, Pop(depth), Balanced(wallet', depth - 1),
         depth > 1 => Continues(wallet', frame[1].saved)
  PROVE  HistoryInv'
<1>1. /\ depth \in 1..MaxDepth /\ depth' = depth - 1
      /\ frame' = [frame EXCEPT ![depth] = NoFrame] /\ DOMAIN frame = 1..MaxDepth
  BY SavedFacts, BoundAssumption DEF Pop
<1>2. \A i \in 1..depth' : i \in 1..depth /\ frame'[i] = frame[i] /\ frame'[1] = frame[1]
  BY <1>1, BoundAssumption
<1>3. Balanced(wallet', depth') /\ (depth' > 0 => Continues(wallet', frame[1].saved))
  BY <1>1
<1>4. depth' > 0 => 1 \in 1..depth'
  BY <1>1
<1>5. \A i \in 1..depth' :
        Balanced(frame'[i].saved, i - 1) /\ Continues(frame'[i].saved, frame'[1].saved)
  BY <1>2 DEF HistoryInv
<1> QED BY <1>2, <1>3, <1>4, <1>5 DEF HistoryInv

\* What an executeSigned leaves when it returns.
LEMMA FinishHistory ==
  ASSUME IInv, HistoryInv, NEW success \in BOOLEAN, FinishCall(success) \/ FinishSelfCall(success)
  PROVE  /\ depth > 0 /\ Pop(depth)
         /\ Balanced(wallet', depth - 1) /\ Continues(wallet', frame[1].saved)
         /\ Len(wallet'.log) > Len(frame[1].saved.log)
<1> DEFINE f == frame[depth]
           start == frame[1].saved
<1>1. depth > 0 /\ Pop(depth)
  BY DEF FinishCall, FinishSelfCall
<1>2. /\ depth - 1 \in Nat /\ depth \in 1..depth /\ 1 \in 1..depth
      /\ wallet \in WalletState /\ start \in WalletState /\ f.saved \in WalletState /\ f \in Frame
      /\ f.nonce = f.saved.nonce
  <2>1. depth - 1 \in Nat /\ depth \in 1..depth /\ 1 \in 1..depth
    BY <1>1, SavedFacts
  <2> QED BY <1>1, <2>1, SavedFacts, InnermostFrame
<1>3. /\ Balanced(wallet, (depth - 1) + 1) /\ Continues(wallet, start)
      /\ Balanced(f.saved, depth - 1) /\ Continues(f.saved, start)
  <2>1. (depth - 1) + 1 = depth
    BY SavedFacts
  <2> QED BY <1>1, <1>2, <2>1 DEF HistoryInv
<1>4. f.nonce >= start.nonce
  BY <1>2, <1>3 DEF Continues
<1>5. PICK base \in WalletState :
        /\ wallet' = Logged(base, f, success)
        /\ Balanced(base, (depth - 1) + 1) /\ Continues(base, start)
  <2>1. CASE FinishCall(success) /\ success
    BY <1>2, <1>3, <2>1 DEF FinishCall
  <2>2. CASE FinishCall(success) /\ ~success
    <3>1. wallet' = Logged(SpendNonce(f.saved), f, success)
      BY <2>2 DEF FinishCall
    <3>2. SpendNonce(f.saved) \in WalletState
      BY <1>1, InnermostFrame, SpendNonceOK
    <3>3. Balanced(SpendNonce(f.saved), (depth - 1) + 1) /\ Continues(SpendNonce(f.saved), start)
      <4> HIDE DEF f, start
      <4> QED BY <1>2, <1>3, SpendContinues
    <3> QED BY <3>1, <3>2, <3>3
  <2>3. CASE FinishSelfCall(success) /\ success
    <3>1. wallet' = Logged(Effect(wallet, f.op), f, success) /\ Permitted(wallet, Wallet, f.op)
      BY <2>3 DEF FinishSelfCall
    <3>2. /\ Effect(wallet, f.op) \in WalletState
          /\ Effect(wallet, f.op).log = wallet.log /\ Effect(wallet, f.op).nonce = wallet.nonce
      BY <1>1, <3>1, InnermostFrame, AddressFacts, EffectOK DEF IInv, TypeOK
    <3>3. Continues(Effect(wallet, f.op), start)
      BY <1>3, <3>2, SameLogContinues
    <3>4. Balanced(Effect(wallet, f.op), (depth - 1) + 1)
      BY <1>3, <3>2 DEF Balanced
    <3> QED BY <3>1, <3>2, <3>3, <3>4
  <2>4. CASE FinishSelfCall(success) /\ ~success
    BY <1>2, <1>3, <2>4 DEF FinishSelfCall
  <2> QED BY <2>1, <2>2, <2>3, <2>4
<1> HIDE DEF f, start
<1>6. /\ Balanced(Logged(base, f, success), depth - 1) /\ Continues(Logged(base, f, success), start)
      /\ Len(Logged(base, f, success).log) > Len(start.log)
  BY <1>2, <1>4, <1>5, LoggedContinues
<1> QED BY <1>1, <1>5, <1>6 DEF start

\* A call that starts, on what the storage was.
LEMMA BeginHistory ==
  ASSUME IInv, HistoryInv, NEW op \in Ops, NEW nonce \in 0..MaxNonce, NEW sigs \in Signatures,
         BeginExecute(op, nonce, sigs)
  PROVE  HistoryInv' /\ (depth = 0 => frame'[1].saved = wallet) /\ (depth > 0 => frame'[1] = frame[1])
<1> DEFINE f == [op |-> op, nonce |-> nonce, sigs |-> sigs, saved |-> wallet]
<1>1. /\ depth \in Nat /\ depth + 1 \in 1..MaxDepth /\ depth' = depth + 1
      /\ wallet' = SpendNonce(wallet) /\ wallet \in WalletState
  BY SavedFacts, BoundAssumption DEF BeginExecute
<1>2. /\ frame'[depth + 1] = f /\ f.saved = wallet
      /\ \A i \in 1..depth : frame'[i] = frame[i]
  BY <1>1, SavedFacts DEF BeginExecute
<1> HIDE DEF f
<1>3. frame'[1].saved \in WalletState /\ Continues(wallet, frame'[1].saved)
  <2>1. CASE depth = 0
    BY <1>1, <1>2, <2>1, ContinuesItself
  <2>2. CASE depth > 0
    <3>1. 1 \in 1..depth
      BY <1>1, <2>2
    <3> QED BY <1>2, <2>2, <3>1, SavedFacts DEF HistoryInv
  <2> QED BY <1>1, <2>1, <2>2
<1>4. Balanced(wallet', depth') /\ Continues(wallet', frame'[1].saved)
  BY <1>1, <1>3, SpendContinues DEF HistoryInv
<1>5. ASSUME NEW i \in 1..depth'
      PROVE  Balanced(frame'[i].saved, i - 1) /\ Continues(frame'[i].saved, frame'[1].saved)
  <2>1. CASE i = depth + 1
    <3>1. i - 1 = depth /\ frame'[i].saved = wallet
      BY <1>1, <1>2, <2>1
    <3> QED BY <1>3, <3>1 DEF HistoryInv
  <2>2. CASE i # depth + 1
    <3>1. i \in 1..depth /\ 1 \in 1..depth
      BY <1>1, <2>2
    <3>2. frame'[i] = frame[i] /\ frame'[1] = frame[1]
      BY <1>2, <3>1
    <3> QED BY <3>1, <3>2 DEF HistoryInv
  <2> QED BY <2>1, <2>2
<1>6. depth > 0 => frame'[1] = frame[1]
  BY <1>1, <1>2
<1>7. depth = 0 => frame'[1].saved = wallet
  BY <1>1, <1>2
<1> QED BY <1>4, <1>5, <1>6, <1>7 DEF HistoryInv

\* A step either leaves the committed storage with its log, or commits another.
CommitsNothing == Committed'.log = Committed.log
CommitsMore ==
  /\ Committed \in WalletState /\ Committed' \in WalletState /\ Balanced(Committed, 0)
  /\ Continues(Committed', Committed) /\ Len(Committed'.log) > Len(Committed.log)

LEMMA HistoryStep ==
  ASSUME IInv, IInv', HistoryInv, [Next]_vars
  PROVE  HistoryInv' /\ (CommitsNothing \/ CommitsMore)
<1>1. CASE UNCHANGED vars
  BY <1>1 DEF vars, HistoryInv, Balanced, CommitsNothing, Committed
<1>2. ASSUME NEW sender \in Accounts \cup Contracts, NEW op \in Ops, DirectCall(sender, op)
      PROVE  HistoryInv' /\ CommitsNothing
  <2>1. /\ wallet'.log = wallet.log /\ wallet'.nonce = wallet.nonce
        /\ depth' = depth /\ frame' = frame
    BY <1>2, EffectOK, AddressFacts DEF DirectCall, IInv, TypeOK
  <2>2. depth > 0 => Continues(wallet', frame[1].saved)
    BY <2>1, SameLogContinues DEF HistoryInv
  <2>3. Balanced(wallet', depth)
    BY <2>1 DEF Balanced, HistoryInv
  <2>4. HistoryInv'
    BY <2>1, <2>2, <2>3 DEF HistoryInv
  <2> QED BY <2>1, <2>4 DEF CommitsNothing, Committed
<1>3. ASSUME NEW op \in Ops, NEW nonce \in 0..MaxNonce, NEW sigs \in Signatures,
             BeginExecute(op, nonce, sigs)
      PROVE  HistoryInv' /\ CommitsNothing
  <2>1. depth \in Nat /\ depth' = depth + 1
    BY <1>3, SavedFacts DEF BeginExecute
  <2>2. HistoryInv' /\ (depth = 0 => frame'[1].saved = wallet) /\ (depth > 0 => frame'[1] = frame[1])
    BY <1>3, BeginHistory
  <2>3. CASE depth = 0
    BY <2>1, <2>2, <2>3 DEF CommitsNothing, Committed
  <2>4. CASE depth > 0
    BY <2>1, <2>2, <2>4 DEF CommitsNothing, Committed
  <2> QED BY <2>1, <2>3, <2>4
<1>4. ASSUME depth > 0, Pop(depth), Balanced(wallet', depth - 1),
             depth > 1 => Continues(wallet', frame[1].saved),
             \/ wallet' = frame[1].saved
             \/ /\ Continues(wallet', frame[1].saved)
                /\ Len(wallet'.log) > Len(frame[1].saved.log)
             \/ depth > 1
      PROVE  HistoryInv' /\ (CommitsNothing \/ CommitsMore)
  <2>1. HistoryInv'
    BY <1>4, PopHistory
  <2>2. /\ depth \in 1..MaxDepth /\ depth' = depth - 1
        /\ frame' = [frame EXCEPT ![depth] = NoFrame] /\ DOMAIN frame = 1..MaxDepth
    BY <1>4, SavedFacts DEF Pop
  <2>3. CASE depth > 1
    <3>1. depth' # 0 /\ frame'[1] = frame[1]
      BY <2>2, <2>3
    <3>2. CommitsNothing
      BY <1>4, <3>1 DEF CommitsNothing, Committed
    <3> QED BY <2>1, <3>2
  <2>4. CASE depth = 1
    <3>1. Committed = frame[1].saved /\ Committed' = wallet' /\ 1 \in 1..depth
      BY <2>2, <2>4 DEF Committed
    <3>2. Committed \in WalletState /\ Committed' \in WalletState /\ Balanced(Committed, 0)
      BY <3>1, SavedFacts DEF HistoryInv, IInv, TypeOK
    <3> QED BY <1>4, <2>1, <2>4, <3>1, <3>2 DEF CommitsNothing, CommitsMore
  <2> QED BY <2>2, <2>3, <2>4
<1>5. ASSUME NEW success \in BOOLEAN, FinishCall(success) \/ FinishSelfCall(success)
      PROVE  HistoryInv' /\ (CommitsNothing \/ CommitsMore)
  BY <1>4, <1>5, FinishHistory
<1>6. CASE RevertExecute
  <2>1. depth > 0 /\ Pop(depth) /\ wallet' = frame[depth].saved /\ depth \in 1..depth
    BY <1>6, SavedFacts DEF RevertExecute
  <2>2. depth > 1 \/ depth = 1
    BY <2>1, SavedFacts
  <2>3. Balanced(wallet', depth - 1) /\ Continues(wallet', frame[1].saved)
    BY <2>1 DEF HistoryInv
  <2> QED BY <1>4, <2>1, <2>2, <2>3
<1> QED BY <1>1, <1>2, <1>3, <1>5, <1>6 DEF Next

\* The wallet contract implements the ledger: a transaction either reverts, or
\* changes keys only, or appends messages in nonce order to those that earlier
\* transactions executed; whatever is called, re-entered or reverted on the way.
THEOREM WalletImplementsLedger == Spec => LedgerSpec
<1>1. Init => Ledger!Init
  <2> SUFFICES ASSUME Init PROVE Ledger!Init
    OBVIOUS
  <2>1. Committed.log = << >>
    BY DEF Init, Committed
  <2>2. Len(Committed.log) = 0
    BY <2>1
  <2> QED BY <2>2 DEF Ledger!Init
<1>2. IInv /\ IInv' /\ HistoryInv /\ [Next]_vars => HistoryInv' /\ [Ledger!Next]_(LedgerOf(Committed))
  <2> SUFFICES ASSUME IInv, IInv', HistoryInv, [Next]_vars
               PROVE  HistoryInv' /\ [Ledger!Next]_(LedgerOf(Committed))
    OBVIOUS
  <2>1. HistoryInv' /\ (CommitsNothing \/ CommitsMore)
    BY HistoryStep
  <2>2. CASE CommitsNothing
    BY <2>1, <2>2 DEF CommitsNothing, LedgerOf
  <2>3. CASE CommitsMore
    <3>1. /\ Len(LedgerOf(Committed')) > Len(LedgerOf(Committed))
          /\ \A n \in DOMAIN LedgerOf(Committed) :
               LedgerOf(Committed')[n] = LedgerOf(Committed)[n]
      BY <2>3, LedgerKept DEF CommitsMore
    <3> QED BY <2>1, <3>1 DEF Ledger!Next, Ledger!Commit, LedgerOf
  <2> QED BY <2>1, <2>2, <2>3
<1>3. [Ledger!Next]_(LedgerOf(Committed)) =>
        [Ledger!Next]_([n \in 1..Len(Committed.log) |->
           {Committed.log[i] : i \in {j \in DOMAIN Committed.log : Committed.log[j].nonce = n - 1}}])
  BY DEF LedgerOf
<1> QED BY <1>1, <1>2, <1>3, HistoryInit, InitIInv, NextIInv, PTL DEF Spec, LedgerSpec, Ledger!Spec
=============================================================================
