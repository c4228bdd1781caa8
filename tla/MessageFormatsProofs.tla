------------------------- MODULE MessageFormatsProofs -------------------------
(***************************************************************************)
(* What is signed is what is executed, for any accounts and bounds: the    *)
(* relayer's sorting of signatures is the order the contract asks for, the *)
(* two hashes of a message are one, and the forms that a message takes on  *)
(* its way keep its fields, but for a nonce that is decoded from a         *)
(* transaction.                                                            *)
(***************************************************************************)
EXTENDS MessageFormats, WalletContractProofs

-----------------------------------------------------------------------------
(***************************************************************************)
(* Sorting.  The number of pairs before each is its place: no two pairs    *)
(* have as many, so that every place is taken.                             *)
(***************************************************************************)
Precedes(pairs, j, i) ==
  pairs[j].key < pairs[i].key \/ (pairs[j].key = pairs[i].key /\ j < i)

Keyed(pairs, n) == DOMAIN pairs = 1..n /\ \A i \in 1..n : pairs[i].key \in Nat

LEMMA BeforeFacts ==
  ASSUME NEW n \in Nat, NEW pairs, Keyed(pairs, n), NEW i \in 1..n
  PROVE  /\ IsFiniteSet(Before(pairs, i)) /\ Cardinality(Before(pairs, i)) \in 0..(n - 1)
         /\ \A j \in 1..n : j \in Before(pairs, i) <=> Precedes(pairs, j, i)
<1>1. \A j \in 1..n : j \in Before(pairs, i) <=> Precedes(pairs, j, i)
  BY DEF Before, Keyed, Precedes
<1>2. Before(pairs, i) \subseteq 1..n /\ i \notin Before(pairs, i)
  BY DEF Before, Keyed
<1>3. IsFiniteSet(1..n) /\ Cardinality(1..n) = n
  BY FS_Interval
<1>4. IsFiniteSet(Before(pairs, i)) /\ Cardinality(Before(pairs, i)) \in Nat
  BY <1>2, <1>3, FS_Subset, FS_CardinalityType
<1>5. Cardinality(Before(pairs, i) \cup {i}) = Cardinality(Before(pairs, i)) + 1
  BY <1>2, <1>4, FS_AddElement
<1>6. Cardinality(Before(pairs, i) \cup {i}) <= n
  <2>1. Before(pairs, i) \cup {i} \in SUBSET (1..n)
    BY <1>2
  <2> QED BY <1>3, <2>1, FS_Subset
<1> QED BY <1>1, <1>4, <1>5, <1>6

LEMMA MoreBefore ==
  ASSUME NEW n \in Nat, NEW pairs, Keyed(pairs, n), NEW i \in 1..n, NEW j \in 1..n, Precedes(pairs, j, i)
  PROVE  Cardinality(Before(pairs, j)) < Cardinality(Before(pairs, i))
<1>1. Before(pairs, j) \cup {j} \subseteq Before(pairs, i) /\ j \notin Before(pairs, j)
  BY DEF Before, Keyed, Precedes
<1>2. /\ IsFiniteSet(Before(pairs, i)) /\ Cardinality(Before(pairs, i)) \in Nat
      /\ IsFiniteSet(Before(pairs, j)) /\ Cardinality(Before(pairs, j)) \in Nat
  BY BeforeFacts
<1>3. Cardinality(Before(pairs, j) \cup {j}) = Cardinality(Before(pairs, j)) + 1
  BY <1>1, <1>2, FS_AddElement
<1>4. Cardinality(Before(pairs, j) \cup {j}) <= Cardinality(Before(pairs, i))
  BY <1>1, <1>2, FS_Subset
<1> QED BY <1>2, <1>3, <1>4

\* A sorted sequence has the pairs of the one it was made from, each before those
\* that it precedes.
IsOrder(place, pairs, n) ==
  /\ place \in [1..n -> 1..n] /\ \A i \in 1..n : \E k \in 1..n : place[k] = i
  /\ \A k, l \in 1..n : k < l => Precedes(pairs, place[k], place[l])

LEMMA SortedFacts ==
  ASSUME NEW n \in Nat, NEW pairs, Keyed(pairs, n)
  PROVE  \E place : IsOrder(place, pairs, n) /\ Sorted(pairs) = [k \in 1..n |-> pairs[place[k]]]
<1> DEFINE rank == [i \in 1..n |-> Cardinality(Before(pairs, i)) + 1]
           place == [k \in 1..n |-> CHOOSE i \in 1..n : Cardinality(Before(pairs, i)) = k - 1]
<1>1. \A i \in 1..n : Cardinality(Before(pairs, i)) \in 0..(n - 1)
  BY BeforeFacts
<1>2. rank \in [1..n -> 1..n]
  BY <1>1
<1>3. \A i, j \in 1..n : i = j \/ Precedes(pairs, i, j) \/ Precedes(pairs, j, i)
  BY DEF Keyed, Precedes
<1>4. ASSUME NEW i \in 1..n, NEW j \in 1..n,
             Cardinality(Before(pairs, i)) = Cardinality(Before(pairs, j))
      PROVE  i = j
  <2>1. ~Precedes(pairs, i, j) /\ ~Precedes(pairs, j, i)
    BY <1>1, <1>4, MoreBefore
  <2> QED BY <1>3, <2>1
<1>5. \A i, j \in 1..n : rank[i] = rank[j] => i = j
  <2> SUFFICES ASSUME NEW i \in 1..n, NEW j \in 1..n, rank[i] = rank[j] PROVE i = j
    OBVIOUS
  <2>1. Cardinality(Before(pairs, i)) = Cardinality(Before(pairs, j))
    BY <1>1
  <2> QED BY <1>4, <2>1
<1>6. \A k \in 1..n : \E i \in 1..n : rank[i] = k
  <2>1. rank \in Injection(1..n, 1..n)
    BY <1>2, <1>5 DEF Injection, IsInjective
  <2>2. rank \in Surjection(1..n, 1..n)
    <3> HIDE DEF rank
    <3>1. IsFiniteSet(1..n)
      BY FS_Interval
    <3> QED BY <2>1, <3>1, FS_Injection
  <2> QED BY <2>2 DEF Surjection
<1>7. \A k \in 1..n : place[k] \in 1..n /\ Cardinality(Before(pairs, place[k])) = k - 1
  <2> SUFFICES ASSUME NEW k \in 1..n
               PROVE  place[k] \in 1..n /\ Cardinality(Before(pairs, place[k])) = k - 1
    OBVIOUS
  <2>1. PICK i \in 1..n : rank[i] = k
    BY <1>6
  <2>2. Cardinality(Before(pairs, i)) = k - 1
    BY <1>1, <2>1
  <2> QED BY <2>2
<1>8. Sorted(pairs) = [k \in 1..n |-> pairs[place[k]]]
  BY DEF Sorted, Keyed
<1>9. \A i \in 1..n : \E k \in 1..n : place[k] = i
  <2> SUFFICES ASSUME NEW i \in 1..n PROVE \E k \in 1..n : place[k] = i
    OBVIOUS
  <2>1. rank[i] \in 1..n /\ Cardinality(Before(pairs, i)) = rank[i] - 1
    BY <1>1, <1>2
  <2> HIDE DEF rank, place
  <2>2. place[rank[i]] = i
    BY <1>4, <1>7, <2>1
  <2> QED BY <2>1, <2>2
<1>10. ASSUME NEW k \in 1..n, NEW l \in 1..n, k < l PROVE Precedes(pairs, place[k], place[l])
  <2> HIDE DEF place
  <2>1. Cardinality(Before(pairs, place[k])) < Cardinality(Before(pairs, place[l]))
    BY <1>7, <1>10
  <2>2. ~Precedes(pairs, place[l], place[k])
    <3> SUFFICES ASSUME Precedes(pairs, place[l], place[k]) PROVE FALSE
      OBVIOUS
    <3>1. Cardinality(Before(pairs, place[l])) < Cardinality(Before(pairs, place[k]))
      BY <1>7, MoreBefore
    <3> QED BY <1>7, <2>1, <3>1
  <2>3. place[k] # place[l]
    BY <1>7, <2>1
  <2> QED BY <1>3, <1>7, <2>2, <2>3
<1>11. place \in [1..n -> 1..n]
  BY <1>7
<1> QED BY <1>8, <1>9, <1>10, <1>11 DEF IsOrder

-----------------------------------------------------------------------------
(***************************************************************************)
(* Hashing and recovering.                                                 *)
(***************************************************************************)
LEMMA HashInjective ==
  ASSUME NEW x, NEW y
  PROVE  (Keccak(x) = Keccak(y) => x = y) /\ (EthSigned(x) = EthSigned(y) => x = y)
BY DEF Keccak, EthSigned

\* The contract hashes what was signed, and no other message to the same thing.
LEMMA HashesMatch ==
  ASSUME NEW m \in Message, NEW other \in Message, other.from = Wallet, NEW signatures
  PROVE  ContractHash(Encoded(other, signatures)) = CalculateMessageHash(m) <=> other = m
<1> DEFINE fields(u) ==
      <<u.from, u.to, u.value, Keccak(u.data), u.nonce, u.gasPrice, u.gasToken, u.gasLimit,
        u.operationType>>
<1>1. /\ ContractHash(Encoded(other, signatures)) = Keccak(fields(other))
      /\ CalculateMessageHash(m) = Keccak(fields(m))
  BY DEF ContractHash, CalculateMessageHash, Encoded
<1>2. fields(other) = fields(m) => other = m
  <2>1. ASSUME fields(other) = fields(m)
        PROVE  /\ other.from = m.from /\ other.to = m.to /\ other.value = m.value
               /\ Keccak(other.data) = Keccak(m.data) /\ other.nonce = m.nonce
               /\ other.gasPrice = m.gasPrice /\ other.gasToken = m.gasToken
               /\ other.gasLimit = m.gasLimit /\ other.operationType = m.operationType
    BY <2>1
  <2>2. ASSUME fields(other) = fields(m) PROVE other = m
    <3>1. other.data = m.data
      BY <2>1, <2>2, HashInjective
    <3> QED BY <2>1, <2>2, <3>1 DEF Message
  <2> QED BY <2>2
<1> HIDE DEF fields
<1> QED BY <1>1, <1>2, HashInjective

\* What the contract recovers: the keys that signed, in the order of the places,
\* or nobody if another message comes with the signatures.
SignersOf(m, other, keys) == Signers(Encoded(other, CollectedSignatures(Collected(m, keys))))

Distinct(keys, n) == \A i, j \in 1..n : keys[i] = keys[j] => i = j

PlacedAt(place, signers, keys, n, intact) ==
  /\ place \in [1..n -> 1..n] /\ \A i \in 1..n : \E k \in 1..n : place[k] = i
  /\ Distinct(keys, n) => \A k, l \in 1..n : k < l => keys[place[k]] < keys[place[l]]
  /\ signers = [k \in 1..n |-> IF intact THEN keys[place[k]] ELSE NULL_ADDRESS]

LEMMA SignersFacts ==
  ASSUME NEW m \in Message, NEW other \in Message, other.from = Wallet,
         NEW n \in Nat, NEW keys \in [1..n -> Accounts]
  PROVE  \E place : PlacedAt(place, SignersOf(m, other, keys), keys, n, other = m)
<1> DEFINE h == CalculateMessageHash(m)
           pairs == Collected(m, keys)
<1>1. /\ DOMAIN pairs = 1..n
      /\ \A i \in 1..n : pairs[i] = [key |-> keys[i],
                                     signature |-> [signer |-> keys[i], over |-> EthSigned(h)]]
  BY DEF Collected, CreateSignedMessage, Sign, Recover
<1> HIDE DEF pairs, h
<1>2. /\ \A i \in 1..n : pairs[i].key = keys[i] /\ pairs[i].signature.signer = keys[i]
      /\ \A i \in 1..n : pairs[i].signature.over = EthSigned(h)
  BY <1>1
<1>3. \A i \in 1..n : keys[i] \in Nat
  BY AddressAssumption
<1>4. Keyed(pairs, n)
  BY <1>1, <1>2, <1>3 DEF Keyed
<1>5. PICK place : IsOrder(place, pairs, n) /\ Sorted(pairs) = [k \in 1..n |-> pairs[place[k]]]
  BY <1>4, SortedFacts
<1>6. place \in [1..n -> 1..n] /\ \A i \in 1..n : \E k \in 1..n : place[k] = i
  BY <1>5 DEF IsOrder
<1>7. ASSUME Distinct(keys, n)
      PROVE  \A k, l \in 1..n : k < l => keys[place[k]] < keys[place[l]]
  <2> SUFFICES ASSUME NEW k \in 1..n, NEW l \in 1..n, k < l PROVE keys[place[k]] < keys[place[l]]
    OBVIOUS
  <2>1. place[k] \in 1..n /\ place[l] \in 1..n /\ Precedes(pairs, place[k], place[l])
    BY <1>5 DEF IsOrder
  <2>2. \/ keys[place[k]] < keys[place[l]]
        \/ keys[place[k]] = keys[place[l]] /\ place[k] < place[l]
    BY <1>2, <2>1 DEF Precedes
  <2> QED BY <1>7, <2>1, <2>2 DEF Distinct
<1>8. CollectedSignatures(pairs) = [k \in 1..n |-> pairs[place[k]].signature]
  BY <1>5 DEF CollectedSignatures
<1> DEFINE a == Encoded(other, CollectedSignatures(pairs))
<1>9. a[9] = [k \in 1..n |-> pairs[place[k]].signature]
  BY <1>8 DEF Encoded
<1>10. EthSigned(ContractHash(a)) = EthSigned(h) <=> other = m
  <2>1. ContractHash(a) = h <=> other = m
    BY HashesMatch DEF h
  <2> HIDE DEF a
  <2> QED BY <2>1, HashInjective
<1> DEFINE digest == EthSigned(ContractHash(a))
<1>11. Signers(a) = [k \in 1..n |-> Recover(digest, pairs[place[k]].signature)]
  <2>1. Signers(a) = [k \in DOMAIN a[9] |-> Recover(digest, a[9][k])]
    BY DEF Signers
  <2> HIDE DEF a, digest
  <2> QED BY <1>9, <2>1
<1> HIDE DEF a
<1>12. \A k \in 1..n : Recover(digest, pairs[place[k]].signature) =
                         IF other = m THEN keys[place[k]] ELSE NULL_ADDRESS
  <2> SUFFICES ASSUME NEW k \in 1..n
               PROVE  Recover(digest, pairs[place[k]].signature) =
                        IF other = m THEN keys[place[k]] ELSE NULL_ADDRESS
    OBVIOUS
  <2>1. place[k] \in 1..n
    BY <1>6
  <2>2. /\ pairs[place[k]].signature.signer = keys[place[k]]
        /\ pairs[place[k]].signature.over = EthSigned(h)
    BY <1>2, <2>1
  <2> QED BY <1>10, <2>2 DEF Recover
<1>13. Signers(a) = [k \in 1..n |-> IF other = m THEN keys[place[k]] ELSE NULL_ADDRESS]
  BY <1>11, <1>12
<1> QED BY <1>6, <1>7, <1>13 DEF a, pairs, SignersOf, PlacedAt

-----------------------------------------------------------------------------
(***************************************************************************)
(* The forms of a message: up to the transaction none changes a number.    *)
(***************************************************************************)
Fields ==
  {"from", "to", "value", "data", "nonce", "gasPrice", "gasToken", "gasLimit", "operationType"}

Given(m) == DOMAIN m = Fields /\ \A f \in Fields : m[f].kind # "undefined"
SameNumbers(m, r) == \A f \in Fields : r[f].n = m[f].n

\* What the SDK has of a message when it signs.
Signable(m) ==
  /\ Given(m)
  /\ \A f \in {"from", "to", "data", "gasToken"} : m[f].kind = "string"
  /\ m["operationType"] = Held("number", 0) 
  /\ m["nonce"].kind # "empty" /\ m["nonce"].n \in Nat
  /\ \A f \in Amounts : m[f].kind \in {"number", "string", "bigNumber"}

LEMMA FieldsFacts == DOMAIN BaseMessage = Fields /\ Amounts \subseteq Fields
BY DEF BaseMessage, Fields, Amounts

LEMMA HeldFacts ==
  ASSUME NEW kind, NEW n
  PROVE  /\ Held(kind, n).kind = kind /\ Held(kind, n).n = n
         /\ Undefined.kind = "undefined"
BY DEF Held, Undefined

LEMMA StringifiedFacts ==
  ASSUME NEW m, Given(m) PROVE Given(Stringified(m)) /\ SameNumbers(m, Stringified(m))
<1>1. DOMAIN Stringified(m) = Fields
  BY DEF Stringified, Given
<1>2. ASSUME NEW f \in Fields
      PROVE  Stringified(m)[f].kind # "undefined" /\ Stringified(m)[f].n = m[f].n
  <2>1. Stringified(m)[f] = IF f = "nonce" \/ (f \in Amounts /\ Truthy(m[f]))
                            THEN Held("string", m[f].n) ELSE m[f]
    BY DEF Stringified, Given
  <2> QED BY <2>1, HeldFacts DEF Given
<1> QED BY <1>1, <1>2 DEF Given, SameNumbers

LEMMA PostedFacts ==
  ASSUME NEW m, Given(m)
  PROVE  Given(Posted(m)) /\ SameNumbers(m, Posted(m))
<1>1. \A f \in Fields : m[f] # Undefined
  BY HeldFacts DEF Given
<1>2. DOMAIN Posted(m) = Fields
  BY <1>1 DEF Posted, Given
<1>3. ASSUME NEW f \in Fields PROVE Posted(m)[f].kind # "undefined" /\ Posted(m)[f].n = m[f].n
  <2>1. Posted(m)[f] = IF m[f].kind = "bigNumber" THEN Held("object", m[f].n) ELSE m[f]
    BY <1>1 DEF Posted, Given
  <2> QED BY <2>1, HeldFacts DEF Given
<1> QED BY <1>2, <1>3 DEF Given, SameNumbers

LEMMA BignumberifiedFacts ==
  ASSUME NEW m, Given(m)
  PROVE  Given(Bignumberified(m)) /\ SameNumbers(m, Bignumberified(m))
<1>1. DOMAIN Bignumberified(m) = Fields
  BY DEF Bignumberified, Given
<1>2. ASSUME NEW f \in Fields
      PROVE  Bignumberified(m)[f].kind # "undefined" /\ Bignumberified(m)[f].n = m[f].n
  <2>1. Bignumberified(m)[f] = IF f \in Amounts THEN Held("bigNumber", m[f].n) ELSE m[f]
    BY DEF Bignumberified, Given
  <2> QED BY <2>1, HeldFacts DEF Given
<1> QED BY <1>1, <1>2 DEF Given, SameNumbers

\* Posted and sanitized, or stored and read again.
LEMMA RestoredFacts ==
  ASSUME NEW m, Given(m) PROVE Given(Restored(m)) /\ Plain(Restored(m)) = Plain(m)
<1> DEFINE s == Stringified(m)
           j == Posted(s)
           b == Bignumberified(j)
<1>1. Given(s) /\ SameNumbers(m, s)
  BY StringifiedFacts
<1> HIDE DEF s
<1>2. Given(j) /\ SameNumbers(s, j)
  BY <1>1, PostedFacts
<1> HIDE DEF j
<1>3. Given(b) /\ SameNumbers(j, b)
  BY <1>2, BignumberifiedFacts
<1> HIDE DEF b
<1>4. SameNumbers(m, b)
  BY <1>1, <1>2, <1>3 DEF SameNumbers
<1>5. Plain(b) = Plain(m)
  BY <1>4, FieldsFacts DEF Plain, SameNumbers
<1> QED BY <1>3, <1>5 DEF Restored, b, j, s

-----------------------------------------------------------------------------
(***************************************************************************)
(* Decimal digits read as hexadecimal ones.                                *)
(***************************************************************************)
LEMMA UpTo ==
  ASSUME NEW n \in Nat, NEW S, 0 \in S, \A i \in 1..n : 0..(i - 1) \subseteq S => i \in S
  PROVE  0..n \subseteq S
<1> DEFINE R == OpToRel(<, Nat)
           missing == (0..n) \ S
<1>1. IsWellFoundedOn(R, Nat) /\ \A x, y \in Nat : <<x, y>> \in R <=> x < y
  BY NatLessThanWellFounded DEF OpToRel
<1>2. missing \subseteq Nat
  OBVIOUS
<1> HIDE DEF R, missing
<1>3. ASSUME missing # {} PROVE FALSE
  <2>1. \E i \in missing : \A j \in missing : ~(<<j, i>> \in R)
    <3>1. IsWellFoundedOn(R, Nat)
      BY <1>1
    <3> QED BY <1>2, <1>3, <3>1, WFMin
  <2>2. PICK i \in missing : \A j \in missing : ~(j < i)
    BY <1>1, <1>2, <2>1
  <2>3. i \in 1..n /\ i \notin S
    BY <2>2 DEF missing
  <2>4. 0..(i - 1) \subseteq S
    BY <2>2, <2>3 DEF missing
  <2> QED BY <2>3, <2>4
<1> QED BY <1>3 DEF missing

Digits(k, g) == IF k < 10 THEN k ELSE 16 * g[k \div 10] + (k % 10)
IsParse(g, n, m) == g \in [0..n -> Nat] /\ \A k \in 0..m : g[k] = Digits(k, g)

LEMMA DigitsFacts ==
  ASSUME NEW n \in Nat, NEW k \in 0..n, NEW g \in [0..n -> Nat]
  PROVE  Digits(k, g) \in Nat /\ (k >= 10 => k \div 10 \in 0..(k - 1))
<1>1. k \div 10 \in Nat /\ k % 10 \in Nat /\ k \div 10 <= k
  OBVIOUS
<1>2. k >= 10 => k \div 10 < k
  OBVIOUS
<1>3. k \div 10 \in 0..n
  BY <1>1
<1>4. g[k \div 10] \in Nat
  BY <1>3
<1> QED BY <1>1, <1>2, <1>4 DEF Digits

\* The recursion has a solution.
LEMMA ParseExists == ASSUME NEW n \in Nat PROVE \E g : IsParse(g, n, n)
<1> DEFINE S == {m \in 0..n : \E g : IsParse(g, n, m)}
<1>1. 0 \in S
  <2>1. IsParse([k \in 0..n |-> 0], n, 0)
    BY DEF IsParse, Digits
  <2> QED BY <2>1
<1>2. ASSUME NEW m \in 1..n, 0..(m - 1) \subseteq S PROVE m \in S
  <2>1. m - 1 \in 0..(m - 1)
    OBVIOUS
  <2>2. PICK g : IsParse(g, n, m - 1)
    BY <1>2, <2>1
  <2> DEFINE h == [k \in 0..n |-> IF k = m THEN Digits(m, g) ELSE g[k]]
  <2>3. g \in [0..n -> Nat] /\ \A k \in 0..(m - 1) : g[k] = Digits(k, g)
    BY <2>2 DEF IsParse
  <2>4. Digits(m, g) \in Nat /\ \A k \in 0..m : k >= 10 => k \div 10 \in 0..(k - 1)
    BY <2>3, DigitsFacts
  <2>5. h \in [0..n -> Nat]
    BY <2>3, <2>4
  <2>6. h[m] = Digits(m, g) /\ \A k \in 0..(m - 1) : h[k] = g[k]
    OBVIOUS
  <2> HIDE DEF h
  <2>7. \A k \in 0..m : Digits(k, h) = Digits(k, g)
    <3> SUFFICES ASSUME NEW k \in 0..m PROVE Digits(k, h) = Digits(k, g)
      OBVIOUS
    <3>1. CASE k < 10
      BY <3>1 DEF Digits
    <3>2. CASE k >= 10
      <4>1. k \div 10 \in 0..(m - 1)
        BY <2>4, <3>2
      <4>2. h[k \div 10] = g[k \div 10]
        BY <2>6, <4>1
      <4> QED BY <4>2 DEF Digits
    <3> QED BY <3>1, <3>2
  <2>8. \A k \in 0..m : h[k] = Digits(k, h)
    BY <2>3, <2>6, <2>7
  <2> QED BY <2>5, <2>8 DEF IsParse
<1> HIDE DEF S
<1>3. 0..n \subseteq S
  BY <1>1, <1>2, UpTo
<1> QED BY <1>3 DEF S

\* One digit is read as it is, more digits as a larger number.
LEMMA ParseFacts ==
  ASSUME NEW n \in Nat
  PROVE  ParseInt16(n) = n <=> n < 10
<1> DEFINE Parses(g) == g = [k \in 0..n |-> IF k < 10 THEN k ELSE 16 * g[k \div 10] + (k % 10)]
           parsed == CHOOSE g : Parses(g)
<1>1. Parses(parsed)
  <2>1. PICK g : IsParse(g, n, n)
    BY ParseExists
  <2>2. Parses(g)
    BY <2>1 DEF IsParse, Digits
  <2> HIDE DEF Parses
  <2> QED BY <2>2
<1>2. ParseInt16(n) = parsed[n]
  BY DEF ParseInt16
<1> HIDE DEF parsed
<1>3. \A k \in 0..n : parsed[k] = IF k < 10 THEN k ELSE 16 * parsed[k \div 10] + (k % 10)
  BY <1>1
<1> DEFINE S == {k \in 0..n : parsed[k] \in Nat /\ parsed[k] >= k /\ (k >= 10 => parsed[k] > k)}
<1>4. 0 \in S
  BY <1>3
<1>5. ASSUME NEW m \in 1..n, 0..(m - 1) \subseteq S PROVE m \in S
  <2>1. CASE m < 10
    BY <1>3, <2>1
  <2>2. CASE m >= 10
    <3> DEFINE q == m \div 10
    <3>1. q \in 0..(m - 1) /\ q >= 1 /\ m = 10 * q + (m % 10) /\ m % 10 \in Nat
      BY <2>2
    <3> HIDE DEF q
    <3>2. parsed[q] \in Nat /\ parsed[q] >= q
      BY <1>5, <3>1
    <3>3. parsed[m] = 16 * parsed[q] + (m % 10)
      BY <1>3, <2>2 DEF q
    <3>4. parsed[m] \in Nat /\ parsed[m] > m
      BY <3>1, <3>2, <3>3
    <3> QED BY <3>4
  <2> QED BY <2>1, <2>2
<1> HIDE DEF S
<1>6. 0..n \subseteq S
  BY <1>4, <1>5, UpTo
<1>7. parsed[n] \in Nat /\ (n >= 10 => parsed[n] > n)
  BY <1>6 DEF S
<1>8. n < 10 => parsed[n] = n
  BY <1>3
<1> QED BY <1>2, <1>7, <1>8

LEMMA DecodedFacts ==
  ASSUME NEW m, NEW signatures, m["nonce"].n \in Nat, m["operationType"].n = 0
  PROVE  LET decoded == Decoded(Encoded(Plain(m), signatures))
         IN /\ \A f \in Fields \ {"from", "nonce"} : decoded[f] = Plain(m)[f]
            /\ decoded["nonce"] = Plain(m)["nonce"] <=> Plain(m)["nonce"] < 10
<1> DEFINE p == Plain(m)
<1>1. p.nonce \in Nat /\ p.operationType = 0
  BY FieldsFacts DEF Plain, Fields
<1> HIDE DEF p
<1> DEFINE decoded == Decoded(Encoded(p, signatures))
<1>2. decoded =
        [to |-> p.to, value |-> p.value, data |-> p.data, nonce |-> ParseInt16(p.nonce),
         gasPrice |-> p.gasPrice, gasToken |-> p.gasToken, gasLimit |-> p.gasLimit,
         operationType |-> ParseInt16(p.operationType), signature |-> signatures]
  BY DEF Decoded, Encoded
<1> HIDE DEF decoded
<1>3. ParseInt16(p.operationType) = p.operationType
  BY <1>1, ParseFacts
<1>4. ParseInt16(p.nonce) = p.nonce <=> p.nonce < 10
  BY <1>1, ParseFacts
<1>5. \A f \in Fields \ {"from", "nonce"} : decoded[f] = p[f]
  BY <1>2, <1>3 DEF Fields
<1>6. decoded["nonce"] = ParseInt16(p.nonce)
  BY <1>2
<1> QED BY <1>4, <1>5, <1>6 DEF decoded, p

\* The sanitizers accept what the SDK posts.
LEMMA SanitizedFacts == ASSUME NEW m, Signable(m) PROVE Sanitizes(Posted(Stringified(m)))
<1> DEFINE s == Stringified(m)
<1>1. Given(s) /\ DOMAIN m = Fields
  BY StringifiedFacts DEF Signable, Given
<1>2. \A f \in Fields : s[f] = IF f = "nonce" \/ (f \in Amounts /\ Truthy(m[f]))
                               THEN Held("string", m[f].n) ELSE m[f]
  BY <1>1 DEF Stringified
<1> HIDE DEF s
<1>3. /\ \A f \in {"from", "to", "data", "gasToken"} : f \in Fields \ Amounts /\ f # "nonce"
      /\ "operationType" \in Fields \ Amounts /\ "nonce" \in Fields \ Amounts
      /\ Fields = {"from", "to", "data", "gasToken"} \cup {"operationType"} \cup {"nonce"} \cup Amounts
  BY DEF Fields, Amounts
<1>4. \A f \in {"from", "to", "data", "gasToken"} : s[f].kind = "string"
  BY <1>2, <1>3 DEF Signable
<1>5. s["operationType"].kind = "number"
  BY <1>2, <1>3, HeldFacts DEF Signable
<1>6. s["nonce"].kind = "string"
  BY <1>2, <1>3, HeldFacts
<1>7. ASSUME NEW f \in Amounts PROVE s[f].kind \in {"number", "string"}
  <2>1. CASE Truthy(m[f])
    <3>1. s[f] = Held("string", m[f].n)
      BY <1>2, <1>3, <2>1
    <3> QED BY <3>1, HeldFacts
  <2>2. CASE ~Truthy(m[f])
    <3>1. s[f] = m[f] /\ m[f].kind = "number"
      BY <1>2, <1>3, <2>2 DEF Truthy, Signable
    <3> QED BY <3>1
  <2> QED BY <2>1, <2>2
<1>8. ASSUME NEW f \in Fields PROVE s[f].kind \in Accepts(f) /\ s[f].kind # "bigNumber"
  <2>1. CASE f \in Amounts
    <3>1. Accepts(f) = {"number", "string"}
      BY <2>1 DEF Accepts, Amounts
    <3> QED BY <1>7, <2>1, <3>1
  <2>2. CASE f = "operationType"
    BY <1>3, <1>5, <2>2 DEF Accepts
  <2>3. CASE f \in {"from", "to", "data", "gasToken", "nonce"}
    BY <1>3, <1>4, <1>6, <2>3 DEF Accepts
  <2> QED BY <1>3, <2>1, <2>2, <2>3
<1>9. DOMAIN Posted(s) = Fields
  BY <1>1, PostedFacts DEF Given
<1>10. \A f \in Fields : Posted(s)[f] = s[f]
  <2>1. \A f \in Fields : f \in DOMAIN s /\ s[f] # Undefined
    BY <1>1, HeldFacts DEF Given
  <2> QED BY <1>8, <2>1 DEF Posted
<1> QED BY <1>8, <1>9, <1>10, FieldsFacts DEF Sanitizes, s

LEMMA SignableKept == ASSUME NEW m, Signable(m) PROVE KeepsMessage(m)
<1> DEFINE received == Bignumberified(Posted(Stringified(m)))
           restored == Restored(received)
<1>1. received = Restored(m)
  BY DEF Restored
<1>2. Given(received) /\ Plain(received) = Plain(m)
  BY <1>1, RestoredFacts DEF Signable
<1> HIDE DEF received
<1>3. Plain(restored) = Plain(received)
  BY <1>2, RestoredFacts
<1> HIDE DEF restored
<1>4. restored["nonce"].n \in Nat /\ restored["operationType"].n = 0
  <2>1. /\ Plain(m)["nonce"] = m["nonce"].n /\ Plain(m)["operationType"] = m["operationType"].n
        /\ Plain(restored)["nonce"] = restored["nonce"].n
        /\ Plain(restored)["operationType"] = restored["operationType"].n
    BY FieldsFacts DEF Plain, Fields
  <2> QED BY <1>2, <1>3, <2>1, HeldFacts DEF Signable
<1> DEFINE decoded == Decoded(Encoded(Plain(restored), << >>))
<1>5. /\ \A f \in Fields \ {"from", "nonce"} : decoded[f] = Plain(m)[f]
      /\ decoded["nonce"] = Plain(m)["nonce"] <=> Plain(m)["nonce"] < 10
  BY <1>2, <1>3, <1>4, DecodedFacts
<1> HIDE DEF decoded
<1> QED BY <1>2, <1>3, <1>5, FieldsFacts, SanitizedFacts DEF KeepsMessage, received, restored, decoded

-----------------------------------------------------------------------------
(***************************************************************************)
(* What the SDK makes of what an application passes.                       *)
(***************************************************************************)
AmountKinds == {"number", "string", "bigNumber"}

LEMMA PassedFacts ==
  ASSUME NEW v
  PROVE  /\ v \in Amount => v = Undefined \/ v.kind \in AmountKinds
         /\ v \in Nonce => v.n \in Nat
BY HeldFacts, NumbersAssumption DEF Amount, Nonce, AmountKinds, Undefined

LEMMA SpreadFacts ==
  ASSUME NEW base, NEW override
  PROVE  /\ DOMAIN Spread(base, override) = DOMAIN base \cup DOMAIN override
         /\ \A f \in DOMAIN override : Spread(base, override)[f] = override[f]
         /\ \A f \in DOMAIN base \ DOMAIN override : Spread(base, override)[f] = base[f]
BY DEF Spread

\* What sdk.execute is called with, the fields of an application among it.
Passed(options) ==
  /\ "from" \in DOMAIN options /\ DOMAIN options \subseteq {"from", "to", "data", "nonce"} \cup Amounts
  /\ \A f \in DOMAIN options \cap {"from", "to", "data"} : options[f].kind = "string"
  /\ \A f \in DOMAIN options \cap Amounts : options[f] \in Amount
  /\ "nonce" \in DOMAIN options => options["nonce"] \in Nonce

LEMMA DefaultFacts ==
  ASSUME NEW payment \in Payments
  PROVE  LET d == DefaultPaymentOptions(payment)
         IN /\ DOMAIN d \subseteq Fields \ {"from", "to", "nonce"} /\ "operationType" \in DOMAIN d
            /\ \A f \in DOMAIN d : f \in Amounts => d[f].kind \in AmountKinds
            /\ d["operationType"] = Held("number", 0)
            /\ \A f \in DOMAIN d : f \in {"data", "gasToken"} => d[f].kind = "string"
<1> DEFINE d == DefaultPaymentOptions(payment)
<1>1. /\ DOMAIN d = DOMAIN MESSAGE_DEFAULTS \cup DOMAIN payment
      /\ \A f \in DOMAIN payment : d[f] = payment[f]
      /\ \A f \in DOMAIN MESSAGE_DEFAULTS \ DOMAIN payment : d[f] = MESSAGE_DEFAULTS[f]
  BY SpreadFacts DEF DefaultPaymentOptions
<1>2. /\ DOMAIN MESSAGE_DEFAULTS = Amounts \cup {"operationType", "data"}
      /\ \A f \in Amounts : MESSAGE_DEFAULTS[f].kind = "number"
      /\ MESSAGE_DEFAULTS["operationType"] = Held("number", 0)
      /\ MESSAGE_DEFAULTS["data"].kind = "string"
  BY HeldFacts DEF MESSAGE_DEFAULTS, Amounts
<1>3. DOMAIN payment \subseteq {"gasToken"} /\ \A f \in DOMAIN payment : payment[f].kind = "string"
  BY HeldFacts DEF Payments
<1> HIDE DEF d
<1> QED BY <1>1, <1>2, <1>3 DEF Fields, Amounts, AmountKinds, d

LEMMA CompletedFacts ==
  ASSUME NEW options, Passed(options), NEW payment \in Payments, NEW lastNonce \in Nat
  PROVE  LET m == Completed(options, payment, lastNonce)
         IN /\ (\A f \in Amounts : m[f] # Undefined) /\ m["to"].kind # "empty" => Signable(m)
            /\ (\A f \in DOMAIN options \cap Amounts : options[f] # Undefined)
                 => \A f \in Amounts : m[f] # Undefined
            /\ m["to"].kind # "empty" <=> "to" \in DOMAIN options
<1> DEFINE d == DefaultPaymentOptions(payment)
           nonce == IF "nonce" \in DOMAIN options /\ Truthy(options["nonce"])
                    THEN options["nonce"] ELSE Held("number", lastNonce)
           given == Spread(d, options)
           numbered == Spread(given, [nonce |-> nonce])
           m == Spread(EmptyMessage, numbered)
<1>1. m = Completed(options, payment, lastNonce)
  BY DEF Completed, Unsigned
<1>2. nonce.kind \notin {"undefined", "empty"} /\ nonce.n \in Nat
  <2>1. CASE "nonce" \in DOMAIN options /\ Truthy(options["nonce"])
    <3>1. options["nonce"].n \in Nat
      BY <2>1, PassedFacts DEF Passed
    <3> QED BY <2>1, <3>1 DEF Truthy
  <2>2. CASE ~("nonce" \in DOMAIN options /\ Truthy(options["nonce"]))
    BY <2>2, HeldFacts
  <2> QED BY <2>1, <2>2
<1> HIDE DEF nonce
<1>3. /\ DOMAIN d \subseteq Fields \ {"from", "to", "nonce"} /\ "operationType" \in DOMAIN d
      /\ \A f \in DOMAIN d : f \in Amounts => d[f].kind \in AmountKinds
      /\ d["operationType"] = Held("number", 0)
      /\ \A f \in DOMAIN d : f \in {"data", "gasToken"} => d[f].kind = "string"
  BY DefaultFacts
<1> HIDE DEF d
<1>4. /\ DOMAIN given = DOMAIN d \cup DOMAIN options
      /\ \A f \in DOMAIN options : given[f] = options[f]
      /\ \A f \in DOMAIN d \ DOMAIN options : given[f] = d[f]
  BY SpreadFacts
<1> HIDE DEF given
<1>5. /\ DOMAIN numbered = DOMAIN given \cup {"nonce"} /\ numbered["nonce"] = nonce
      /\ \A f \in DOMAIN given \ {"nonce"} : numbered[f] = given[f]
  BY SpreadFacts
<1> HIDE DEF numbered
<1>6. /\ DOMAIN m = DOMAIN EmptyMessage \cup DOMAIN numbered
      /\ \A f \in DOMAIN numbered : m[f] = numbered[f]
      /\ \A f \in DOMAIN EmptyMessage \ DOMAIN numbered : m[f] = EmptyMessage[f]
  BY SpreadFacts
<1> HIDE DEF m
<1>7. /\ DOMAIN EmptyMessage = Fields \ {"from"}
      /\ \A f \in Amounts : EmptyMessage[f].kind \in AmountKinds
      /\ \A f \in {"data", "gasToken"} : EmptyMessage[f].kind = "string"
      /\ EmptyMessage["to"].kind = "empty"
  BY HeldFacts DEF EmptyMessage, Fields, Amounts, AmountKinds
<1>8. DOMAIN m = Fields /\ m["nonce"].kind \notin {"undefined", "empty"} /\ m["nonce"].n \in Nat
  <2>1. DOMAIN options \subseteq Fields /\ "from" \in DOMAIN options /\ "nonce" \in Fields
        /\ "from" \in Fields
    BY DEF Passed, Fields, Amounts
  <2> QED BY <1>2, <1>3, <1>4, <1>5, <1>6, <1>7, <2>1
\* Each of the other fields: passed, or the SDK's own.
<1>9. \A f \in Fields \ {"nonce"} :
        m[f] = IF f \in DOMAIN options THEN options[f]
               ELSE IF f \in DOMAIN d THEN d[f] ELSE EmptyMessage[f]
  <2> SUFFICES ASSUME NEW f \in Fields \ {"nonce"}
               PROVE  m[f] = IF f \in DOMAIN options THEN options[f]
                             ELSE IF f \in DOMAIN d THEN d[f] ELSE EmptyMessage[f]
    OBVIOUS
  <2>1. CASE f \in DOMAIN numbered
    <3>1. m[f] = given[f] /\ f \in DOMAIN given
      BY <1>5, <1>6, <2>1
    <3> QED BY <1>4, <3>1
  <2>2. CASE f \notin DOMAIN numbered
    <3>1. f \in DOMAIN EmptyMessage /\ f \notin DOMAIN options /\ f \notin DOMAIN d
      BY <1>4, <1>5, <1>7, <2>2 DEF Passed
    <3> QED BY <1>6, <2>2, <3>1
  <2> QED BY <2>1, <2>2
<1>10. \A f \in {"from", "data", "gasToken"} : m[f].kind = "string"
  <2> SUFFICES ASSUME NEW f \in {"from", "data", "gasToken"} PROVE m[f].kind = "string"
    OBVIOUS
  <2>1. f \in Fields \ {"nonce"} /\ f \notin Amounts
    BY DEF Fields, Amounts
  <2>2. CASE f \in DOMAIN options
    <3>1. f \in {"from", "data"}
      BY <2>1, <2>2 DEF Passed
    <3> QED BY <1>9, <2>1, <2>2, <3>1 DEF Passed
  <2>3. CASE f \notin DOMAIN options
    <3>1. f # "from"
      BY <2>3 DEF Passed
    <3>2. CASE f \in DOMAIN d
      <4>1. m[f] = d[f] /\ f \in {"data", "gasToken"}
        BY <1>3, <1>9, <2>1, <2>3, <3>1, <3>2
      <4> QED BY <1>3, <3>2, <4>1
    <3>3. CASE f \notin DOMAIN d
      <4>1. m[f] = EmptyMessage[f]
        BY <1>9, <2>1, <2>3, <3>3
      <4> QED BY <1>7, <3>1, <4>1
    <3> QED BY <3>2, <3>3
  <2> QED BY <2>2, <2>3
<1>11. m["operationType"] = Held("number", 0)
  <2>1. "operationType" \in Fields \ {"nonce"} /\ "operationType" \notin DOMAIN options
    BY DEF Fields, Passed, Amounts
  <2> QED BY <1>3, <1>9, <2>1
<1>12. \A f \in Amounts : m[f] # Undefined => m[f].kind \in AmountKinds
  <2> SUFFICES ASSUME NEW f \in Amounts, m[f] # Undefined PROVE m[f].kind \in AmountKinds
    OBVIOUS
  <2>1. f \in Fields \ {"nonce"}
    BY DEF Fields, Amounts
  <2>2. CASE f \in DOMAIN options
    <3>1. m[f] = options[f] /\ options[f] \in Amount
      BY <1>9, <2>1, <2>2 DEF Passed
    <3> QED BY <3>1, PassedFacts
  <2>3. CASE f \notin DOMAIN options
    <3>1. m[f] = IF f \in DOMAIN d THEN d[f] ELSE EmptyMessage[f]
      BY <1>9, <2>1, <2>3
    <3> QED BY <1>3, <1>7, <3>1
  <2> QED BY <2>2, <2>3
<1>13. /\ "to" \in DOMAIN options => m["to"].kind = "string"
       /\ "to" \notin DOMAIN options => m["to"].kind = "empty"
  <2>1. "to" \in Fields \ {"nonce"} /\ "to" \notin DOMAIN d
    BY <1>3 DEF Fields
  <2> QED BY <1>7, <1>9, <2>1 DEF Passed
<1>14. ASSUME \A f \in Amounts : m[f] # Undefined, m["to"].kind # "empty" PROVE Signable(m)
  <2>1. \A f \in Amounts : m[f].kind \in {"number", "string", "bigNumber"}
    BY <1>12, <1>14 DEF AmountKinds
  <2>2. m["to"].kind = "string"
    BY <1>14, <1>13
  <2>3. \A f \in Fields : m[f].kind # "undefined"
    BY <1>8, <1>10, <1>11, <2>1, <2>2, HeldFacts DEF Fields, Amounts
  <2>4. \A f \in {"from", "to", "data", "gasToken"} : m[f].kind = "string"
    BY <1>10, <2>2
  <2> QED BY <1>8, <1>11, <2>1, <2>3, <2>4 DEF Signable, Given
<1>15. ASSUME \A f \in DOMAIN options \cap Amounts : options[f] # Undefined, NEW f \in Amounts
       PROVE  m[f] # Undefined
  <2>1. f \in Fields \ {"nonce"}
    BY DEF Fields, Amounts
  <2>2. CASE f \in DOMAIN options
    BY <1>9, <1>15, <2>1, <2>2
  <2>3. CASE f \notin DOMAIN options
    <3>1. m[f] = IF f \in DOMAIN d THEN d[f] ELSE EmptyMessage[f]
      BY <1>9, <2>1, <2>3
    <3>2. m[f].kind \in AmountKinds
      BY <1>3, <1>7, <3>1
    <3> QED BY <3>2, HeldFacts DEF AmountKinds
  <2> QED BY <2>2, <2>3
<1>16. "string" # "empty"
  OBVIOUS
<1> QED BY <1>1, <1>14, <1>15, <1>13, <1>16

LEMMA OptionalFacts ==
  ASSUME NEW field, NEW values, NEW v \in Optional(field, values)
  PROVE  DOMAIN v \subseteq {field} /\ \A f \in DOMAIN v : v[f] \in values
BY DEF Optional

LEMMA OptionsFacts ==
  /\ \A o \in Options :
       /\ DOMAIN o \subseteq Amounts \cup {"nonce"} /\ \A f \in DOMAIN o \cap Amounts : o[f] \in Amount
       /\ "nonce" \in DOMAIN o => o["nonce"] \in Nonce
  /\ \A r \in Requests :
       /\ DOMAIN r \subseteq Amounts \cup {"to"} /\ \A f \in DOMAIN r \cap Amounts : r[f] \in Amount
       /\ "to" \in DOMAIN r => r["to"] \in Recipient
<1>1. "nonce" \notin Amounts /\ "to" \notin Amounts
  BY DEF Amounts
<1>2. \A a \in AmountOptions : DOMAIN a \subseteq Amounts /\ \A f \in DOMAIN a : a[f] \in Amount
  BY DEF AmountOptions
<1>3. ASSUME NEW a \in AmountOptions, NEW field, field \notin Amounts, NEW values,
             NEW v \in Optional(field, values)
      PROVE  /\ DOMAIN Spread(a, v) \subseteq Amounts \cup {field}
             /\ \A f \in DOMAIN Spread(a, v) \cap Amounts : Spread(a, v)[f] \in Amount
             /\ field \in DOMAIN Spread(a, v) => Spread(a, v)[field] \in values
  <2> DEFINE m == Spread(a, v)
  <2>1. DOMAIN a \subseteq Amounts /\ \A f \in DOMAIN a : a[f] \in Amount
    BY <1>2
  <2>2. DOMAIN v \subseteq {field} /\ \A f \in DOMAIN v : v[f] \in values
    BY OptionalFacts
  <2>3. /\ DOMAIN m = DOMAIN a \cup DOMAIN v
        /\ \A f \in DOMAIN v : m[f] = v[f]
        /\ \A f \in DOMAIN a \ DOMAIN v : m[f] = a[f]
    BY SpreadFacts
  <2> HIDE DEF m
  <2>4. \A f \in DOMAIN m \cap Amounts : m[f] \in Amount
    BY <1>3, <2>1, <2>2, <2>3
  <2>5. field \in DOMAIN m => m[field] \in values
    BY <1>3, <2>1, <2>2, <2>3
  <2> QED BY <2>1, <2>2, <2>3, <2>4, <2>5 DEF m
<1>4. ASSUME NEW o \in Options
      PROVE  /\ DOMAIN o \subseteq Amounts \cup {"nonce"} /\ \A f \in DOMAIN o \cap Amounts : o[f] \in Amount
             /\ "nonce" \in DOMAIN o => o["nonce"] \in Nonce
  <2>1. PICK a \in AmountOptions, v \in Optional("nonce", Nonce) : o = Spread(a, v)
    BY DEF Options
  <2> QED BY <1>1, <1>3, <2>1
<1>5. ASSUME NEW r \in Requests
      PROVE  /\ DOMAIN r \subseteq Amounts \cup {"to"} /\ \A f \in DOMAIN r \cap Amounts : r[f] \in Amount
             /\ "to" \in DOMAIN r => r["to"] \in Recipient
  <2>1. PICK a \in AmountOptions, v \in Optional("to", Recipient) : r = Spread(a, v)
    BY DEF Requests
  <2> QED BY <1>1, <1>3, <2>1
<1> QED BY <1>4, <1>5

LEMMA SelfExecutePasses ==
  ASSUME NEW o \in Options PROVE Passed(SelfExecute(o)) /\ "to" \in DOMAIN SelfExecute(o)
<1> DEFINE own == [to |-> Held("string", Wallet), from |-> Held("string", Wallet),
                   data |-> Held("string", 1)]
           m == Spread(o, own)
<1>1. /\ DOMAIN own = {"to", "from", "data"}
      /\ \A f \in {"to", "from", "data"} : own[f].kind = "string"
  BY HeldFacts
<1> HIDE DEF own
<1>2. /\ DOMAIN m = DOMAIN o \cup DOMAIN own
      /\ \A f \in DOMAIN own : m[f] = own[f]
      /\ \A f \in DOMAIN o \ DOMAIN own : m[f] = o[f]
  BY SpreadFacts
<1> HIDE DEF m
<1>3. {"to", "from", "data"} \cap (Amounts \cup {"nonce"}) = {}
  BY DEF Amounts
<1>4. Passed(m) /\ "to" \in DOMAIN m
  BY <1>1, <1>2, <1>3, OptionsFacts DEF Passed
<1> QED BY <1>4 DEF m, own, SelfExecute

LEMMA FromRequestPasses ==
  ASSUME NEW r \in Requests
  PROVE  /\ Passed(FromRequest(r))
         /\ \A f \in DOMAIN FromRequest(r) \cap Amounts : FromRequest(r)[f] # Undefined
<1> DEFINE own == [from |-> Held("string", Wallet)]
           given == {f \in DOMAIN r \cap (Amounts \cup {"to", "data"}) : r[f] # Undefined}
           copied == [f \in given |-> r[f]]
           m == Spread(own, copied)
<1>1. DOMAIN own = {"from"} /\ own["from"].kind = "string"
  BY HeldFacts
<1>2. DOMAIN copied = given /\ \A f \in given : copied[f] = r[f]
  OBVIOUS
<1>3. given \subseteq Amounts \cup {"to"} /\ \A f \in given : f \in DOMAIN r /\ r[f] # Undefined
  BY OptionsFacts DEF Amounts
<1>4. "to" \in given => r["to"].kind = "string"
  BY <1>3, OptionsFacts, HeldFacts DEF Recipient
<1> HIDE DEF own, given, copied
<1>5. /\ DOMAIN m = DOMAIN own \cup DOMAIN copied
      /\ \A f \in DOMAIN copied : m[f] = copied[f]
      /\ \A f \in DOMAIN own \ DOMAIN copied : m[f] = own[f]
  BY SpreadFacts
<1> HIDE DEF m
<1>6. {"from", "to", "data", "nonce"} \cap Amounts = {}
  BY DEF Amounts
<1>7. Passed(m)
  <2>1. DOMAIN m = {"from"} \cup given /\ \A f \in given : m[f] = r[f]
    BY <1>1, <1>2, <1>5
  <2>2. m["from"].kind = "string"
    BY <1>1, <1>2, <1>3, <1>5, <1>6
  <2>3. \A f \in given \cap Amounts : r[f] \in Amount
    BY <1>3, OptionsFacts
  <2> QED BY <1>3, <1>4, <1>6, <2>1, <2>2, <2>3 DEF Passed
<1>8. \A f \in DOMAIN m \cap Amounts : m[f] # Undefined
  BY <1>1, <1>2, <1>3, <1>5, <1>6
<1> QED BY <1>7, <1>8 DEF m, own, given, copied, FromRequest

LEMMA SignableHashable ==
  ASSUME NEW m
  PROVE  /\ Signable(m) => Hashable(m)
         /\ Hashable(m) => (\A f \in Amounts : m[f] # Undefined) /\ m["to"].kind # "empty"
<1>1. Amounts \subseteq Fields /\ "to" \in Fields
      /\ Fields = {"from", "to", "data", "gasToken", "operationType", "nonce"} \cup Amounts
  BY DEF Amounts, Fields
<1>2. ASSUME Signable(m), m["nonce"].kind # "empty" PROVE Hashable(m)
  <2>1. \A f \in Fields : m[f].kind # "empty"
    BY <1>1, <1>2, HeldFacts DEF Signable
  <2> QED BY <1>2, <2>1, FieldsFacts DEF Signable, Given, Hashable
<1>3. ASSUME Hashable(m) PROVE (\A f \in Amounts : m[f] # Undefined) /\ m["to"].kind # "empty"
  BY <1>1, <1>3, FieldsFacts, HeldFacts DEF Hashable
<1> QED BY <1>2, <1>3 DEF Signable

LEMMA EveryNonceFaithful == Faithful = 0..MaxNonce
<1> SUFFICES ASSUME NEW lastNonce \in 0..MaxNonce, NEW payment \in Payments
             PROVE  /\ \A o \in Options :
                         LET signed == Completed(SelfExecute(o), payment, lastNonce)
                         IN Hashable(signed) => KeepsMessage(signed)
                    /\ \A r \in Requests :
                         LET message == FromRequest(r)
                             signed == Completed(message, payment, lastNonce)
                         IN /\ Hashable(signed) => KeepsMessage(signed)
                            /\ Hashable(signed) <=> "to" \in DOMAIN message
  BY DEF Faithful
<1>1. lastNonce \in Nat
  BY BoundAssumption
<1>2. ASSUME NEW options, Passed(options), Hashable(Completed(options, payment, lastNonce))
      PROVE  KeepsMessage(Completed(options, payment, lastNonce))
  <2> DEFINE m == Completed(options, payment, lastNonce)
  <2>1. (\A f \in Amounts : m[f] # Undefined) /\ m["to"].kind # "empty"
    BY <1>2, SignableHashable
  <2>2. Signable(m)
    BY <1>1, <1>2, <2>1, CompletedFacts
  <2> QED BY <2>2, SignableKept
<1>3. ASSUME NEW r \in Requests
      PROVE  Hashable(Completed(FromRequest(r), payment, lastNonce)) <=> "to" \in DOMAIN FromRequest(r)
  <2> DEFINE options == FromRequest(r)
             m == Completed(options, payment, lastNonce)
  <2>1. Passed(options) /\ \A f \in DOMAIN options \cap Amounts : options[f] # Undefined
    BY FromRequestPasses
  <2> HIDE DEF options
  <2>2. /\ (\A f \in Amounts : m[f] # Undefined) /\ m["to"].kind # "empty" => Signable(m)
        /\ \A f \in Amounts : m[f] # Undefined
        /\ m["to"].kind # "empty" <=> "to" \in DOMAIN options
    BY <1>1, <2>1, CompletedFacts
  <2> HIDE DEF m
  <2>3. Hashable(m) <=> "to" \in DOMAIN options
    BY <2>2, SignableHashable
  <2> QED BY <2>3 DEF m, options
<1> QED BY <1>2, <1>3, SelfExecutePasses, FromRequestPasses

\* The bound on nonces, for the storages that a revert may bring back as well.
NonceBounded ==
  wallet.nonce <= MaxNonce /\ \A i \in 1..depth : frame[i].saved.nonce < MaxNonce

LEMMA NonceStep == ASSUME IInv, NonceBounded, [Next]_vars PROVE NonceBounded'
<1> USE DEF NonceBounded
<1>1. CASE UNCHANGED vars
  BY <1>1 DEF vars
<1>2. ASSUME NEW sender \in Accounts \cup Contracts, NEW op \in Ops, DirectCall(sender, op)
      PROVE  NonceBounded'
  <2>1. wallet'.nonce = wallet.nonce /\ depth' = depth /\ frame' = frame
    BY <1>2, EffectOK, AddressFacts DEF DirectCall, IInv, TypeOK
  <2> QED BY <2>1
<1>3. ASSUME NEW op \in Ops, NEW nonce \in 0..MaxNonce, NEW sigs \in Signatures,
             BeginExecute(op, nonce, sigs)
      PROVE  NonceBounded'
  <2>1. /\ depth \in Nat /\ depth + 1 \in 1..MaxDepth /\ depth' = depth + 1
        /\ wallet \in WalletState /\ wallet' = SpendNonce(wallet) /\ wallet.nonce < MaxNonce
    BY <1>3, SavedFacts, BoundAssumption DEF BeginExecute, Acceptable
  <2>2. wallet'.nonce = wallet.nonce + 1 /\ wallet.nonce \in Nat
    BY <2>1 DEF SpendNonce, WalletState
  <2>3. frame'[depth + 1].saved = wallet /\ \A i \in 1..depth : frame'[i] = frame[i]
    BY <1>3, <2>1, SavedFacts DEF BeginExecute
  <2>4. \A i \in 1..depth' : i \in 1..depth \/ i = depth + 1
    BY <2>1
  <2> QED BY <2>1, <2>2, <2>3, <2>4, BoundAssumption
<1>4. ASSUME depth > 0, Pop(depth), wallet'.nonce <= MaxNonce PROVE NonceBounded'
  <2>1. /\ depth \in 1..MaxDepth /\ depth' = depth - 1
        /\ frame' = [frame EXCEPT ![depth] = NoFrame] /\ DOMAIN frame = 1..MaxDepth
    BY <1>4, SavedFacts DEF Pop
  <2>2. \A i \in 1..depth' : i \in 1..depth /\ frame'[i] = frame[i]
    BY <2>1, BoundAssumption
  <2> QED BY <1>4, <2>2
<1>5. ASSUME depth > 0
      PROVE  /\ frame[depth].saved.nonce < MaxNonce /\ frame[depth].saved.nonce \in Nat
             /\ SpendNonce(frame[depth].saved).nonce = frame[depth].saved.nonce + 1
  <2>1. depth \in 1..depth /\ frame[depth].saved \in WalletState
    BY <1>5, SavedFacts
  <2> QED BY <2>1 DEF SpendNonce, WalletState
<1>6. ASSUME NEW success \in BOOLEAN, FinishCall(success) PROVE NonceBounded'
  <2>1. /\ depth > 0 /\ Pop(depth)
        /\ wallet'.nonce = IF success THEN wallet.nonce ELSE SpendNonce(frame[depth].saved).nonce
    BY <1>6, SavedFacts DEF FinishCall, Logged, SpendNonce, WalletState
  <2> QED BY <1>4, <1>5, <2>1, BoundAssumption
<1>7. ASSUME NEW success \in BOOLEAN, FinishSelfCall(success) PROVE NonceBounded'
  <2> DEFINE op == frame[depth].op
             base == IF success THEN Effect(wallet, op) ELSE wallet
  <2>1. /\ depth > 0 /\ Pop(depth) /\ (success => Permitted(wallet, Wallet, op))
        /\ wallet' = Logged(base, frame[depth], success)
    BY <1>7 DEF FinishSelfCall
  <2>2. base \in WalletState /\ base.nonce = wallet.nonce
    <3>1. wallet \in WalletState /\ KeysOK(wallet) /\ op \in Ops /\ Wallet \in Address
      BY <2>1, InnermostFrame, AddressFacts DEF IInv, TypeOK
    <3>2. CASE success
      BY <2>1, <3>1, <3>2, EffectOK
    <3>3. CASE ~success
      BY <3>1, <3>3
    <3> QED BY <3>2, <3>3
  <2> HIDE DEF base
  <2>3. wallet'.nonce = wallet.nonce
    BY <2>1, <2>2 DEF Logged, WalletState
  <2>4. wallet'.nonce <= MaxNonce
    BY <2>3
  <2> QED BY <1>4, <2>1, <2>4
<1>8. CASE RevertExecute
  BY <1>4, <1>5, <1>8, BoundAssumption DEF RevertExecute
<1> QED BY <1>1, <1>2, <1>3, <1>6, <1>7, <1>8 DEF Next

-----------------------------------------------------------------------------
(***************************************************************************)
(* Theorems.                                                               *)
(***************************************************************************)
\* executeSigned takes what the relayer made of the owners' signatures for the
\* message they signed, in whatever order they came, and for no other message;
\* and from nobody else, nor one signature twice.
THEOREM SignaturesAccepted == Spec => []CollectedSignaturesAccepted
<1>1. IInv => CollectedSignaturesAccepted
  <2> SUFFICES ASSUME IInv, NEW d \in Deliveries
               PROVE  SignaturesValid(wallet, d.signers) <=>
                        /\ d.intact
                        /\ \A i \in DOMAIN d.keys : d.keys[i] \in wallet.owners
                        /\ \A i, j \in DOMAIN d.keys : d.keys[i] = d.keys[j] => i = j
    BY DEF CollectedSignaturesAccepted
  <2>0. PICK m \in Messages, other \in Messages, keys \in SignedBy :
          /\ other.from = Wallet
          /\ d = [keys |-> keys, intact |-> other = m, signers |-> SignersOf(m, other, keys)]
    BY DEF Deliveries, SignersOf
  <2> DEFINE signers == SignersOf(m, other, keys)
  <2>1. m \in Message /\ other \in Message
    BY DEF Messages
  <2>2. PICK n \in 1..MaxSignatures : keys \in [1..n -> Accounts]
    BY DEF SignedBy
  <2>3. n \in Nat /\ 1 \in 1..n /\ DOMAIN keys = 1..n
    BY <2>2, BoundAssumption
  <2> HIDE DEF signers
  <2>4. PICK place : PlacedAt(place, signers, keys, n, other = m)
    <3>1. \E place : PlacedAt(place, SignersOf(m, other, keys), keys, n, other = m)
      BY <2>0, <2>1, <2>2, <2>3, SignersFacts, Zenon
    <3> QED BY <3>1 DEF signers
  <2> USE DEF PlacedAt
  <2>5. \A i \in 1..n : keys[i] \in Nat \ {0} /\ keys[i] \in Address
    BY <2>2, AddressAssumption DEF Address
  <2>6. CASE other # m
    <3>1. signers[1] = NULL_ADDRESS /\ DOMAIN signers = 1..n
      BY <2>3, <2>4, <2>6
    <3>2. ~SignaturesValid(wallet, signers)
      BY <2>3, <3>1 DEF SignaturesValid, NULL_ADDRESS
    <3> QED BY <2>0, <2>6, <3>2 DEF signers
  <2>7. CASE other = m
    <3>1. DOMAIN signers = 1..n /\ \A k \in 1..n : signers[k] = keys[place[k]]
      BY <2>4, <2>7
    <3>2. signers \in Seq(Address)
      <4>1. signers \in [1..n -> Address]
        BY <2>4, <2>5, <2>7 DEF NULL_ADDRESS
      <4> QED BY <2>3, <4>1
    <3>3. ASSUME SignaturesValid(wallet, signers)
          PROVE  /\ \A i \in 1..n : keys[i] \in wallet.owners
                 /\ Distinct(keys, n)
      <4>1. \A k \in 1..n : signers[k] \in wallet.owners
        BY <3>1, <3>3 DEF SignaturesValid
      <4>2. \A k, l \in 1..n : k < l => keys[place[k]] < keys[place[l]]
        <5>1. wallet \in WalletState
          BY DEF IInv, TypeOK
        <5>2. \A k, l \in DOMAIN signers : k < l => signers[k] < signers[l]
          BY <3>2, <3>3, <5>1, SignersAscend
        <5> QED BY <3>1, <5>2
      <4>3. ASSUME NEW i \in 1..n, NEW j \in 1..n, keys[i] = keys[j] PROVE i = j
        <5>1. PICK k \in 1..n, l \in 1..n : place[k] = i /\ place[l] = j
          BY <2>4
        <5>2. (k < l => keys[i] < keys[j]) /\ (l < k => keys[j] < keys[i])
          BY <4>2, <5>1
        <5>3. ~(k < l) /\ ~(l < k)
          BY <2>5, <4>3, <5>2
        <5> QED BY <5>1, <5>3
      <4>4. ASSUME NEW i \in 1..n PROVE keys[i] \in wallet.owners
        <5>1. PICK k \in 1..n : place[k] = i
          BY <2>4
        <5> QED BY <3>1, <4>1, <5>1
      <4> QED BY <4>3, <4>4 DEF Distinct
    <3>4. ASSUME \A i \in 1..n : keys[i] \in wallet.owners, Distinct(keys, n)
          PROVE  SignaturesValid(wallet, signers)
      <4>1. \A k, l \in 1..n : k < l => signers[k] < signers[l]
        <5>1. \A k, l \in 1..n : k < l => keys[place[k]] < keys[place[l]]
          BY <2>4, <3>4
        <5> QED BY <3>1, <5>1
      <4>2. \A k \in 1..n : place[k] \in 1..n
        BY <2>4
      <4>3. \A k \in 1..n : signers[k] \in wallet.owners /\ signers[k] > NULL_ADDRESS
        BY <2>5, <3>1, <3>4, <4>2 DEF NULL_ADDRESS
      <4>4. \A k \in 1..n : k # 1 => signers[k] > signers[k - 1]
        <5> SUFFICES ASSUME NEW k \in 1..n, k # 1 PROVE signers[k] > signers[k - 1]
          OBVIOUS
        <5>1. k - 1 \in 1..n /\ k - 1 < k
          BY <2>3
        <5>2. signers[k - 1] < signers[k] /\ signers[k - 1] \in Nat /\ signers[k] \in Nat
          BY <2>5, <3>1, <4>1, <4>2, <5>1
        <5> QED BY <5>2
      <4> QED BY <3>1, <4>3, <4>4 DEF SignaturesValid
    <3> QED BY <2>0, <2>3, <2>7, <3>3, <3>4 DEF signers, Distinct
  <2> QED BY <2>6, <2>7
<1> QED BY <1>1, Invariance, PTL

\* Whatever an application passes for the fields of a message, the relayer
\* accepts what the SDK posts and gets the hash that was signed, now and from its
\* database.  From the transaction it sends it decodes each field as it was, but
\* for the nonce, which parseInt(nonce, 16) reads right exactly when it has one
\* digit.
THEOREM SentAsSigned == Spec => []SignedAsSent
<1>1. Init => NonceBounded
  BY BoundAssumption DEF Init, NonceBounded
<1>2. IInv /\ NonceBounded => SignedAsSent
  BY EveryNonceFaithful, BoundAssumption DEF IInv, TypeOK, WalletState, NonceBounded, SignedAsSent
<1> QED BY <1>1, <1>2, NonceStep, InitIInv, NextIInv, PTL DEF Spec
=============================================================================
