---------------------------- MODULE MessageFormats ----------------------------
(***************************************************************************)
(* The forms a message takes on its way from an application to the chain.  *)
(* The SDK completes and signs it, turns its amounts into strings and      *)
(* posts it; the relayer's sanitizers turn them into big numbers, the      *)
(* repository stores strings and reads big numbers, the executor encodes   *)
(* arguments, onTransactionSent decodes them.  Both sides hash a form of   *)
(* their own, and have to get one hash.                                    *)
(*                                                                         *)
(* A field holds a number as a JavaScript number, string or BigNumber, or  *)
(* it is undefined or an empty string; as JSON a BigNumber is an object.   *)
(***************************************************************************)
EXTENDS SignedMessages

CONSTANT Numbers   \* nonces that an application may pass

ASSUME NumbersAssumption == Numbers \subseteq Nat

\* {...base, ...override}.
Spread(base, override) ==
  [f \in DOMAIN base \cup DOMAIN override |->
     IF f \in DOMAIN override THEN override[f] ELSE base[f]]

Held(kind, n) == [kind |-> kind, n |-> n]
Undefined == Held("undefined", 0)
Truthy(v) == v.kind \in {"string", "bigNumber"} \/ (v.kind = "number" /\ v.n # 0)

Amounts == {"value", "gasLimit", "gasPrice"}

\* What an application may pass for an amount and for a nonce, if it does.
Amount == {Undefined} \cup {Held(kind, n) : kind \in {"number", "string", "bigNumber"}, n \in Field}
Nonce == {Undefined} \cup {Held(kind, n) : kind \in {"number", "string"}, n \in Numbers}

\* And for the address to call.
Recipient == {Undefined, Held("string", 1)}

-----------------------------------------------------------------------------
(***************************************************************************)
(* The SDK.                                                                *)
(***************************************************************************)
MESSAGE_DEFAULTS ==
  [gasPrice |-> Held("number", 1), gasLimit |-> Held("number", 1), value |-> Held("number", 0),
   operationType |-> Held("number", 0), data |-> Held("string", 0)]

\* Its recipient is no address.
EmptyMessage ==
  [to |-> Held("empty", 0), value |-> Held("bigNumber", 0), data |-> Held("string", 0),
   nonce |-> Held("number", 0), gasPrice |-> Held("bigNumber", 1), gasLimit |-> Held("bigNumber", 1),
   gasToken |-> Held("string", 0), operationType |-> Held("number", 0)]

\* Variant: the fields are copied whether they are defined or not.
FromRequestAnyway(request) ==
  Spread([from |-> Held("string", Wallet)],
         [f \in DOMAIN request \cap (Amounts \cup {"to", "data"}) |-> request[f]])

\* SdkSigner.sendTransaction passes on these fields, unless they are undefined.
FromRequest(request) ==
  LET given == {f \in DOMAIN request \cap (Amounts \cup {"to", "data"}) : request[f] # Undefined}
  IN Spread([from |-> Held("string", Wallet)], [f \in given |-> request[f]])

\* selfExecute: a message of the wallet to itself.
SelfExecute(details) ==
  Spread(details, [to |-> Held("string", Wallet), from |-> Held("string", Wallet),
                   data |-> Held("string", 1)])

\* The constructor of the SDK, for what an application pays with.
DefaultPaymentOptions(payment) == Spread(MESSAGE_DEFAULTS, payment)

\* createSignedMessage, before it signs.  A field that is passed as undefined
\* hides the default, here and above.
Unsigned(override) == Spread(EmptyMessage, override)

\* sdk.execute, with what lastNonce of the wallet was: a nonce of 0 is none.
Completed(options, payment, lastNonce) ==
  LET given == "nonce" \in DOMAIN options /\ Truthy(options["nonce"])
      nonce == IF given THEN options["nonce"] ELSE Held("number", lastNonce)
  IN Unsigned(Spread(Spread(DefaultPaymentOptions(payment), options), [nonce |-> nonce]))

\* Variant: the nonce is posted as it is.
StringifiedAmounts(m) ==
  [f \in DOMAIN m |-> IF f \in Amounts /\ Truthy(m[f]) THEN Held("string", m[f].n) ELSE m[f]]

\* stringifySignedMessageFields: an amount that is 0 or undefined stays what it is.
Stringified(m) ==
  [f \in DOMAIN m |->
     IF f = "nonce" \/ (f \in Amounts /\ Truthy(m[f])) THEN Held("string", m[f].n) ELSE m[f]]

\* What JSON makes of it.
Posted(m) ==
  [f \in {g \in DOMAIN m : m[g] # Undefined} |->
     IF m[f].kind = "bigNumber" THEN Held("object", m[f].n) ELSE m[f]]

-----------------------------------------------------------------------------
(***************************************************************************)
(* The relayer.                                                            *)
(***************************************************************************)
\* The sanitizers of POST /wallet/execution: which kinds a field may come as.
Accepts(f) ==
  CASE f \in Amounts -> {"number", "string"} [] f = "operationType" -> {"number"} [] OTHER -> {"string"}
Sanitizes(m) == \A f \in DOMAIN BaseMessage : f \in DOMAIN m /\ m[f].kind \in Accepts(f)

\* asBigNumberish; bignumberifySignedMessageFields does the same to a stored row.
Bignumberified(m) ==
  [f \in DOMAIN m |-> IF f \in Amounts THEN Held("bigNumber", m[f].n) ELSE m[f]]

\* MessageSQLRepository.add, the JSON column, and get.
Restored(m) == Bignumberified(Posted(Stringified(m)))

\* What the hash and the encoding see: the number, whatever holds it.
Plain(m) == [f \in DOMAIN BaseMessage |-> m[f].n]
Hashable(m) ==
  \A f \in DOMAIN BaseMessage : f \in DOMAIN m /\ m[f].kind \notin {"undefined", "empty"}

\* parseInt(n, 16) of a BigNumber, which is printed in decimal digits.
ParseInt16(n) ==
  LET parsed[k \in 0..n] == IF k < 10 THEN k ELSE 16 * parsed[k \div 10] + (k % 10)
  IN parsed[n]

\* decodeDataForExecuteSigned: the message of a transaction, but for its wallet.
Decoded(args) ==
  [to |-> args[1], value |-> args[2], data |-> args[3], nonce |-> ParseInt16(args[4]),
   gasPrice |-> args[5], gasToken |-> args[6], gasLimit |-> args[7],
   operationType |-> ParseInt16(args[8]), signature |-> args[9]]

-----------------------------------------------------------------------------
Optional(field, values) == {[f \in {} |-> Undefined]} \cup {[f \in {field} |-> v] : v \in values}

\* The options an application may leave out, and what it may pass for them: to
\* the SDK, and in the requests to a signer.
AmountOptions == UNION {[fields -> Amount] : fields \in SUBSET Amounts}
Options == {Spread(a, nonce) : a \in AmountOptions, nonce \in Optional("nonce", Nonce)}
Requests == {Spread(a, to) : a \in AmountOptions, to \in Optional("to", Recipient)}

Payments == {[f \in {} |-> Undefined], [gasToken |-> Held("string", 1)]}

\* The relayer has the hash that was signed, from the post and from the row.  In
\* its transaction it finds the fields again, but for a nonce of two digits.
KeepsMessage(m) ==
  LET received == Bignumberified(Posted(Stringified(m)))
      restored == Restored(received)
      decoded == Decoded(Encoded(Plain(restored), << >>))
  IN /\ Sanitizes(Posted(Stringified(m)))
     /\ CalculateMessageHash(Plain(received)) = CalculateMessageHash(Plain(m))
     /\ Plain(restored) = Plain(received)
     /\ \A f \in DOMAIN BaseMessage \ {"from", "nonce"} : decoded[f] = Plain(m)[f]
     /\ decoded["nonce"] = Plain(m)["nonce"] <=> Plain(m)["nonce"] < 10

\* What lastNonce may be for the SDK to sign and the relayer to accept and hash
\* whatever mixture an application passes, its requests to a signer included.
Faithful ==
  {lastNonce \in 0..MaxNonce : \A payment \in Payments :
     /\ \A o \in Options :
          LET signed == Completed(SelfExecute(o), payment, lastNonce)
          IN Hashable(signed) => KeepsMessage(signed)
     /\ \A r \in Requests :
          LET message == FromRequest(r)
              signed == Completed(message, payment, lastNonce)
          IN /\ Hashable(signed) => KeepsMessage(signed)
             /\ Hashable(signed) <=> "to" \in DOMAIN message}

\* Whatever mixture of numbers, strings, BigNumbers and undefined fields an
\* application passes, with the nonce the wallet has reached: what the SDK can
\* sign, the relayer accepts and hashes alike, and it finds each field again in
\* its transaction, except for a nonce from 10 on, which it always misreads; of
\* a signer's requests the SDK can sign those that say whom to call.
SignedAsSent == wallet.nonce \in Faithful
=============================================================================
