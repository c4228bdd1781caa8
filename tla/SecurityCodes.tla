---------------------------- MODULE SecurityCodes ----------------------------
(***************************************************************************)
(* The code by which an owner recognises the request of the new device.    *)
(* The device shows the code of its key as emoji; the owner's form offers  *)
(* those emoji among fakes, in any order, and checks what is entered.      *)
(***************************************************************************)
EXTENDS Naturals, Sequences, SequencesExt   \* RemoveAt, Range

CONSTANTS
  Keys,
  Digest,         \* keccak256 of each key, as bytes
  FakeDigest,     \* keccak256 of each key with its hexadecimal digits reversed
  SECURITY_CODE_LENGTH

MASK == 1023

ASSUME DigestsAssumption ==
  /\ SECURITY_CODE_LENGTH \in Nat \ {0}
  /\ \A d \in {Digest, FakeDigest}, k \in Keys :
       d[k] \in Seq(0..255) /\ Len(d[k]) >= 2 * SECURITY_CODE_LENGTH

Slices(bytes) == [i \in 1..(Len(bytes) \div 2) |-> SubSeq(bytes, 2 * i - 1, 2 * i)]

\* Two bytes each, the higher one first.
Array8bitTo16bit(bytes) ==
  LET pair == Slices(bytes) IN [i \in DOMAIN pair |-> pair[i][1] * 256 + pair[i][2]]

GenerateCode(digest) ==
  LET words == Array8bitTo16bit(digest)
  IN [i \in 1..SECURITY_CODE_LENGTH |-> words[i] % (MASK + 1)]

\* Variant: the two places are assigned one after the other.
SwappedInTurn(s, i, j) == LET t == [s EXCEPT ![i] = s[j]] IN [t EXCEPT ![j] = t[i]]

Swapped(s, i, j) == [s EXCEPT ![i] = s[j], ![j] = s[i]]

\* What Math.random may choose for each place, from the last to the second.
RandomPlaces(n) == {c \in [2..n -> 1..n] : \A i \in 2..n : c[i] <= i}

Shuffle(s, choice) ==
  LET after[n \in 0..(Len(s) - 1)] ==
        IF n = 0 THEN s
        ELSE LET i == Len(s) + 1 - n IN Swapped(after[n - 1], i, choice[i])
  IN after[Len(s) - 1]

CodeWithFakes(k) == GenerateCode(Digest[k]) \o GenerateCode(FakeDigest[k])

\* The orders in which the panel may show the emoji.
Panels(k) == {Shuffle(CodeWithFakes(k), c) : c \in RandomPlaces(2 * SECURITY_CODE_LENGTH)}

OnEmojiAdd(entered, emoji) ==
  IF Len(entered) < SECURITY_CODE_LENGTH THEN Append(entered, emoji) ELSE entered

OnEmojiRemove(entered, index) == RemoveAt(entered, index)

\* An emoji that is not shown cannot be clicked.
Clicked(entered, panel, emoji) ==
  IF emoji \in Range(panel) THEN OnEmojiAdd(entered, emoji) ELSE entered

\* What the form holds after clicks.
Entered(start, panel, emoji) ==
  LET after[n \in 0..Len(emoji)] ==
        IF n = 0 THEN start ELSE Clicked(after[n - 1], panel, emoji[n])
  IN after[Len(emoji)]

IsValidCode(entered, k) == entered = GenerateCode(Digest[k])

\* The owner reads the code on the device.  Any one emoji may have been clicked
\* by mistake before and removed, any may be clicked once the form is full.
Recognisable ==
  {k \in Keys : \A panel \in Panels(k) : \A slip \in Range(panel) :
     LET begun == OnEmojiRemove(Entered(<< >>, panel, <<slip>>), 1)
     IN IsValidCode(Entered(begun, panel, Append(GenerateCode(Digest[k]), slip)), k)}
=============================================================================
