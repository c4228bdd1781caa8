----------------------------- MODULE NonceLedger -----------------------------
(***************************************************************************)
(* What a wallet promises to whoever reads the blockchain: the signed      *)
(* messages it has executed form one history, position n + 1 holding the   *)
(* message that spent nonce n.  A committed transaction appends to that    *)
(* history, possibly several messages at once; nothing is ever rewritten,  *)
(* removed or skipped.                                                     *)
(***************************************************************************)
EXTENDS Integers, Sequences

VARIABLE ledger  \* the executed messages, in nonce order

Init == ledger = << >>

\* The ledger grows and keeps everything it already held.
Commit ==
  /\ Len(ledger') > Len(ledger)
  /\ \A n \in DOMAIN ledger : ledger'[n] = ledger[n]

Next == Commit

Spec == Init /\ [][Next]_ledger
=============================================================================
