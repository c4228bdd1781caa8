---------------------------- MODULE DurableQueue ----------------------------
(***************************************************************************)
(* What the relayer promises about the signed messages it has queued.      *)
(* They wait in the order they came; the oldest is the one being decided;  *)
(* it leaves once its outcome is recorded, and an outcome recorded for an  *)
(* earlier queueing does not count.  Only what was queued is executed, at  *)
(* the position its nonce names, and what was executed stays.  Neither the *)
(* requests nor the loop nor a crash are visible here: nothing in these    *)
(* three variables is lost when the process ends.                          *)
(***************************************************************************)
EXTENDS Integers, Sequences

CONSTANTS Messages, NonceOf

VARIABLES
  waiting,    \* the messages queued, oldest first
  recorded,   \* the messages with an outcome since they were last queued
  executed    \* the messages the wallet has executed, in nonce order

Waits(m) == \E i \in DOMAIN waiting : waiting[i] = m

Init == waiting = << >> /\ recorded = {} /\ executed = << >>

\* A message is queued, perhaps once more.
Post(m) ==
  /\ ~Waits(m)
  /\ waiting' = Append(waiting, m)
  /\ recorded' = recorded \ {m}
  /\ UNCHANGED executed

Record ==
  /\ waiting # << >>
  /\ recorded' = recorded \cup {Head(waiting)}
  /\ UNCHANGED <<waiting, executed>>

Leave ==
  /\ waiting # << >> /\ Head(waiting) \in recorded
  /\ waiting' = Tail(waiting)
  /\ UNCHANGED <<recorded, executed>>

\* The wallet executes a message: while it waits, or after an outcome has been
\* recorded that did not stop its transaction.
Execute(m) ==
  /\ Waits(m) \/ m \in recorded
  /\ NonceOf[m] = Len(executed)
  /\ executed' = Append(executed, m)
  /\ UNCHANGED <<waiting, recorded>>

Next == \/ \E m \in Messages : Post(m) \/ Execute(m)
        \/ Record \/ Leave

Spec == Init /\ [][Next]_<<waiting, recorded, executed>>
=============================================================================
