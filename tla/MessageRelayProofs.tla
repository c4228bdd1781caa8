------------------------- MODULE MessageRelayProofs -------------------------
(***************************************************************************)
(* Invariants of MessageRelay for any messages, keys, requests, thresholds *)
(* and bounds.  The argument has five layers, each inductive given those   *)
(* before it: the types, the queue, the chain, the order, which is what    *)
(* the refinement of DurableQueue needs, and the count of what is sent.    *)
(***************************************************************************)
EXTENDS MessageRelay, SequenceTheorems, FiniteSetTheorems, TLAPS

\* The queue never holds a message twice (QueueSQLStore.ts:12-22).
QueuedAtMostOnce == \A i, j \in DOMAIN queue : queue[i] = queue[j] => i = j

\* What else the queue's invariants need: when the loop is about to remove an
\* item, the outcome is in the database.
RemovesSettled ==
  loop.pc = "remove" =>
    /\ message[loop.msg].state # "Pending"
    /\ loop.msg \in settled

QueueInv == QueuedAtMostOnce /\ PendingIsQueued /\ QueuedSurvives /\ RemovesSettled

\* What else HashMeansReceipt needs: the transaction waited for carries the
\* message in hand, and the wait ends with a receipt.
WaitsForOwnTx ==
  /\ Waiting => txs[loop.tx].msg = loop.msg
  /\ Waiting /\ loop.pc # "wait" => txs[loop.tx].status # "sent"

\* The loop has the oldest item in hand, and whatever it has ever sent, perhaps
\* before a crash, waits again or has its outcome.
LoopTakesOldest == Working => queue # << >> /\ queue[1] = loop.msg
SentWereQueued == \A i \in DOMAIN txs : Queued(txs[i].msg) \/ txs[i].msg \in settled

OrderInv == LoopTakesOldest /\ SentWereQueued

ChainInv == HashMeansReceipt /\ WaitsForOwnTx

-----------------------------------------------------------------------------
(***************************************************************************)
(* Types.                                                                  *)
(***************************************************************************)
\* The initial state has the types.
LEMMA TypeInit == Init => TypeOK
BY ParameterAssumption DEF Init, TypeOK, ParameterAssumption, MessageState, None, NoTx,
   Request, RequestPC, Loop, Waiting

\* The queue without an item is a queue of the other items, in order.
LEMMA WithoutType ==
  ASSUME NEW q \in Seq(Messages), NEW m
  PROVE  Without(q, m) \in Seq(Messages)
<1>1. CASE ~ \E i \in DOMAIN q : q[i] = m
  BY <1>1 DEF Without
<1>2. CASE \E i \in DOMAIN q : q[i] = m
  <2> DEFINE n == CHOOSE i \in DOMAIN q : q[i] = m
  <2>1. n \in 1..Len(q) /\ Len(q) \in Nat
    BY <1>2
  <2>2. Without(q, m) = [i \in 1..(Len(q) - 1) |-> IF i < n THEN q[i] ELSE q[i + 1]]
    BY <1>2 DEF Without
  <2> HIDE DEF n
  <2>3. \A i \in 1..(Len(q) - 1) : (IF i < n THEN q[i] ELSE q[i + 1]) \in Messages
    BY <2>1
  <2> QED BY <2>1, <2>2, <2>3
<1> QED BY <1>1, <1>2

\* A request that moves on stays a request, with its message and key.
LEMMA RequestMoves ==
  ASSUME TypeOK, NEW r \in Requests, req[r].pc # "idle",
         NEW pc \in RequestPC, NEW seen \in SUBSET Row,
         req' = [req EXCEPT ![r].pc = pc, ![r].seen = seen]
  PROVE  /\ req' \in [Requests -> Request]
         /\ req[r].msg \in Messages /\ req[r].key \in Keys
         /\ req'[r].pc = pc /\ req'[r].msg = req[r].msg
         /\ \A s \in Requests : s # r => req'[s] = req[s]
<1>1. req[r] \in Request /\ req \in [Requests -> Request]
  BY DEF TypeOK
<1>2. req[r] \in [pc : RequestPC, msg : Messages, key : Keys, seen : SUBSET Row]
  BY <1>1 DEF Request
<1> DEFINE moved == [req[r] EXCEPT !.pc = pc, !.seen = seen]
<1>3. moved \in Request /\ moved.pc = pc /\ moved.msg = req[r].msg
  BY <1>2 DEF Request
<1>4. req' = [req EXCEPT ![r] = moved]
  BY <1>1
<1> HIDE DEF moved
<1> QED BY <1>1, <1>2, <1>3, <1>4

LEMMA RequestGoto ==
  ASSUME TypeOK, NEW r \in Requests, req[r].pc # "idle", NEW pc \in RequestPC, Goto(r, pc)
  PROVE  /\ req' \in [Requests -> Request]
         /\ req[r].msg \in Messages /\ req[r].key \in Keys
         /\ req'[r].pc = pc /\ req'[r].msg = req[r].msg
         /\ \A s \in Requests : s # r => req'[s] = req[s]
<1>1. req' = [req EXCEPT ![r].pc = pc, ![r].seen = {}]
  BY DEF Goto
<1>2. {} \in SUBSET Row
  OBVIOUS
<1> QED BY <1>1, <1>2, RequestMoves

\* The steps of a request that only read.
ReadStep(r) ==
  \/ IsPresent(r) \/ CheckUnsent(r) \/ ContainSignature(r) \/ EnsureCorrectKeyPurpose(r)
  \/ IsEnough(r) \/ EnsureUnsent(r) \/ EnsureEnough(r) \/ RequestFails(r)

\* They leave everything but the request alone, and do not queue anything.
LEMMA ReadStepEffect ==
  ASSUME TypeOK, NEW r \in Requests, ReadStep(r)
  PROVE  /\ req' \in [Requests -> Request]
         /\ req'[r].pc \notin {"setQueued", "queued"}
         /\ \A s \in Requests : s # r => req'[s] = req[s]
         /\ UNCHANGED <<db, loop, chain, crashes, settled>>
<1> DEFINE Reads == RequestPC \ {"setQueued", "queued"}
<1>1. ASSUME req[r].pc # "idle", NEW pc \in Reads, Goto(r, pc)
      PROVE  /\ req' \in [Requests -> Request]
             /\ req'[r].pc \notin {"setQueued", "queued"}
             /\ \A s \in Requests : s # r => req'[s] = req[s]
  BY <1>1, RequestGoto
<1>2. ASSUME NEW from \in RequestPC, NEW test, NEW yes \in Reads, NEW no \in Reads,
             Decide(r, from, test, yes, no)
      PROVE  /\ req' \in [Requests -> Request]
             /\ req'[r].pc \notin {"setQueued", "queued"}
             /\ \A s \in Requests : s # r => req'[s] = req[s]
             /\ UNCHANGED <<db, loop, chain, crashes, settled>>
  <2>1. req[r].pc # "idle"
    BY <1>2 DEF Decide, At, RequestPC
  <2>2. (IF test THEN yes ELSE no) \in Reads
    BY <1>2
  <2>3. UNCHANGED <<db, loop, chain, crashes, settled>> /\ Goto(r, IF test THEN yes ELSE no)
    BY <1>2 DEF Decide
  <2> QED BY <1>1, <2>1, <2>2, <2>3
<1>3. ASSUME NEW from \in RequestPC, NEW to \in Reads, ReadRows(r, from, to)
      PROVE  /\ req' \in [Requests -> Request]
             /\ req'[r].pc \notin {"setQueued", "queued"}
             /\ \A s \in Requests : s # r => req'[s] = req[s]
             /\ UNCHANGED <<db, loop, chain, crashes, settled>>
  <2>1. req[r].pc # "idle"
    BY <1>3 DEF ReadRows, At, RequestPC
  <2>2. req[r].msg \in Messages
    BY <2>1 DEF TypeOK, Request
  <2>3. sigs[req[r].msg] \in SUBSET Row
    BY <2>2 DEF TypeOK
  <2>4. /\ req' = [req EXCEPT ![r].pc = to, ![r].seen = sigs[req[r].msg]]
        /\ UNCHANGED <<db, loop, chain, crashes, settled>>
    BY <1>3 DEF ReadRows
  <2> QED BY <1>3, <2>1, <2>3, <2>4, RequestMoves
<1>4. CASE RequestFails(r)
  <2>1. req[r].pc # "idle"
    BY <1>4 DEF RequestFails, Over
  <2>2. "failed" \in Reads
    BY DEF RequestPC
  <2> QED BY <1>1, <1>4, <2>1, <2>2 DEF RequestFails
<1>5. {"isPresent", "insert", "unsent", "contain", "purpose", "addSignature", "readRows", "enough",
       "ensureUnsent", "rereadRows", "ensureEnough", "enqueue", "accepted", "failed"} \subseteq Reads
  BY DEF RequestPC
<1> HIDE DEF Reads
<1>6. CASE IsPresent(r)
  BY <1>2, <1>5, <1>6 DEF IsPresent, Reads
<1>7. CASE CheckUnsent(r)
  BY <1>2, <1>5, <1>7 DEF CheckUnsent, Reads
<1>8. CASE ContainSignature(r)
  BY <1>2, <1>5, <1>8 DEF ContainSignature, Reads
<1>9. CASE EnsureCorrectKeyPurpose(r)
  BY <1>2, <1>5, <1>9 DEF EnsureCorrectKeyPurpose, Reads
<1>10. CASE IsEnough(r)
  BY <1>2, <1>3, <1>5, <1>10 DEF IsEnough, Reads
<1>11. CASE EnsureUnsent(r)
  BY <1>2, <1>5, <1>11 DEF EnsureUnsent, Reads
<1>12. CASE EnsureEnough(r)
  BY <1>2, <1>3, <1>5, <1>12 DEF EnsureEnough, Reads
<1> QED BY <1>4, <1>6, <1>7, <1>8, <1>9, <1>10, <1>11, <1>12 DEF ReadStep

\* The disjuncts of Next, named, with the reading steps as one.
LEMMA NextCases ==
  ASSUME Next
  PROVE  \/ \E r \in Requests, input \in Inputs : Receive(r, input[1], input[2])
         \/ \E r \in Requests : ReadStep(r) \/ InsertMessage(r) \/ AddSignature(r)
                                  \/ Enqueue(r) \/ SetQueued(r)
         \/ LoopStep
         \/ \E i \in DOMAIN txs, ok \in BOOLEAN : Mine(i, ok)
         \/ \E newOwners \in SUBSET Keys, newRequired \in Thresholds :
              ChangeWallet(newOwners, newRequired)
         \/ Crash \/ Restart
BY DEF Next, RequestStep, ReadStep, MineSome

\* A step of a request preserves the types.
LEMMA TypeRequest ==
  ASSUME TypeOK, NEW r \in Requests,
         ReadStep(r) \/ InsertMessage(r) \/ AddSignature(r) \/ Enqueue(r) \/ SetQueued(r)
  PROVE  TypeOK'
<1> USE DEF TypeOK, Waiting
<1>1. CASE ReadStep(r)
  <2>1. req' \in [Requests -> Request] /\ UNCHANGED <<db, loop, chain, crashes, settled>>
    BY <1>1, ReadStepEffect
  <2> QED BY <2>1 DEF db, chain
<1>2. CASE InsertMessage(r)
  <2>1. req' \in [Requests -> Request] /\ req[r].msg \in Messages
    BY <1>2, RequestGoto DEF InsertMessage, At, RequestPC
  <2>2. message' \in [Messages -> [state : MessageState \cup {None}, error : BOOLEAN, tx : Nat]]
    BY <1>2, <2>1 DEF InsertMessage, MessageState
  <2> QED BY <1>2, <2>1, <2>2 DEF InsertMessage, chain
<1>3. CASE AddSignature(r)
  <2>1. req' \in [Requests -> Request] /\ req[r].msg \in Messages /\ req[r].key \in Keys
    BY <1>3, RequestGoto DEF AddSignature, At, RequestPC
  <2>2. [key |-> req[r].key, by |-> r] \in Row
    BY <2>1 DEF Row
  <2>3. sigs' \in [Messages -> SUBSET Row]
    BY <1>3, <2>1, <2>2 DEF AddSignature
  <2> QED BY <1>3, <2>1, <2>3 DEF AddSignature, chain
<1>4. CASE Enqueue(r)
  <2>1. req' \in [Requests -> Request] /\ req[r].msg \in Messages
    BY <1>4, RequestGoto DEF Enqueue, At, RequestPC
  <2>2. queue' \in Seq(Messages) /\ settled' \in SUBSET Messages
    BY <1>4, <2>1 DEF Enqueue
  <2> QED BY <1>4, <2>1, <2>2 DEF Enqueue, chain
<1>5. CASE SetQueued(r)
  <2>1. req' \in [Requests -> Request] /\ req[r].msg \in Messages
    BY <1>5, RequestGoto DEF SetQueued, At, RequestPC
  <2>2. message' \in [Messages -> [state : MessageState \cup {None}, error : BOOLEAN, tx : Nat]]
    BY <1>5, <2>1 DEF SetQueued, MessageState
  <2> QED BY <1>5, <2>1, <2>2 DEF SetQueued, chain
<1> QED BY <1>1, <1>2, <1>3, <1>4, <1>5

\* What the loop holds while it works, by where it stands.
LEMMA LoopFacts ==
  ASSUME TypeOK
  PROVE  /\ Working => loop.msg \in Messages
         /\ LoopAt("validate") \/ LoopAt("send") => loop.rows \in SUBSET Row
         /\ Waiting => Working /\ loop.tx \in 1..Len(txs)
BY DEF TypeOK, Loop, Working, LoopAt, Waiting

\* A step of the loop preserves the types.
LEMMA TypeLoop == ASSUME TypeOK, LoopStep PROVE TypeOK'
<1> USE LoopFacts DEF TypeOK, LoopAt, LoopTo
<1> DEFINE MessageType == [state : MessageState \cup {None}, error : BOOLEAN, tx : Nat]
<1>1. CASE GetNext
  <2>1. loop' \in Loop /\ ~Waiting'
    BY <1>1 DEF GetNext, Loop, Waiting
  <2> QED BY <1>1, <2>1 DEF GetNext, db, chain
<1>2. CASE SetPending
  <2>1. loop' \in Loop /\ ~Waiting'
    BY <1>2 DEF SetPending, Loop, Waiting
  <2>2. message' \in [Messages -> MessageType]
    BY <1>2 DEF SetPending, MessageState, Working
  <2> QED BY <1>2, <2>1, <2>2 DEF SetPending, chain
<1>3. CASE GetMessage
  <2>1. loop' \in Loop /\ ~Waiting'
    BY <1>3 DEF GetMessage, Loop, Waiting, Working
  <2> QED BY <1>3, <2>1 DEF GetMessage, db, chain
<1>4. CASE Validate
  <2>1. loop' \in Loop /\ ~Waiting'
    BY <1>4 DEF Validate, Loop, Waiting
  <2> QED BY <1>4, <2>1 DEF Validate, db, chain
<1>5. CASE SendTransaction
  <2>1. [msg |-> loop.msg, rows |-> loop.rows, status |-> "sent"] \in Tx
    BY <1>5 DEF SendTransaction, Tx, Working
  <2>2. txs' \in Seq(Tx) /\ Len(txs') = Len(txs) + 1 /\ Len(txs) \in Nat
    BY <1>5, <2>1 DEF SendTransaction, Broadcast
  <2>3. loop' \in Loop /\ loop'.tx \in DOMAIN txs'
    BY <1>5, <2>2 DEF SendTransaction, Loop, Working
  <2> QED BY <1>5, <2>2, <2>3 DEF SendTransaction, db
<1>6. CASE SendFails
  <2>1. loop' \in Loop /\ ~Waiting'
    BY <1>6 DEF SendFails, Loop, Waiting, Working
  <2>2. [msg |-> loop.msg, rows |-> loop.rows, status |-> "sent"] \in Tx
    BY <1>6 DEF SendFails, Tx, Working
  <2>3. txs' \in Seq(Tx)
    <3>1. CASE Broadcast
      BY <2>2, <3>1 DEF Broadcast
    <3>2. CASE UNCHANGED txs
      BY <3>2
    <3> QED BY <1>6, <3>1, <3>2 DEF SendFails
  <2> QED BY <1>6, <2>1, <2>3 DEF SendFails, db
<1>7. CASE WaitForTransaction
  <2>1. loop' \in Loop /\ loop'.tx = loop.tx /\ Waiting
    BY <1>7 DEF WaitForTransaction, Loop, Waiting
  <2> QED BY <1>7, <2>1 DEF WaitForTransaction, db, chain
<1>8. CASE OnTransactionSent
  <2>1. loop' \in Loop /\ loop'.tx = loop.tx /\ Waiting
    BY <1>8 DEF OnTransactionSent, Loop, Waiting
  <2> QED BY <1>8, <2>1 DEF OnTransactionSent, db, chain
<1>9. CASE ExecuteFails
  <2>1. loop' \in Loop /\ ~Waiting'
    BY <1>9 DEF ExecuteFails, Loop, Waiting, Working
  <2> QED BY <1>9, <2>1 DEF ExecuteFails, db, chain
<1>10. CASE MarkAsSuccess
  <2>1. loop' \in Loop /\ ~Waiting' /\ loop.tx \in Nat /\ loop.msg \in Messages
    BY <1>10 DEF MarkAsSuccess, Loop, Waiting, Working
  <2>2. message' \in [Messages -> MessageType]
    BY <1>10, <2>1 DEF MarkAsSuccess, MessageState
  <2> QED BY <1>10, <2>1, <2>2 DEF MarkAsSuccess, chain
<1>11. CASE MarkAsError
  <2>1. loop' \in Loop /\ ~Waiting' /\ loop.msg \in Messages
    BY <1>11 DEF MarkAsError, Loop, Waiting, Working
  <2>2. message' \in [Messages -> MessageType]
    BY <1>11, <2>1 DEF MarkAsError, MessageState
  <2> QED BY <1>11, <2>1, <2>2 DEF MarkAsError, chain
<1>12. CASE Remove
  <2>1. loop' \in Loop /\ ~Waiting'
    BY <1>12 DEF Remove, Loop, Waiting
  <2>2. queue' \in Seq(Messages)
    BY <1>12, WithoutType DEF Remove
  <2> QED BY <1>12, <2>1, <2>2 DEF Remove, chain
<1> QED BY <1>1, <1>2, <1>3, <1>4, <1>5, <1>6, <1>7, <1>8, <1>9, <1>10, <1>11, <1>12
     DEF LoopStep

\* So does every step.
LEMMA TypeStep == TypeOK /\ [Next]_vars => TypeOK'
<1> SUFFICES ASSUME TypeOK, [Next]_vars PROVE TypeOK'
  OBVIOUS
<1> USE DEF TypeOK, Waiting
<1>1. ASSUME NEW r \in Requests, NEW input \in Inputs, Receive(r, input[1], input[2])
      PROVE  TypeOK'
  <2>1. input[1] \in Messages /\ input[2] \in Keys
    BY ParameterAssumption DEF ParameterAssumption
  <2>2. req' \in [Requests -> Request]
    BY <1>1, <2>1 DEF Receive, Request, RequestPC
  <2> QED BY <1>1, <2>2 DEF Receive, db, chain
<1>2. ASSUME NEW i \in DOMAIN txs, NEW ok \in BOOLEAN, Mine(i, ok)
      PROVE  TypeOK'
  <2>1. txs[i] \in Tx
    OBVIOUS
  <2>2. \A s \in {"mined", "reverted"} : [txs[i] EXCEPT !.status = s] \in Tx
    BY <2>1 DEF Tx
  <2>3. PICK s \in {"mined", "reverted"} :
          txs' = [txs EXCEPT ![i] = [txs[i] EXCEPT !.status = s]]
    BY <1>2 DEF Mine
  <2>4. txs' \in Seq(Tx) /\ DOMAIN txs' = DOMAIN txs
    <3> DEFINE tx == [txs[i] EXCEPT !.status = s]
    <3>1. tx \in Tx
      BY <2>2 DEF tx
    <3>2. i \in 1..Len(txs)
      OBVIOUS
    <3>3. tx \in Tx /\ i \in 1..Len(txs) /\ txs \in Seq(Tx)
      BY <3>1, <3>2
    <3> HIDE DEF tx, TypeOK
    <3>4. [txs EXCEPT ![i] = tx] \in Seq(Tx) /\ Len([txs EXCEPT ![i] = tx]) = Len(txs)
      BY <3>3, ExceptSeq
    <3>5. txs' = [txs EXCEPT ![i] = tx]
      BY <2>3 DEF tx
    <3> QED BY <3>3, <3>4, <3>5
  <2>5. executed' \in Seq(Messages)
    BY <1>2, <2>1 DEF Mine, Tx
  <2> QED BY <1>2, <2>4, <2>5 DEF Mine, db
<1>3. ASSUME NEW newOwners \in SUBSET Keys, NEW newRequired \in Thresholds,
             ChangeWallet(newOwners, newRequired)
      PROVE  TypeOK'
  <2>1. changes' \in 0..MaxChanges
    BY <1>3, ParameterAssumption DEF ChangeWallet, ParameterAssumption
  <2> QED BY <1>3, <2>1 DEF ChangeWallet, db
<1>4. CASE Crash
  <2> crashes < MaxCrashes /\ crashes' = crashes + 1 /\ loop' = [pc |-> "down"]
    BY <1>4, Zenon DEF Crash
  <2>1. crashes' \in 0..MaxCrashes
    BY ParameterAssumption DEF ParameterAssumption
  <2>2. loop' \in Loop /\ ~Waiting'
    BY DEF Loop
  <2>3. \A r \in Requests : ~Over(r) => [req[r] EXCEPT !.pc = "failed", !.seen = {}] \in Request
    BY DEF Request, RequestPC, Over
  <2>4. req' \in [Requests -> Request]
    BY <1>4, <2>3 DEF Crash
  <2> QED BY <1>4, <2>1, <2>2, <2>4 DEF Crash, db, chain
<1>5. CASE Restart
  <2>1. loop' \in Loop /\ ~Waiting'
    BY <1>5 DEF Restart, Loop
  <2> QED BY <1>5, <2>1 DEF Restart, db, chain
<1>6. CASE UNCHANGED vars
  BY <1>6 DEF vars, db, chain
<1> QED BY <1>1, <1>2, <1>3, <1>4, <1>5, <1>6, NextCases, TypeRequest, TypeLoop

-----------------------------------------------------------------------------
(***************************************************************************)
(* The queue.                                                              *)
(***************************************************************************)
\* Removing an item keeps every other one, and makes no copies.
LEMMA WithoutKeeps ==
  ASSUME NEW q \in Seq(Messages), NEW m,
         \A i, j \in DOMAIN q : q[i] = q[j] => i = j
  PROVE  /\ \A x : x # m /\ (\E i \in DOMAIN q : q[i] = x)
                     => \E i \in DOMAIN Without(q, m) : Without(q, m)[i] = x
         /\ \A i, j \in DOMAIN Without(q, m) : Without(q, m)[i] = Without(q, m)[j] => i = j
<1>1. CASE ~ \E i \in DOMAIN q : q[i] = m
  BY <1>1 DEF Without
<1>2. CASE \E i \in DOMAIN q : q[i] = m
  <2> DEFINE n == CHOOSE i \in DOMAIN q : q[i] = m
             w == Without(q, m)
  <2>1. n \in 1..Len(q) /\ q[n] = m /\ Len(q) \in Nat /\ DOMAIN q = 1..Len(q)
    BY <1>2
  <2>2. w = [i \in 1..(Len(q) - 1) |-> IF i < n THEN q[i] ELSE q[i + 1]]
    BY <1>2 DEF Without
  <2> HIDE DEF n, w
  <2>3. ASSUME NEW x, x # m, NEW i \in DOMAIN q, q[i] = x
        PROVE  \E j \in DOMAIN w : w[j] = x
    <3>1. CASE i < n
      <4>1. i \in 1..(Len(q) - 1) /\ w[i] = x
        BY <2>1, <2>2, <2>3, <3>1
      <4> QED BY <2>2, <4>1
    <3>2. CASE i > n
      <4>1. i - 1 \in 1..(Len(q) - 1) /\ ~(i - 1 < n) /\ (i - 1) + 1 = i
        BY <2>1, <2>3, <3>2
      <4>2. w[i - 1] = x
        BY <2>2, <2>3, <4>1
      <4> QED BY <2>2, <4>1, <4>2
    <3>3. i # n
      BY <2>1, <2>3
    <3> QED BY <2>1, <2>3, <3>1, <3>2, <3>3
  <2>4. ASSUME NEW i \in DOMAIN w, NEW j \in DOMAIN w, w[i] = w[j]
        PROVE  i = j
    <3> DEFINE at(k) == IF k < n THEN k ELSE k + 1
    <3>1. i \in 1..(Len(q) - 1) /\ j \in 1..(Len(q) - 1)
      BY <2>2, <2>4
    <3>2. at(i) \in DOMAIN q /\ at(j) \in DOMAIN q
      BY <2>1, <3>1
    <3>3. w[i] = q[at(i)] /\ w[j] = q[at(j)]
      BY <2>2, <3>1
    <3>4. at(i) = at(j)
      <4> HIDE DEF at
      <4> QED BY <2>4, <3>2, <3>3
    <3> QED BY <2>1, <3>1, <3>4
  <2> QED BY <2>3, <2>4 DEF w
<1> QED BY <1>1, <1>2

\* Nothing is queued at first.
LEMMA QueueInit == Init => QueueInv
BY DEF Init, QueueInv, QueuedAtMostOnce, PendingIsQueued, QueuedSurvives, RemovesSettled,
   Working, None

\* The requests for which QueuedSurvives says something.
HasQueued(r) == req[r].pc \in {"setQueued", "queued"}

\* Steps that write neither table nor history preserve QueueInv when the loop
\* keeps its message or lets go of it, and no request comes to have queued.
LEMMA QueueFrame ==
  ASSUME QueueInv, UNCHANGED <<message, queue, settled>>,
         \A r \in Requests : HasQueued(r)' => HasQueued(r) /\ req'[r].msg = req[r].msg,
         Working' => Working /\ loop'.msg = loop.msg,
         loop'.pc = "remove" => loop.pc = "remove"
  PROVE  QueueInv'
BY DEF QueueInv, QueuedAtMostOnce, PendingIsQueued, QueuedSurvives, RemovesSettled, Queued,
   HasQueued, Working

\* A step of a request preserves the queue's invariants.
LEMMA QueueRequest ==
  ASSUME TypeOK, QueueInv, NEW r \in Requests,
         ReadStep(r) \/ InsertMessage(r) \/ AddSignature(r) \/ Enqueue(r) \/ SetQueued(r)
  PROVE  QueueInv'
<1>1. CASE ReadStep(r)
  <2>1. /\ req'[r].pc \notin {"setQueued", "queued"}
        /\ \A s \in Requests : s # r => req'[s] = req[s]
    BY <1>1, ReadStepEffect
  <2>2. UNCHANGED <<message, queue, settled, loop>>
    BY <1>1, ReadStepEffect DEF db
  <2> QED BY <2>1, <2>2, QueueFrame DEF HasQueued, Working
<1>2. CASE InsertMessage(r)
  <2>1. req'[r].pc \in {"failed", "unsent"} /\ \A s \in Requests : s # r => req'[s] = req[s]
    BY <1>2, RequestGoto DEF InsertMessage, At, RequestPC
  <2>2. \A m \in Messages : message'[m].state = "Pending" => message[m].state = "Pending"
    BY <1>2 DEF InsertMessage, TypeOK
  <2>3. UNCHANGED <<queue, settled, loop>>
    BY <1>2 DEF InsertMessage
  <2>4. Working => loop.msg \in Messages
    BY LoopFacts
  <2> QED BY <2>1, <2>2, <2>3, <2>4 DEF QueueInv, QueuedAtMostOnce, PendingIsQueued,
        QueuedSurvives, RemovesSettled, Queued, Working
<1>3. CASE AddSignature(r)
  <2>1. req'[r].pc = "readRows" /\ \A s \in Requests : s # r => req'[s] = req[s]
    BY <1>3, RequestGoto DEF AddSignature, At, RequestPC
  <2> QED BY <1>3, <2>1, QueueFrame DEF AddSignature, HasQueued, Working
<1>4. CASE Enqueue(r)
  <2>0. PICK m : m = req[r].msg
    OBVIOUS
  <2>1. /\ req'[r].pc = IF Queued(m) THEN "failed" ELSE "setQueued"
        /\ req'[r].msg = m /\ m \in Messages
        /\ \A s \in Requests : s # r => req'[s] = req[s]
    BY <1>4, <2>0, RequestGoto DEF Enqueue, At, RequestPC
  <2>2. UNCHANGED <<message, loop>>
    BY <1>4 DEF Enqueue
  <2>3. CASE Queued(m)
    <3>1. UNCHANGED <<queue, settled>>
      BY <1>4, <2>0, <2>3 DEF Enqueue
    <3> QED BY <2>1, <2>2, <2>3, <3>1, QueueFrame DEF HasQueued, Working
  <2>4. CASE ~Queued(m)
    <3>1. queue' = Append(queue, m) /\ settled' = settled \ {m}
      BY <1>4, <2>0, <2>4 DEF Enqueue
    <3>2. queue \in Seq(Messages)
      BY DEF TypeOK
    <3>3. /\ DOMAIN queue' = 1..(Len(queue) + 1) /\ DOMAIN queue = 1..Len(queue)
          /\ Len(queue) \in Nat /\ queue'[Len(queue) + 1] = m
          /\ \A i \in DOMAIN queue : queue'[i] = queue[i] /\ i # Len(queue) + 1
                                       /\ i \in DOMAIN queue'
      BY <3>1, <3>2, <2>1
    <3>4. \A x : Queued(x) => Queued(x)'
      BY <3>3 DEF Queued
    <3>5. Queued(m)'
      BY <3>3 DEF Queued
    <3>6. QueuedAtMostOnce'
      BY <3>3, <2>4 DEF QueueInv, QueuedAtMostOnce, Queued
    <3>7. PendingIsQueued'
      BY <2>2, <3>4 DEF QueueInv, PendingIsQueued, Working
    <3>8. QueuedSurvives'
      BY <2>1, <3>1, <3>4, <3>5 DEF QueueInv, QueuedSurvives
    <3>9. RemovesSettled'
      BY <2>2, <2>4, <3>1 DEF QueueInv, RemovesSettled, PendingIsQueued, Working
    <3> QED BY <3>6, <3>7, <3>8, <3>9 DEF QueueInv
  <2> QED BY <2>3, <2>4
<1>5. CASE SetQueued(r)
  <2>1. /\ req[r].pc = "setQueued" /\ req'[r].pc = "queued" /\ req'[r].msg = req[r].msg
        /\ \A s \in Requests : s # r => req'[s] = req[s]
    BY <1>5, RequestGoto DEF SetQueued, At, RequestPC
  <2>2. \A m \in Messages : message'[m].state = "Pending" => message[m].state = "Pending"
    BY <1>5 DEF SetQueued, TypeOK
  <2>3. UNCHANGED <<queue, settled, loop>>
    BY <1>5 DEF SetQueued
  <2>4. Working => loop.msg \in Messages
    BY LoopFacts
  <2> QED BY <2>1, <2>2, <2>3, <2>4 DEF QueueInv, QueuedAtMostOnce, PendingIsQueued,
        QueuedSurvives, RemovesSettled, Queued, Working
<1> QED BY <1>1, <1>2, <1>3, <1>4, <1>5

\* A step of the loop preserves them.
LEMMA QueueLoop == ASSUME TypeOK, QueueInv, LoopStep PROVE QueueInv'
<1> USE DEF LoopAt, LoopTo
<1>1. CASE GetNext
  <2>1. loop' = [pc |-> "pending", msg |-> queue[1]] /\ 1 \in DOMAIN queue
    BY <1>1 DEF GetNext, TypeOK
  <2> QED BY <1>1, <2>1 DEF GetNext, db, QueueInv, QueuedAtMostOnce, PendingIsQueued,
        QueuedSurvives, RemovesSettled, Queued, Working
<1>2. CASE SetPending
  <2>1. Working /\ Working' /\ loop'.msg = loop.msg /\ loop'.pc = "getMessage" /\ loop.msg \in Messages
    BY <1>2, LoopFacts DEF SetPending, Working, TypeOK, Loop
  <2>2. \A m \in Messages : message'[m].state = "Pending" => message[m].state = "Pending" \/ m = loop.msg
    BY <1>2 DEF SetPending, TypeOK
  <2> QED BY <1>2, <2>1, <2>2 DEF SetPending, QueueInv, QueuedAtMostOnce, PendingIsQueued,
        QueuedSurvives, RemovesSettled, Queued
<1>3. CASE GetMessage \/ Validate \/ SendTransaction \/ SendFails \/ WaitForTransaction
             \/ OnTransactionSent \/ ExecuteFails
  <2>1. Working /\ loop'.msg = loop.msg /\ loop'.pc # "remove"
    BY <1>3 DEF GetMessage, Validate, SendTransaction, SendFails, WaitForTransaction,
       OnTransactionSent, ExecuteFails, Working, TypeOK, Loop
  <2>2. UNCHANGED <<message, queue, settled, req>>
    BY <1>3 DEF GetMessage, Validate, SendTransaction, SendFails, WaitForTransaction,
       OnTransactionSent, ExecuteFails, db
  <2> QED BY <2>1, <2>2, QueueFrame DEF HasQueued
<1>4. CASE MarkAsSuccess \/ MarkAsError
  <2>1. /\ Working /\ Working' /\ loop'.msg = loop.msg /\ loop'.pc = "remove" /\ loop.msg \in Messages
    BY <1>4, LoopFacts DEF MarkAsSuccess, MarkAsError, Working, TypeOK, Loop
  <2>2. /\ \A m \in Messages : message'[m].state = "Pending" => message[m].state = "Pending"
        /\ message'[loop.msg].state # "Pending"
    <3>1. CASE MarkAsSuccess
      BY <2>1, <3>1 DEF MarkAsSuccess, TypeOK
    <3>2. CASE MarkAsError
      BY <2>1, <3>2 DEF MarkAsError, TypeOK
    <3> QED BY <1>4, <3>1, <3>2
  <2>3. settled' = settled \cup {loop.msg} /\ UNCHANGED <<queue, req>>
    BY <1>4 DEF MarkAsSuccess, MarkAsError
  <2> QED BY <2>1, <2>2, <2>3 DEF QueueInv, QueuedAtMostOnce, PendingIsQueued,
        QueuedSurvives, RemovesSettled, Queued
<1>5. CASE Remove
  <2>1. /\ loop.pc = "remove" /\ loop'.pc = "next" /\ queue' = Without(queue, loop.msg)
        /\ UNCHANGED <<message, req, settled>>
    BY <1>5 DEF Remove
  <2>2. queue \in Seq(Messages) /\ \A i, j \in DOMAIN queue : queue[i] = queue[j] => i = j
    BY DEF TypeOK, QueueInv, QueuedAtMostOnce
  <2>3. \A x : x # loop.msg /\ Queued(x) => Queued(x)'
    BY <2>1, <2>2, WithoutKeeps DEF Queued
  <2>4. QueuedAtMostOnce'
    BY <2>1, <2>2, WithoutKeeps DEF QueuedAtMostOnce
  <2>5. loop.msg \in settled /\ message[loop.msg].state # "Pending"
    BY <2>1 DEF QueueInv, RemovesSettled
  <2> QED BY <2>1, <2>3, <2>4, <2>5 DEF QueueInv, PendingIsQueued, QueuedSurvives,
        RemovesSettled, Working
<1> QED BY <1>1, <1>2, <1>3, <1>4, <1>5 DEF LoopStep

\* So does every step.
LEMMA QueueStep == TypeOK /\ QueueInv /\ [Next]_vars => QueueInv'
<1> SUFFICES ASSUME TypeOK, QueueInv, [Next]_vars PROVE QueueInv'
  OBVIOUS
<1>1. ASSUME NEW r \in Requests, NEW input \in Inputs, Receive(r, input[1], input[2])
      PROVE  QueueInv'
  <2>1. req'[r].pc = "isPresent" /\ \A s \in Requests : s # r => req'[s] = req[s]
    BY <1>1 DEF Receive, TypeOK
  <2> QED BY <1>1, <2>1, QueueFrame DEF Receive, db, HasQueued, Working
<1>2. ASSUME NEW i \in DOMAIN txs, NEW ok \in BOOLEAN, Mine(i, ok)
      PROVE  QueueInv'
  BY <1>2, QueueFrame DEF Mine, db, HasQueued, Working
<1>3. ASSUME NEW newOwners \in SUBSET Keys, NEW newRequired \in Thresholds,
             ChangeWallet(newOwners, newRequired)
      PROVE  QueueInv'
  BY <1>3, QueueFrame DEF ChangeWallet, db, HasQueued, Working
<1>4. CASE Crash
  <2>1. \A r \in Requests : HasQueued(r)' => HasQueued(r) /\ req'[r].msg = req[r].msg
    <3>1. SUFFICES ASSUME NEW r \in Requests, ~Over(r) PROVE ~HasQueued(r)'
      BY <1>4 DEF Crash, HasQueued
    <3>2. [req[r] EXCEPT !.pc = "failed", !.seen = {}].pc = "failed"
      BY <3>1 DEF TypeOK, Request
    <3> QED BY <1>4, <3>1, <3>2 DEF Crash, HasQueued
  <2> QED BY <1>4, <2>1, QueueFrame DEF Crash, db, Working
<1>5. CASE Restart
  BY <1>5, QueueFrame DEF Restart, db, HasQueued, Working
<1>6. CASE UNCHANGED vars
  BY <1>6, QueueFrame DEF vars, db, HasQueued, Working
<1> QED BY <1>1, <1>2, <1>3, <1>4, <1>5, <1>6, NextCases, QueueRequest, QueueLoop

-----------------------------------------------------------------------------
(***************************************************************************)
(* The chain.                                                              *)
(***************************************************************************)
\* Nothing is sent at first.
LEMMA ChainInit == Init => ChainInv
BY DEF Init, ChainInv, HashMeansReceipt, WaitsForOwnTx, Waiting, NoTx

\* Transactions are never forgotten, and never change but to gain a receipt.
TxsGrow ==
  /\ Len(txs') >= Len(txs)
  /\ \A i \in 1..Len(txs) : /\ txs'[i].msg = txs[i].msg
                            /\ txs[i].status # "sent" => txs'[i].status # "sent"

\* Steps that store no new hash.
LEMMA ChainFrame ==
  ASSUME TypeOK, TypeOK', ChainInv, TxsGrow,
         \A m \in Messages : message'[m].tx = message[m].tx,
         Waiting' => Waiting /\ loop'.msg = loop.msg /\ loop'.tx = loop.tx,
         Waiting' /\ loop'.pc # "wait" => txs'[loop'.tx].status # "sent"
  PROVE  ChainInv'
<1>1. DOMAIN txs = 1..Len(txs) /\ DOMAIN txs' = 1..Len(txs') /\ Len(txs) \in Nat /\ Len(txs') \in Nat
  BY DEF TypeOK
<1>2. HashMeansReceipt'
  BY <1>1 DEF ChainInv, HashMeansReceipt, TxsGrow
<1>3. WaitsForOwnTx'
  BY <1>1, LoopFacts DEF ChainInv, WaitsForOwnTx, TxsGrow
<1> QED BY <1>2, <1>3 DEF ChainInv

\* Transactions grow, in this sense, when they stay as they are,
LEMMA TxsStay == ASSUME TypeOK, UNCHANGED txs PROVE TxsGrow
BY DEF TypeOK, TxsGrow

\* and when one is broadcast.
LEMMA BroadcastGrows ==
  ASSUME TypeOK, Broadcast
  PROVE  /\ TxsGrow /\ Len(txs) \in Nat
         /\ txs'[Len(txs) + 1].msg = loop.msg
BY DEF TypeOK, Broadcast, TxsGrow

\* A step of a request preserves the chain's invariants.
LEMMA ChainRequest ==
  ASSUME TypeOK, TypeOK', ChainInv, NEW r \in Requests,
         ReadStep(r) \/ InsertMessage(r) \/ AddSignature(r) \/ Enqueue(r) \/ SetQueued(r)
  PROVE  ChainInv'
<1>1. UNCHANGED <<txs, executed, loop>>
  <2>1. CASE ReadStep(r)
    BY <2>1, ReadStepEffect DEF chain
  <2> QED BY <2>1 DEF InsertMessage, AddSignature, Enqueue, SetQueued, chain
<1>2. \A m \in Messages : message'[m].tx = message[m].tx
  <2>1. CASE ReadStep(r)
    BY <2>1, ReadStepEffect DEF db
  <2>2. CASE InsertMessage(r)
    BY <2>2 DEF InsertMessage, TypeOK
  <2>3. CASE SetQueued(r)
    BY <2>3 DEF SetQueued, TypeOK
  <2> QED BY <2>1, <2>2, <2>3 DEF AddSignature, Enqueue
<1> QED BY <1>1, <1>2, ChainFrame, TxsStay DEF ChainInv, WaitsForOwnTx, Waiting

\* A step of the loop preserves them.
LEMMA ChainLoop == ASSUME TypeOK, TypeOK', ChainInv, LoopStep PROVE ChainInv'
<1> USE DEF LoopAt, LoopTo
<1>1. CASE GetNext \/ SetPending \/ GetMessage \/ Validate \/ ExecuteFails
             \/ MarkAsError \/ Remove
  <2>1. UNCHANGED <<txs, executed>> /\ ~Waiting'
    <3>1. CASE GetNext \/ GetMessage \/ ExecuteFails \/ Remove
      BY <3>1 DEF GetNext, GetMessage, ExecuteFails, Remove, Waiting, chain
    <3>2. CASE SetPending \/ Validate \/ MarkAsError
      <4>1. loop'.pc \in {"getMessage", "send", "remove"}
        BY <3>2 DEF SetPending, Validate, MarkAsError, TypeOK, Loop
      <4> QED BY <3>2, <4>1 DEF SetPending, Validate, MarkAsError, Waiting, chain
    <3> QED BY <1>1, <3>1, <3>2
  <2>2. \A m \in Messages : message'[m].tx = message[m].tx
    <3>1. CASE SetPending
      BY <3>1 DEF SetPending, TypeOK
    <3>2. CASE MarkAsError
      BY <3>2 DEF MarkAsError, TypeOK
    <3> QED BY <1>1, <3>1, <3>2 DEF GetNext, GetMessage, Validate, ExecuteFails, Remove, db
  <2> QED BY <2>1, <2>2, ChainFrame, TxsStay
<1>2. CASE SendTransaction
  <2>1. /\ loop' = [pc |-> "wait", msg |-> loop.msg, tx |-> Len(txs) + 1]
        /\ UNCHANGED <<message, executed>> /\ Broadcast
    BY <1>2 DEF SendTransaction, db
  <2>2. TxsGrow /\ Len(txs) \in Nat /\ txs'[Len(txs) + 1].msg = loop.msg
    BY <2>1, BroadcastGrows
  <2>3. DOMAIN txs = 1..Len(txs) /\ DOMAIN txs' = 1..Len(txs') /\ Len(txs') \in Nat
    BY DEF TypeOK
  <2>4. WaitsForOwnTx'
    BY <2>1, <2>2 DEF WaitsForOwnTx
  <2>5. HashMeansReceipt'
    BY <2>1, <2>2, <2>3 DEF ChainInv, HashMeansReceipt, TxsGrow
  <2> QED BY <2>4, <2>5 DEF ChainInv
<1>3. CASE SendFails
  <2>1. UNCHANGED <<message, executed>> /\ ~Waiting' /\ (Broadcast \/ UNCHANGED txs)
    BY <1>3 DEF SendFails, db, Waiting
  <2> QED BY <2>1, BroadcastGrows, TxsStay, ChainFrame
<1>4. CASE WaitForTransaction \/ OnTransactionSent
  <2>1. /\ UNCHANGED <<message, executed, txs>>
        /\ Waiting /\ loop'.msg = loop.msg /\ loop'.tx = loop.tx
    BY <1>4 DEF WaitForTransaction, OnTransactionSent, db, chain, Waiting, TypeOK, Loop
  <2>2. txs'[loop'.tx].status # "sent"
    <3>1. CASE WaitForTransaction
      BY <2>1, <3>1 DEF WaitForTransaction
    <3>2. CASE OnTransactionSent
      BY <2>1, <3>2 DEF OnTransactionSent, ChainInv, WaitsForOwnTx
    <3> QED BY <1>4, <3>1, <3>2
  <2> QED BY <2>1, <2>2, TxsStay, ChainFrame
<1>5. CASE MarkAsSuccess
  <2>1. UNCHANGED <<executed, txs>> /\ ~Waiting' /\ loop.pc = "markAsSuccess" /\ Waiting
    BY <1>5 DEF MarkAsSuccess, chain, Waiting
  <2>2. txs[loop.tx].msg = loop.msg /\ txs[loop.tx].status # "sent" /\ loop.tx \in DOMAIN txs
    BY <2>1 DEF ChainInv, WaitsForOwnTx, TypeOK
  <2>3. \A m \in Messages : message'[m].tx = IF m = loop.msg THEN loop.tx ELSE message[m].tx
    BY <1>5 DEF MarkAsSuccess, TypeOK
  <2> QED BY <2>1, <2>2, <2>3 DEF ChainInv, HashMeansReceipt, WaitsForOwnTx
<1> QED BY <1>1, <1>2, <1>3, <1>4, <1>5 DEF LoopStep

\* So does every step.
LEMMA ChainStep == TypeOK /\ TypeOK' /\ ChainInv /\ [Next]_vars => ChainInv'
<1> SUFFICES ASSUME TypeOK, TypeOK', ChainInv, [Next]_vars PROVE ChainInv'
  OBVIOUS
<1>1. ASSUME NEW r \in Requests, NEW input \in Inputs, Receive(r, input[1], input[2])
      PROVE  ChainInv'
  <2>1. UNCHANGED <<message, txs, executed, loop>>
    BY <1>1 DEF Receive, db, chain
  <2> QED BY <2>1, TxsStay, ChainFrame DEF ChainInv, WaitsForOwnTx, Waiting
<1>2. ASSUME NEW i \in DOMAIN txs, NEW ok \in BOOLEAN, Mine(i, ok)
      PROVE  ChainInv'
  <2>1. UNCHANGED <<message, loop>>
    BY <1>2 DEF Mine, db
  <2>2. PICK s \in {"mined", "reverted"} :
          txs' = [txs EXCEPT ![i] = [txs[i] EXCEPT !.status = s]]
    BY <1>2 DEF Mine
  <2>3. txs \in Seq(Tx) /\ DOMAIN txs = 1..Len(txs) /\ DOMAIN txs' = 1..Len(txs')
    BY DEF TypeOK
  <2>4. DOMAIN txs' = DOMAIN txs
    BY <2>2
  <2>5. \A k \in DOMAIN txs : /\ txs'[k].msg = txs[k].msg
                              /\ txs[k].status # "sent" => txs'[k].status # "sent"
    <3>1. \A k \in DOMAIN txs : txs[k] \in Tx
      BY <2>3
    <3>2. [txs[i] EXCEPT !.status = s].msg = txs[i].msg
            /\ [txs[i] EXCEPT !.status = s].status # "sent"
      BY <3>1 DEF Tx
    <3> QED BY <2>2, <3>2
  <2>6. HashMeansReceipt'
    BY <2>1, <2>4, <2>5 DEF ChainInv, HashMeansReceipt
  <2>7. WaitsForOwnTx'
    BY <2>1, <2>3, <2>5, LoopFacts DEF ChainInv, WaitsForOwnTx, Waiting
  <2> QED BY <2>6, <2>7 DEF ChainInv
<1>3. ASSUME NEW newOwners \in SUBSET Keys, NEW newRequired \in Thresholds,
             ChangeWallet(newOwners, newRequired)
      PROVE  ChainInv'
  <2>1. UNCHANGED <<message, txs, executed, loop>>
    BY <1>3 DEF ChangeWallet, db
  <2> QED BY <2>1, TxsStay, ChainFrame DEF ChainInv, WaitsForOwnTx, Waiting
<1>4. CASE Crash \/ Restart
  <2> loop'.pc \in {"down", "next"}
    <3>1. CASE Crash
      <4>1. loop' = [pc |-> "down"]
        BY <3>1, Zenon DEF Crash
      <4> QED BY <4>1
    <3>2. CASE Restart
      BY <3>2 DEF Restart
    <3> QED BY <1>4, <3>1, <3>2
  <2> UNCHANGED <<db, chain>>
    BY <1>4, Zenon DEF Crash, Restart
  <2>1. UNCHANGED <<message, txs, executed>> /\ ~Waiting'
    BY DEF db, chain, Waiting
  <2> QED BY <2>1, TxsStay, ChainFrame
<1>5. CASE UNCHANGED vars
  <2>1. UNCHANGED <<message, txs, executed, loop>>
    BY <1>5 DEF vars, db, chain
  <2> QED BY <2>1, TxsStay, ChainFrame DEF ChainInv, WaitsForOwnTx, Waiting
<1> QED BY <1>1, <1>2, <1>3, <1>4, <1>5, NextCases, ChainRequest, ChainLoop

-----------------------------------------------------------------------------
(***************************************************************************)
(* The order: every step is a step of DurableQueue, or invisible there.    *)
(***************************************************************************)
DurableStep == [Durable!Next]_<<queue, settled, executed>>

\* Nothing waits, nothing is sent at first.
LEMMA OrderInit == Init => OrderInv /\ Durable!Init
BY DEF Init, OrderInv, LoopTakesOldest, SentWereQueued, Working, Durable!Init

\* Steps that leave queue and outcomes alone: the loop keeps its message or
\* lets go of it, and what is sent waits.
LEMMA OrderFrame ==
  ASSUME OrderInv, UNCHANGED <<queue, settled>>,
         Working' => Working /\ loop'.msg = loop.msg,
         \A i \in DOMAIN txs' :
           (i \in DOMAIN txs /\ txs'[i].msg = txs[i].msg) \/ Queued(txs'[i].msg)
  PROVE  OrderInv'
BY DEF OrderInv, LoopTakesOldest, SentWereQueued, Queued

\* Those that send and execute nothing either are invisible.
LEMMA OrderStays ==
  ASSUME OrderInv, UNCHANGED <<queue, settled, executed, txs>>,
         Working' => Working /\ loop'.msg = loop.msg
  PROVE  OrderInv' /\ DurableStep
BY OrderFrame DEF DurableStep

\* Without the item it begins with, a queue is its tail.
LEMMA WithoutHead ==
  ASSUME NEW q \in Seq(Messages), q # << >>, \A i, j \in DOMAIN q : q[i] = q[j] => i = j
  PROVE  Without(q, q[1]) = Tail(q)
<1>1. Len(q) \in Nat \ {0} /\ DOMAIN q = 1..Len(q) /\ 1 \in DOMAIN q
  BY EmptySeq
<1>2. (CHOOSE i \in DOMAIN q : q[i] = q[1]) = 1
  <2> DEFINE n == CHOOSE i \in DOMAIN q : q[i] = q[1]
  <2>1. n \in DOMAIN q /\ q[n] = q[1]
    BY <1>1
  <2> HIDE DEF n
  <2>2. n = 1
    BY <1>1, <2>1
  <2> QED BY <2>2 DEF n
<1>3. Without(q, q[1]) = [i \in 1..(Len(q) - 1) |-> IF i < 1 THEN q[i] ELSE q[i + 1]]
  BY <1>1, <1>2 DEF Without
<1>4. Tail(q) = [i \in 1..(Len(q) - 1) |-> q[i + 1]]
  <2> DEFINE t == [i \in 1..(Len(q) - 1) |-> q[i + 1]]
  <2>1. \A i \in 1..(Len(q) - 1) : q[i + 1] \in Messages
    BY <1>1
  <2>2. t \in Seq(Messages) /\ Len(t) = Len(q) - 1 /\ \A i \in 1..Len(t) : t[i] = q[i + 1]
    BY <1>1, <2>1
  <2> HIDE DEF t
  <2>3. t = Tail(q)
    BY <1>1, <2>2, HeadTailProperties, SeqEqual
  <2> QED BY <2>3 DEF t
<1> QED BY <1>1, <1>3, <1>4

LEMMA OrderRequest ==
  ASSUME TypeOK, OrderInv, NEW r \in Requests,
         ReadStep(r) \/ InsertMessage(r) \/ AddSignature(r) \/ Enqueue(r) \/ SetQueued(r)
  PROVE  OrderInv' /\ DurableStep
<1>1. CASE ReadStep(r) \/ InsertMessage(r) \/ AddSignature(r) \/ SetQueued(r)
  <2>1. UNCHANGED <<queue, settled, executed, txs, loop>>
    BY <1>1, ReadStepEffect DEF InsertMessage, AddSignature, SetQueued, db, chain
  <2> QED BY <2>1, OrderStays DEF Working
<1>2. CASE Enqueue(r)
  <2>1. PICK m \in Messages : m = req[r].msg
    BY <1>2, RequestGoto DEF Enqueue, At, RequestPC
  <2>2. UNCHANGED <<loop, executed, txs>>
    BY <1>2 DEF Enqueue, chain
  <2>3. CASE Queued(m)
    <3>1. UNCHANGED <<queue, settled>>
      BY <1>2, <2>1, <2>3 DEF Enqueue
    <3> QED BY <2>2, <3>1, OrderStays DEF Working
  <2>4. CASE ~Queued(m)
    <3>1. queue' = Append(queue, m) /\ settled' = settled \ {m}
      BY <1>2, <2>1, <2>4 DEF Enqueue
    <3>2. /\ DOMAIN queue' = 1..(Len(queue) + 1) /\ DOMAIN queue = 1..Len(queue)
          /\ Len(queue) \in Nat /\ queue'[Len(queue) + 1] = m
          /\ \A i \in DOMAIN queue : queue'[i] = queue[i]
      BY <3>1 DEF TypeOK
    <3>3. Queued(m)' /\ \A x : Queued(x) => Queued(x)'
      BY <3>2 DEF Queued
    <3>4. LoopTakesOldest'
      <4>1. queue \in Seq(Messages)
        BY DEF TypeOK
      <4>2. queue # << >> => 1 \in DOMAIN queue /\ queue' # << >>
        BY <3>1, <4>1, EmptySeq
      <4> QED BY <2>2, <3>2, <4>2 DEF OrderInv, LoopTakesOldest, Working
    <3>5. SentWereQueued'
      BY <2>2, <3>1, <3>3 DEF OrderInv, SentWereQueued
    <3>6. Durable!Post(m)
      BY <2>2, <2>4, <3>1 DEF Queued, Durable!Post, Durable!Waits
    <3> QED BY <3>4, <3>5, <3>6 DEF OrderInv, DurableStep, Durable!Next
  <2> QED BY <2>3, <2>4
<1> QED BY <1>1, <1>2

LEMMA OrderLoop ==
  ASSUME TypeOK, QueueInv, OrderInv, LoopStep
  PROVE  OrderInv' /\ DurableStep
<1> USE DEF LoopAt, LoopTo
<1>0. queue \in Seq(Messages) /\ (Working => Queued(loop.msg))
  BY DEF TypeOK, QueueInv, PendingIsQueued
<1>1. CASE GetNext
  <2>1. UNCHANGED <<queue, settled, executed, txs>> /\ loop' = [pc |-> "pending", msg |-> queue[1]]
    BY <1>1, <1>0 DEF GetNext, db, chain
  <2>2. LoopTakesOldest' /\ SentWereQueued'
    BY <1>1, <2>1 DEF GetNext, OrderInv, LoopTakesOldest, SentWereQueued, Queued
  <2> QED BY <2>1, <2>2 DEF OrderInv, DurableStep
<1>2. CASE SetPending \/ GetMessage \/ Validate \/ WaitForTransaction \/ OnTransactionSent
             \/ ExecuteFails
  <2>1. UNCHANGED <<queue, settled, executed, txs>>
    BY <1>2 DEF SetPending, GetMessage, Validate, WaitForTransaction, OnTransactionSent,
       ExecuteFails, db, chain
  <2>2. Working /\ loop'.msg = loop.msg
    BY <1>2 DEF SetPending, GetMessage, Validate, WaitForTransaction, OnTransactionSent,
       ExecuteFails, Working, TypeOK, Loop
  <2> QED BY <2>1, <2>2, OrderStays
<1>3. CASE SendTransaction \/ SendFails
  <2>1. /\ UNCHANGED <<queue, settled, executed>> /\ (Broadcast \/ UNCHANGED txs)
        /\ Working /\ loop'.msg = loop.msg
    BY <1>3 DEF SendTransaction, SendFails, db, Working
  <2>2. \A i \in DOMAIN txs' :
          (i \in DOMAIN txs /\ txs'[i].msg = txs[i].msg) \/ Queued(txs'[i].msg)
    <3>1. CASE Broadcast
      <4>1. /\ DOMAIN txs' = 1..(Len(txs) + 1) /\ DOMAIN txs = 1..Len(txs) /\ Len(txs) \in Nat
            /\ txs'[Len(txs) + 1].msg = loop.msg
            /\ \A i \in DOMAIN txs : txs'[i] = txs[i]
        BY <3>1 DEF Broadcast, TypeOK
      <4> QED BY <1>0, <2>1, <4>1
    <3>2. CASE UNCHANGED txs
      BY <3>2
    <3> QED BY <2>1, <3>1, <3>2
  <2> QED BY <2>1, <2>2, OrderFrame DEF DurableStep
<1>4. CASE MarkAsSuccess \/ MarkAsError
  <2>1. /\ settled' = settled \cup {loop.msg} /\ UNCHANGED <<queue, executed, txs>>
        /\ Working /\ loop'.msg = loop.msg
    BY <1>4 DEF MarkAsSuccess, MarkAsError, chain, Working, TypeOK, Loop
  <2>2. queue # << >> /\ Head(queue) = loop.msg /\ queue[1] = loop.msg
    BY <1>0, <2>1 DEF OrderInv, LoopTakesOldest
  <2>3. Durable!Record
    BY <2>1, <2>2 DEF Durable!Record
  <2>4. LoopTakesOldest' /\ SentWereQueued'
    BY <2>1, <2>2 DEF OrderInv, LoopTakesOldest, SentWereQueued, Queued
  <2> QED BY <2>3, <2>4 DEF OrderInv, DurableStep, Durable!Next
<1>5. CASE Remove
  <2>1. /\ queue' = Without(queue, loop.msg) /\ loop'.pc = "next"
        /\ UNCHANGED <<settled, executed, txs>> /\ loop.pc = "remove" /\ Working
    BY <1>5 DEF Remove, chain, Working
  <2>2. queue # << >> /\ Head(queue) = loop.msg /\ queue[1] = loop.msg /\ loop.msg \in settled
    BY <1>0, <2>1 DEF OrderInv, LoopTakesOldest, QueueInv, RemovesSettled
  <2>3. \A i, j \in DOMAIN queue : queue[i] = queue[j] => i = j
    BY DEF QueueInv, QueuedAtMostOnce
  <2>4. queue' = Tail(queue)
    BY <1>0, <2>1, <2>2, <2>3, WithoutHead
  <2>5. Durable!Leave
    BY <2>1, <2>2, <2>4 DEF Durable!Leave
  <2>6. \A x : x # loop.msg /\ Queued(x) => Queued(x)'
    BY <1>0, <2>1, <2>3, WithoutKeeps DEF Queued
  <2>7. SentWereQueued'
    BY <2>1, <2>2, <2>6 DEF OrderInv, SentWereQueued
  <2>8. LoopTakesOldest'
    BY <2>1 DEF LoopTakesOldest, Working
  <2> QED BY <2>5, <2>7, <2>8 DEF OrderInv, DurableStep, Durable!Next
<1> QED BY <1>1, <1>2, <1>3, <1>4, <1>5 DEF LoopStep

\* A transaction that executes is one of a message that was queued.
LEMMA OrderMine ==
  ASSUME TypeOK, OrderInv, NEW i \in DOMAIN txs, NEW ok \in BOOLEAN, Mine(i, ok)
  PROVE  OrderInv' /\ DurableStep
<1>1. UNCHANGED <<queue, settled, loop>>
  BY DEF Mine, db
<1>2. PICK m \in Messages : m = txs[i].msg
  <2>1. txs[i] \in Tx
    BY DEF TypeOK
  <2> QED BY <2>1 DEF Tx
<1>3. DOMAIN txs' = DOMAIN txs /\ \A j \in DOMAIN txs : txs'[j].msg = txs[j].msg
  <2>1. \A j \in DOMAIN txs : txs[j] \in Tx
    BY DEF TypeOK
  <2>2. PICK s \in {"mined", "reverted"} : txs' = [txs EXCEPT ![i] = [txs[i] EXCEPT !.status = s]]
    BY DEF Mine
  <2>3. [txs[i] EXCEPT !.status = s].msg = txs[i].msg
    BY <2>1 DEF Tx
  <2> QED BY <2>2, <2>3
<1>4. OrderInv'
  BY <1>1, <1>3, OrderFrame DEF Working
<1>5. CASE ok
  <2>1. Queued(m) \/ m \in settled
    BY <1>2 DEF OrderInv, SentWereQueued
  <2>2. executed' = Append(executed, m) /\ NonceOf[m] = Len(executed)
    BY <1>2, <1>5 DEF Mine, Executable
  <2>3. Durable!Execute(m)
    BY <1>1, <2>1, <2>2 DEF Queued, Durable!Execute, Durable!Waits
  <2> QED BY <1>4, <2>3 DEF DurableStep, Durable!Next
<1>6. CASE ~ok
  BY <1>1, <1>4, <1>6 DEF Mine, DurableStep
<1> QED BY <1>5, <1>6

LEMMA OrderStep ==
  TypeOK /\ QueueInv /\ OrderInv /\ [Next]_vars => OrderInv' /\ DurableStep
<1> SUFFICES ASSUME TypeOK, QueueInv, OrderInv, [Next]_vars PROVE OrderInv' /\ DurableStep
  OBVIOUS
<1>1. ASSUME NEW r \in Requests, NEW input \in Inputs, Receive(r, input[1], input[2])
      PROVE  OrderInv' /\ DurableStep
  BY <1>1, OrderStays DEF Receive, db, chain, Working
<1>2. ASSUME NEW newOwners \in SUBSET Keys, NEW newRequired \in Thresholds,
             ChangeWallet(newOwners, newRequired)
      PROVE  OrderInv' /\ DurableStep
  BY <1>2, OrderStays DEF ChangeWallet, db, Working
<1>3. CASE Crash \/ Restart
  <2>1. UNCHANGED <<db, chain, settled>>
    BY <1>3, Zenon DEF Crash, Restart
  <2>2. ~Working'
    <3>1. CASE Crash
      <4>1. loop' = [pc |-> "down"]
        BY <3>1, Zenon DEF Crash
      <4> QED BY <4>1 DEF Working
    <3>2. CASE Restart
      BY <3>2 DEF Restart, Working
    <3> QED BY <1>3, <3>1, <3>2
  <2> QED BY <2>1, <2>2, OrderStays DEF db, chain
<1>4. CASE UNCHANGED vars
  BY <1>4, OrderStays DEF vars, db, chain, Working
<1> QED BY <1>1, <1>2, <1>3, <1>4, NextCases, OrderRequest, OrderLoop, OrderMine

-----------------------------------------------------------------------------
(***************************************************************************)
(* The count of what is sent.  A signature's row is good for one broadcast *)
(* from the moment it is added: while its request may still queue the      *)
(* message, while the item waits, and no longer once the loop has sent it. *)
(* A crash gives the item in hand back.                                    *)
(***************************************************************************)
Unsigned == {"idle", "isPresent", "insert", "unsent", "contain", "purpose", "addSignature"}
Asking == {"readRows", "enough", "ensureUnsent", "rereadRows", "ensureEnough", "enqueue"}
Decided == {"wait", "onTransactionSent", "markAsSuccess", "markAsError", "remove"}

Sent(m) == {i \in DOMAIN txs : txs[i].msg = m}
OnTheWay(m) == {r \in Requests : req[r].pc \in Asking /\ req[r].msg = m}
Undecided(m) == Queued(m) /\ ~(loop.pc \in Decided /\ loop.msg = m)

\* A request has a row once it is past adding it, and the rows are finitely many.
RowsAdded ==
  \A m \in Messages : IsFiniteSet(sigs[m]) /\ \A row \in sigs[m] : req[row.by].pc \notin Unsigned

Spent(m) == Cardinality(Sent(m)) + Cardinality(OnTheWay(m)) + (IF Undecided(m) THEN 1 ELSE 0)
WithinBudget == \A m \in Messages : Spent(m) <= Cardinality(sigs[m]) + crashes
BudgetInv == RowsAdded /\ WithinBudget

LEMMA CountFacts ==
  ASSUME TypeOK, RowsAdded, NEW m \in Messages
  PROVE  /\ IsFiniteSet(Sent(m)) /\ Cardinality(Sent(m)) \in Nat
         /\ IsFiniteSet(OnTheWay(m)) /\ Cardinality(OnTheWay(m)) \in Nat
         /\ IsFiniteSet(sigs[m]) /\ Cardinality(sigs[m]) \in Nat
         /\ crashes \in Nat
<1>1. IsFiniteSet(DOMAIN txs) /\ Sent(m) \subseteq DOMAIN txs
  <2>1. DOMAIN txs = 1..Len(txs) /\ Len(txs) \in Nat
    BY DEF TypeOK
  <2>2. IsFiniteSet(1..Len(txs))
    BY <2>1, FS_Interval
  <2> QED BY <2>1, <2>2 DEF Sent
<1>2. IsFiniteSet(Sent(m)) /\ Cardinality(Sent(m)) \in Nat
  BY <1>1, FS_Subset, FS_CardinalityType
<1>3. IsFiniteSet(Requests) /\ OnTheWay(m) \subseteq Requests
  BY ParameterAssumption DEF OnTheWay
<1>4. IsFiniteSet(OnTheWay(m)) /\ Cardinality(OnTheWay(m)) \in Nat
  BY <1>3, FS_Subset, FS_CardinalityType
<1>5. IsFiniteSet(sigs[m]) /\ Cardinality(sigs[m]) \in Nat
  BY FS_CardinalityType DEF RowsAdded
<1>6. crashes \in Nat
  BY ParameterAssumption DEF TypeOK
<1> QED BY <1>2, <1>4, <1>5, <1>6

\* Nothing is sent, signed or asked at first.
LEMMA BudgetInit == Init => BudgetInv
<1> SUFFICES ASSUME Init, NEW m \in Messages
             PROVE  /\ IsFiniteSet(sigs[m]) /\ sigs[m] = {}
                    /\ Spent(m) <= Cardinality(sigs[m]) + crashes
  BY DEF BudgetInv, RowsAdded, WithinBudget
<1>1. sigs[m] = {} /\ Sent(m) = {} /\ OnTheWay(m) = {} /\ ~Undecided(m) /\ crashes = 0
  BY DEF Init, Sent, OnTheWay, Asking, Undecided, Queued
<1>2. IsFiniteSet({}) /\ Cardinality({}) = 0
  BY FS_EmptySet
<1> QED BY <1>1, <1>2 DEF Spent

\* Steps that add no signature and send nothing: no request comes to ask, and the
\* message in hand is given back only by a crash.
LEMMA BudgetFrame ==
  ASSUME TypeOK, TypeOK', BudgetInv, UNCHANGED sigs,
         \A m \in Messages : Sent(m)' \subseteq Sent(m) /\ OnTheWay(m)' \subseteq OnTheWay(m),
         \/ crashes' = crashes + 1
         \/ crashes' = crashes /\ \A m \in Messages : Undecided(m)' => Undecided(m),
         \A r \in Requests : req'[r].pc \in Unsigned => req[r].pc \in Unsigned
  PROVE  BudgetInv'
<1>1. RowsAdded'
  <2>1. \A m \in Messages : \A row \in sigs[m] : row.by \in Requests
    BY DEF TypeOK, Row
  <2> QED BY <2>1 DEF BudgetInv, RowsAdded
<1>2. ASSUME NEW m \in Messages PROVE Spent(m)' <= Cardinality(sigs'[m]) + crashes'
  <2>1. /\ IsFiniteSet(Sent(m)) /\ Cardinality(Sent(m)) \in Nat
        /\ IsFiniteSet(OnTheWay(m)) /\ Cardinality(OnTheWay(m)) \in Nat
        /\ Cardinality(sigs[m]) \in Nat /\ crashes \in Nat
    BY CountFacts DEF BudgetInv
  <2>2. /\ Cardinality(Sent(m)') <= Cardinality(Sent(m)) /\ Cardinality(Sent(m)') \in Nat
        /\ Cardinality(OnTheWay(m)') <= Cardinality(OnTheWay(m)) /\ Cardinality(OnTheWay(m)') \in Nat
    BY <2>1, FS_Subset, FS_CardinalityType
  <2>3. Spent(m) <= Cardinality(sigs[m]) + crashes
    BY DEF BudgetInv, WithinBudget
  <2> QED BY <2>1, <2>2, <2>3 DEF Spent
<1> QED BY <1>1, <1>2 DEF BudgetInv, WithinBudget

\* Reading, a request neither comes to ask nor goes back.
LEMMA ReadStepForward ==
  ASSUME TypeOK, NEW r \in Requests, ReadStep(r)
  PROVE  /\ req'[r].pc \in Asking => req[r].pc \in Asking /\ req'[r].msg = req[r].msg
         /\ req'[r].pc \in Unsigned => req[r].pc \in Unsigned
<1>1. ASSUME NEW from \in RequestPC, NEW to \in RequestPC, At(r, from),
             NEW seen \in SUBSET Row, req' = [req EXCEPT ![r].pc = to, ![r].seen = seen]
      PROVE  req'[r].pc = to /\ req'[r].msg = req[r].msg /\ req[r].pc = from
  <2>1. req[r].pc # "idle"
    BY <1>1 DEF At, RequestPC
  <2> QED BY <1>1, <2>1, RequestMoves DEF At
<1>2. ASSUME NEW from \in RequestPC, NEW test, NEW yes \in RequestPC, NEW no \in RequestPC,
             Decide(r, from, test, yes, no)
      PROVE  req'[r].pc \in {yes, no} /\ req'[r].msg = req[r].msg /\ req[r].pc = from
  <2>1. At(r, from) /\ req' = [req EXCEPT ![r].pc = IF test THEN yes ELSE no, ![r].seen = {}]
    BY <1>2 DEF Decide, Goto
  <2>2. (IF test THEN yes ELSE no) \in RequestPC
    OBVIOUS
  <2>3. {} \in SUBSET Row
    OBVIOUS
  <2> QED BY <1>1, <2>1, <2>2, <2>3
<1>3. ASSUME NEW from \in RequestPC, from # "idle", NEW to \in RequestPC, ReadRows(r, from, to)
      PROVE  req'[r].pc = to /\ req'[r].msg = req[r].msg /\ req[r].pc = from
  <2>1. At(r, from) /\ req' = [req EXCEPT ![r].pc = to, ![r].seen = sigs[req[r].msg]]
    BY <1>3 DEF ReadRows
  <2>2. sigs[req[r].msg] \in SUBSET Row
    BY <1>3, <2>1 DEF At, TypeOK, Request
  <2> QED BY <1>1, <2>1, <2>2
<1>4. CASE RequestFails(r)
  <2>1. req[r].pc # "idle" /\ "failed" \in RequestPC
    BY <1>4 DEF RequestFails, Over, RequestPC
  <2> QED BY <1>4, <2>1, RequestGoto DEF RequestFails, Asking, Unsigned
<1>5. {"isPresent", "insert", "unsent", "contain", "purpose", "addSignature", "readRows", "enough",
       "ensureUnsent", "rereadRows", "ensureEnough", "enqueue", "accepted", "failed"}
        \subseteq RequestPC
  BY DEF RequestPC
<1>6. CASE IsPresent(r)
  BY <1>2, <1>5, <1>6 DEF IsPresent, Asking, Unsigned
<1>7. CASE CheckUnsent(r)
  BY <1>2, <1>5, <1>7 DEF CheckUnsent, Asking, Unsigned
<1>8. CASE ContainSignature(r)
  BY <1>2, <1>5, <1>8 DEF ContainSignature, Asking, Unsigned
<1>9. CASE EnsureCorrectKeyPurpose(r)
  BY <1>2, <1>5, <1>9 DEF EnsureCorrectKeyPurpose, Asking, Unsigned
<1>10. CASE IsEnough(r)
  BY <1>2, <1>3, <1>5, <1>10 DEF IsEnough, Asking, Unsigned
<1>11. CASE EnsureUnsent(r)
  BY <1>2, <1>5, <1>11 DEF EnsureUnsent, Asking, Unsigned
<1>12. CASE EnsureEnough(r)
  BY <1>2, <1>3, <1>5, <1>12 DEF EnsureEnough, Asking, Unsigned
<1> QED BY <1>4, <1>6, <1>7, <1>8, <1>9, <1>10, <1>11, <1>12 DEF ReadStep

LEMMA BudgetRequest ==
  ASSUME TypeOK, TypeOK', QueueInv, BudgetInv, NEW r \in Requests,
         ReadStep(r) \/ InsertMessage(r) \/ AddSignature(r) \/ Enqueue(r) \/ SetQueued(r)
  PROVE  BudgetInv'
<1>1. CASE ReadStep(r) \/ InsertMessage(r) \/ SetQueued(r)
  <2>1. UNCHANGED <<sigs, queue, loop, txs, crashes>>
    BY <1>1, ReadStepEffect DEF InsertMessage, SetQueued, db, chain
  <2>2. \A s \in Requests : s # r => req'[s] = req[s]
    BY <1>1, ReadStepEffect, RequestGoto DEF InsertMessage, SetQueued, At, RequestPC
  <2>3. /\ req'[r].pc \in Asking => req[r].pc \in Asking /\ req'[r].msg = req[r].msg
        /\ req'[r].pc \in Unsigned => req[r].pc \in Unsigned
    <3>1. CASE ReadStep(r)
      BY <3>1, ReadStepForward
    <3>2. CASE InsertMessage(r)
      <4>1. req[r].pc = "insert" /\ req'[r].pc \in {"failed", "unsent"}
        BY <3>2, RequestGoto DEF InsertMessage, At, RequestPC
      <4> QED BY <4>1 DEF Asking, Unsigned
    <3>3. CASE SetQueued(r)
      <4>1. req'[r].pc = "queued"
        BY <3>3, RequestGoto DEF SetQueued, At, RequestPC
      <4> QED BY <4>1 DEF Asking, Unsigned
    <3> QED BY <1>1, <3>1, <3>2, <3>3
  <2>4. \A m \in Messages : Sent(m)' = Sent(m) /\ Undecided(m)' = Undecided(m)
    BY <2>1 DEF Sent, Undecided, Queued
  <2>5. \A m \in Messages : OnTheWay(m)' \subseteq OnTheWay(m)
    BY <2>2, <2>3 DEF OnTheWay
  <2>6. \A s \in Requests : req'[s].pc \in Unsigned => req[s].pc \in Unsigned
    BY <2>2, <2>3
  <2> QED BY <2>1, <2>4, <2>5, <2>6, BudgetFrame
<1>2. CASE AddSignature(r)
  <2> DEFINE x == req[r].msg
             row == [key |-> req[r].key, by |-> r]
  <2>1. /\ req[r].pc = "addSignature" /\ req'[r].pc = "readRows" /\ req'[r].msg = x /\ x \in Messages
        /\ \A s \in Requests : s # r => req'[s] = req[s]
    BY <1>2, RequestGoto DEF AddSignature, At, RequestPC
  <2>2. UNCHANGED <<queue, loop, txs, crashes>> /\ sigs' = [sigs EXCEPT ![x] = @ \cup {row}]
    BY <1>2 DEF AddSignature, chain
  <2>3. row \notin sigs[x] /\ row.by = r
    BY <2>1 DEF BudgetInv, RowsAdded, Unsigned
  <2> HIDE DEF row, x
  <2>4. \A m \in Messages : sigs'[m] = IF m = x THEN sigs[m] \cup {row} ELSE sigs[m]
    BY <2>2 DEF TypeOK
  <2>5. \A m \in Messages : IsFiniteSet(sigs'[m])
    <3> SUFFICES ASSUME NEW m \in Messages PROVE IsFiniteSet(sigs'[m])
      OBVIOUS
    <3>1. IsFiniteSet(sigs[m])
      BY DEF BudgetInv, RowsAdded
    <3>2. IsFiniteSet(sigs[m] \cup {row})
      BY <3>1, FS_AddElement
    <3> QED BY <2>4, <3>1, <3>2
  <2>6. RowsAdded'
    <3> SUFFICES ASSUME NEW m \in Messages, NEW other \in sigs'[m]
                 PROVE  req'[other.by].pc \notin Unsigned
      BY <2>5 DEF RowsAdded
    <3>1. CASE other.by = r
      BY <2>1, <3>1 DEF Unsigned
    <3>2. CASE other.by # r
      <4>1. other \in sigs[m]
        BY <2>3, <2>4, <3>2
      <4>2. other.by \in Requests
        BY <4>1 DEF TypeOK, Row
      <4> QED BY <2>1, <3>2, <4>1, <4>2 DEF BudgetInv, RowsAdded
    <3> QED BY <3>1, <3>2
  <2>7. ASSUME NEW m \in Messages PROVE Spent(m)' <= Cardinality(sigs'[m]) + crashes'
    <3>1. Sent(m)' = Sent(m) /\ Undecided(m)' = Undecided(m) /\ crashes' = crashes
      BY <2>2 DEF Sent, Undecided, Queued
    <3>2. /\ Cardinality(Sent(m)) \in Nat /\ IsFiniteSet(OnTheWay(m)) /\ Cardinality(OnTheWay(m)) \in Nat
          /\ IsFiniteSet(sigs[m]) /\ Cardinality(sigs[m]) \in Nat /\ crashes \in Nat
      BY CountFacts DEF BudgetInv
    <3>3. Spent(m) <= Cardinality(sigs[m]) + crashes
      BY DEF BudgetInv, WithinBudget
    <3>4. CASE m = x
      <4>1. OnTheWay(m)' = OnTheWay(m) \cup {r} /\ r \notin OnTheWay(m)
        BY <2>1, <3>4 DEF OnTheWay, Asking
      <4>2. Cardinality(OnTheWay(m)') = Cardinality(OnTheWay(m)) + 1
        BY <3>2, <4>1, FS_AddElement
      <4>3. Cardinality(sigs'[m]) = Cardinality(sigs[m]) + 1
        <5>1. sigs'[m] = sigs[m] \cup {row} /\ row \notin sigs[m]
          BY <2>3, <2>4, <3>4
        <5> QED BY <3>2, <5>1, FS_AddElement
      <4> QED BY <3>1, <3>2, <3>3, <4>2, <4>3 DEF Spent
    <3>5. CASE m # x
      <4>1. OnTheWay(m)' = OnTheWay(m)
        BY <2>1, <3>5 DEF OnTheWay, Asking, x
      <4>2. sigs'[m] = sigs[m]
        BY <2>4, <3>5
      <4> QED BY <3>1, <3>3, <4>1, <4>2 DEF Spent
    <3> QED BY <3>4, <3>5
  <2> QED BY <2>6, <2>7 DEF BudgetInv, WithinBudget
<1>3. CASE Enqueue(r)
  <2> DEFINE x == req[r].msg
  <2>1. /\ req[r].pc = "enqueue" /\ req'[r].pc \in {"failed", "setQueued"} /\ x \in Messages
        /\ \A s \in Requests : s # r => req'[s] = req[s]
    BY <1>3, RequestGoto DEF Enqueue, At, RequestPC
  <2>2. /\ UNCHANGED <<sigs, loop, txs, crashes>>
        /\ queue' = IF Queued(x) THEN queue ELSE Append(queue, x)
    BY <1>3 DEF Enqueue, chain
  <2> HIDE DEF x
  <2>3. \A m \in Messages : Queued(m)' <=> Queued(m) \/ m = x
    <3>1. queue \in Seq(Messages)
      BY DEF TypeOK
    <3> QED BY <2>1, <2>2, <3>1 DEF Queued
  <2>4. \A s \in Requests : req'[s].pc \in Unsigned => req[s].pc \in Unsigned
    BY <2>1 DEF Unsigned
  <2>5. RowsAdded'
    <3>1. \A m \in Messages : \A row \in sigs[m] : row.by \in Requests
      BY DEF TypeOK, Row
    <3> QED BY <2>2, <2>4, <3>1 DEF BudgetInv, RowsAdded
  <2>6. ASSUME NEW m \in Messages PROVE Spent(m)' <= Cardinality(sigs'[m]) + crashes'
    <3>1. Sent(m)' = Sent(m) /\ crashes' = crashes /\ sigs' = sigs
      BY <2>2 DEF Sent
    <3>2. /\ Cardinality(Sent(m)) \in Nat /\ IsFiniteSet(OnTheWay(m)) /\ Cardinality(OnTheWay(m)) \in Nat
          /\ Cardinality(sigs[m]) \in Nat /\ crashes \in Nat
      BY CountFacts DEF BudgetInv
    <3>3. Spent(m) <= Cardinality(sigs[m]) + crashes
      BY DEF BudgetInv, WithinBudget
    <3>4. CASE m = x
      <4>1. OnTheWay(m)' = OnTheWay(m) \ {r} /\ r \in OnTheWay(m)
        BY <2>1, <3>4 DEF OnTheWay, Asking, x
      <4>2. Cardinality(OnTheWay(m)') = Cardinality(OnTheWay(m)) - 1
        BY <3>2, <4>1, FS_RemoveElement
      <4> QED BY <3>1, <3>2, <3>3, <4>2 DEF Spent
    <3>5. CASE m # x
      <4>1. OnTheWay(m)' = OnTheWay(m)
        BY <2>1, <3>5 DEF OnTheWay, Asking, x
      <4>2. Undecided(m)' = Undecided(m)
        BY <2>2, <2>3, <3>5 DEF Undecided
      <4> QED BY <3>1, <3>3, <4>1, <4>2 DEF Spent
    <3> QED BY <3>4, <3>5
  <2> QED BY <2>5, <2>6 DEF BudgetInv, WithinBudget
<1> QED BY <1>1, <1>2, <1>3

\* Sending uses up the item in hand; removing it gives nothing back.
LEMMA BudgetLoop ==
  ASSUME TypeOK, TypeOK', QueueInv, OrderInv, BudgetInv, LoopStep
  PROVE  BudgetInv'
<1>1. UNCHANGED <<sigs, req, crashes>>
  BY DEF LoopStep, GetNext, SetPending, GetMessage, Validate, SendTransaction, SendFails,
         WaitForTransaction, OnTransactionSent, ExecuteFails, MarkAsSuccess, MarkAsError, Remove,
         db, chain
<1>2. ASSUME UNCHANGED txs, \A m \in Messages : Undecided(m)' => Undecided(m)
      PROVE  BudgetInv'
  <2>1. \A m \in Messages : Sent(m)' = Sent(m) /\ OnTheWay(m)' = OnTheWay(m)
    BY <1>1, <1>2 DEF Sent, OnTheWay
  <2> QED BY <1>1, <1>2, <2>1, BudgetFrame
<1>3. CASE GetNext \/ SetPending \/ GetMessage \/ Validate \/ WaitForTransaction
           \/ OnTransactionSent \/ ExecuteFails \/ MarkAsSuccess \/ MarkAsError
  <2>1. UNCHANGED <<queue, txs>>
    BY <1>3 DEF GetNext, SetPending, GetMessage, Validate, WaitForTransaction, OnTransactionSent,
                ExecuteFails, MarkAsSuccess, MarkAsError, db, chain
  <2>2. loop.pc \in Decided => loop'.pc \in Decided /\ loop'.msg = loop.msg
    <3>1. CASE GetNext \/ SetPending \/ GetMessage \/ Validate
      BY <3>1 DEF GetNext, SetPending, GetMessage, Validate, LoopAt, Decided
    <3>2. CASE WaitForTransaction \/ OnTransactionSent \/ MarkAsError
      <4>1. loop \in [pc : {"wait", "onTransactionSent", "markAsSuccess"}, msg : Messages, tx : Nat]
              \/ loop \in [pc : {"pending", "getMessage", "markAsError", "remove"}, msg : Messages]
        BY <3>2 DEF WaitForTransaction, OnTransactionSent, MarkAsError, LoopAt, TypeOK, Loop
      <4>2. \E pc \in Decided : loop' = [loop EXCEPT !.pc = pc]
        BY <3>2 DEF WaitForTransaction, OnTransactionSent, MarkAsError, LoopTo, Decided
      <4> QED BY <4>1, <4>2
    <3>3. CASE ExecuteFails
      BY <3>3 DEF ExecuteFails, Decided
    <3>4. CASE MarkAsSuccess
      BY <3>4 DEF MarkAsSuccess, Decided
    <3> QED BY <1>3, <3>1, <3>2, <3>3, <3>4
  <2>3. \A m \in Messages : Undecided(m)' => Undecided(m)
    BY <2>1, <2>2 DEF Undecided, Queued
  <2> QED BY <1>2, <2>1, <2>3
<1>4. CASE SendTransaction \/ SendFails
  <2>0. loop.pc = "send" /\ loop.msg \in Messages
    BY <1>4, LoopFacts DEF SendTransaction, SendFails, LoopAt, Working
  <2>1. PICK x \in Messages : /\ x = loop.msg /\ loop.pc = "send"
                              /\ loop'.pc \in Decided /\ loop'.msg = x
                              /\ queue' = queue
    BY <1>4, <2>0 DEF SendTransaction, SendFails, Decided, db
  <2>2. Undecided(x) /\ ~Undecided(x)'
    <3>1. Queued(x)
      BY <2>1 DEF QueueInv, PendingIsQueued, Working
    <3> QED BY <2>1, <3>1 DEF Undecided, Decided
  <2>3. \A m \in Messages : m # x => Undecided(m)' = Undecided(m)
    BY <2>1 DEF Undecided, Queued, Decided
  <2>4. CASE UNCHANGED txs
    BY <1>2, <2>2, <2>3, <2>4
  <2>5. CASE Broadcast
    <3> DEFINE n == Len(txs) + 1
    <3>1. /\ n \notin DOMAIN txs /\ DOMAIN txs' = DOMAIN txs \cup {n}
          /\ \A i \in DOMAIN txs : txs'[i] = txs[i]
          /\ txs'[n].msg = x
      BY <2>1, <2>5 DEF Broadcast, TypeOK
    <3> HIDE DEF n
    <3>2. /\ Sent(x)' = Sent(x) \cup {n} /\ n \notin Sent(x)
          /\ \A m \in Messages : m # x => Sent(m)' = Sent(m)
      BY <3>1 DEF Sent
    <3>3. RowsAdded'
      BY <1>1 DEF BudgetInv, RowsAdded
    <3>4. ASSUME NEW m \in Messages PROVE Spent(m)' <= Cardinality(sigs'[m]) + crashes'
      <4>1. OnTheWay(m)' = OnTheWay(m)
        BY <1>1 DEF OnTheWay
      <4>2. /\ IsFiniteSet(Sent(m)) /\ Cardinality(Sent(m)) \in Nat
            /\ Cardinality(OnTheWay(m)) \in Nat
            /\ Cardinality(sigs[m]) \in Nat /\ crashes \in Nat
        BY CountFacts DEF BudgetInv
      <4>3. Spent(m) <= Cardinality(sigs[m]) + crashes
        BY DEF BudgetInv, WithinBudget
      <4>4. CASE m = x
        <5>1. Cardinality(Sent(m)') = Cardinality(Sent(m)) + 1
          BY <3>2, <4>2, <4>4, FS_AddElement
        <5>2. Undecided(m) /\ ~Undecided(m)'
          BY <2>2, <4>4
        <5> QED BY <1>1, <4>1, <4>2, <4>3, <5>1, <5>2 DEF Spent
      <4>5. CASE m # x
        <5>1. Sent(m)' = Sent(m) /\ Undecided(m)' = Undecided(m)
          BY <2>3, <3>2, <4>5
        <5> QED BY <1>1, <4>1, <4>3, <5>1 DEF Spent
      <4> QED BY <4>4, <4>5
    <3> QED BY <3>3, <3>4 DEF BudgetInv, WithinBudget
  <2> QED BY <1>4, <2>4, <2>5 DEF SendTransaction, SendFails
<1>5. CASE Remove
  <2>0. loop.pc = "remove" /\ loop' = [pc |-> "next"] /\ queue' = Without(queue, loop.msg)
    BY <1>5 DEF Remove, LoopAt
  <2>1. loop.msg \in Messages
    BY <2>0, LoopFacts DEF Working
  <2>2. queue # << >> /\ queue[1] = loop.msg /\ queue \in Seq(Messages)
    BY <2>0 DEF OrderInv, LoopTakesOldest, Working, TypeOK
  <2>3. \A i, j \in DOMAIN queue : queue[i] = queue[j] => i = j
    BY DEF QueueInv, QueuedAtMostOnce
  <2>4. queue' = Tail(queue)
    BY <2>0, <2>2, <2>3, WithoutHead
  <2>5. DOMAIN queue = 1..Len(queue) /\ Len(queue) \in Nat \ {0}
    BY <2>2, EmptySeq
  <2>6. \A i \in DOMAIN queue' : i + 1 \in DOMAIN queue /\ i + 1 # 1 /\ queue'[i] = queue[i + 1]
    BY <2>2, <2>4, <2>5
  <2>7. \A m \in Messages : Undecided(m)' => Undecided(m)
    <3> SUFFICES ASSUME NEW m \in Messages, Undecided(m)' PROVE Undecided(m)
      OBVIOUS
    <3>1. PICK i \in DOMAIN queue' : queue'[i] = m
      BY DEF Undecided, Queued
    <3>2. i + 1 \in DOMAIN queue /\ i + 1 # 1 /\ queue[i + 1] = m /\ 1 \in DOMAIN queue
      BY <2>5, <2>6, <3>1
    <3>3. m # loop.msg
      BY <2>2, <2>3, <3>2
    <3> QED BY <3>2, <3>3 DEF Undecided, Queued
  <2>8. UNCHANGED txs
    BY <1>5 DEF Remove, chain
  <2> QED BY <1>2, <2>7, <2>8
<1> QED BY <1>3, <1>4, <1>5 DEF LoopStep

LEMMA BudgetStep ==
  TypeOK /\ TypeOK' /\ QueueInv /\ OrderInv /\ BudgetInv /\ [Next]_vars => BudgetInv'
<1> SUFFICES ASSUME TypeOK, TypeOK', QueueInv, OrderInv, BudgetInv, [Next]_vars PROVE BudgetInv'
  OBVIOUS
<1>1. ASSUME UNCHANGED <<sigs, queue, loop, req, crashes>>,
             \A m \in Messages : Sent(m)' = Sent(m)
      PROVE  BudgetInv'
  <2>1. \A m \in Messages : OnTheWay(m)' = OnTheWay(m) /\ Undecided(m)' = Undecided(m)
    BY <1>1 DEF OnTheWay, Undecided, Queued
  <2> QED BY <1>1, <2>1, BudgetFrame
<1>2. ASSUME NEW r \in Requests, NEW input \in Inputs, Receive(r, input[1], input[2])
      PROVE  BudgetInv'
  <2>1. /\ UNCHANGED <<sigs, queue, loop, txs, crashes>>
        /\ req[r].pc = "idle" /\ req'[r].pc = "isPresent"
        /\ \A s \in Requests : s # r => req'[s] = req[s]
    BY <1>2 DEF Receive, At, db, chain, TypeOK
  <2>2. \A m \in Messages : /\ Sent(m)' = Sent(m) /\ Undecided(m)' = Undecided(m)
                            /\ OnTheWay(m)' \subseteq OnTheWay(m)
    BY <2>1 DEF Sent, Undecided, Queued, OnTheWay, Asking
  <2>3. \A s \in Requests : req'[s].pc \in Unsigned => req[s].pc \in Unsigned
    BY <2>1 DEF Unsigned
  <2> QED BY <2>1, <2>2, <2>3, BudgetFrame
<1>4. ASSUME NEW i \in DOMAIN txs, NEW ok \in BOOLEAN, Mine(i, ok) PROVE BudgetInv'
  <2>1. Mine(i, ok)
    BY <1>4
  <2>2. UNCHANGED <<sigs, queue, loop, req, crashes>>
    BY <2>1 DEF Mine, db
  <2>3. /\ DOMAIN txs' = DOMAIN txs
        /\ \A j \in DOMAIN txs : txs'[j].msg = txs[j].msg
    BY <2>1 DEF Mine, TypeOK, Tx
  <2>4. \A m \in Messages : Sent(m)' = Sent(m)
    BY <2>3 DEF Sent
  <2> QED BY <1>1, <2>2, <2>4
<1>5. ASSUME NEW newOwners \in SUBSET Keys, NEW newRequired \in Thresholds,
             ChangeWallet(newOwners, newRequired)
      PROVE  BudgetInv'
  BY <1>1, <1>5 DEF ChangeWallet, db, Sent
<1>6. CASE Crash
  <2>1. UNCHANGED <<sigs, txs>> /\ crashes' = crashes + 1
    BY <1>6 DEF Crash, db, chain
  <2>2. \A r \in Requests : req'[r] = req[r] \/ req'[r].pc = "failed"
    <3> SUFFICES ASSUME NEW r \in Requests, ~Over(r) PROVE req'[r].pc = "failed"
      BY <1>6 DEF Crash
    <3>1. req[r] \in [pc : RequestPC, msg : Messages, key : Keys, seen : SUBSET Row]
      BY DEF Over, TypeOK, Request
    <3>2. req'[r] = [req[r] EXCEPT !.pc = "failed", !.seen = {}]
      BY <1>6 DEF Crash
    <3> QED BY <3>1, <3>2
  <2>3. \A m \in Messages : Sent(m)' = Sent(m) /\ OnTheWay(m)' \subseteq OnTheWay(m)
    BY <2>1, <2>2 DEF Sent, OnTheWay, Asking
  <2>4. \A r \in Requests : req'[r].pc \in Unsigned => req[r].pc \in Unsigned
    BY <2>2 DEF Unsigned
  <2> QED BY <2>1, <2>3, <2>4, BudgetFrame
<1>7. CASE Restart
  <2>1. UNCHANGED <<sigs, queue, req, txs, crashes>> /\ loop.pc = "down" /\ loop' = [pc |-> "next"]
    BY <1>7 DEF Restart, Up, db, chain
  <2>2. \A m \in Messages : /\ Sent(m)' = Sent(m) /\ OnTheWay(m)' = OnTheWay(m)
                            /\ Undecided(m)' => Undecided(m)
    BY <2>1 DEF Sent, OnTheWay, Undecided, Queued, Decided
  <2> QED BY <2>1, <2>2, BudgetFrame
<1>8. CASE UNCHANGED vars
  BY <1>1, <1>8 DEF vars, db, chain, Sent
<1> QED BY <1>2, <1>4, <1>5, <1>6, <1>7, <1>8, NextCases, BudgetRequest, BudgetLoop

-----------------------------------------------------------------------------
(***************************************************************************)
(* The theorems.                                                           *)
(***************************************************************************)
\* Every reachable state satisfies the three layers.
THEOREM Invariance == Spec => [](TypeOK /\ QueueInv /\ ChainInv)
<1>1. Init => TypeOK /\ QueueInv /\ ChainInv
  BY TypeInit, QueueInit, ChainInit
<1>2. TypeOK /\ QueueInv /\ ChainInv /\ [Next]_vars => (TypeOK /\ QueueInv /\ ChainInv)'
  BY TypeStep, QueueStep, ChainStep
<1> QED BY <1>1, <1>2, PTL DEF Spec

\* The tables, requests, loop and chain have their types, whatever the bounds.
THEOREM TypeCorrect == Spec => []TypeOK
BY Invariance, PTL

\* No message that was queued is lost, however the requests, the loop and the
\* crashes interleave (QueueService.ts:23-40).
THEOREM QueueSafety == Spec => [](QueuedSurvives /\ PendingIsQueued)
<1>1. QueueInv => QueuedSurvives /\ PendingIsQueued
  BY DEF QueueInv
<1> QED BY Invariance, <1>1, PTL

\* A stored transaction hash belongs to the message and has a receipt
\* (QueueService.ts:33-34).
THEOREM HashSafety == Spec => []HashMeansReceipt
<1>1. ChainInv => HashMeansReceipt
  BY DEF ChainInv
<1> QED BY Invariance, <1>1, PTL

\* The relayer implements the durable queue: however requests, loop, blocks and
\* crashes interleave, items wait in order, leave with an outcome of their own,
\* and nothing executes that was not queued (QueueService.ts:23-40).
THEOREM RelayImplementsQueue == Spec => QueueIsDurable
<1>1. Init => OrderInv /\ Durable!Init
  BY OrderInit
<1>2. (TypeOK /\ QueueInv /\ ChainInv) /\ OrderInv /\ [Next]_vars => OrderInv' /\ DurableStep
  BY OrderStep
<1> QED BY <1>1, <1>2, Invariance, PTL DEF Spec, QueueIsDurable, Durable!Spec, DurableStep

\* The relayer pays for no more transactions of a message than there are
\* signatures stored for it and crashes, however requests, loop and crashes
\* interleave (PendingMessages.ts:34-52, QueueService.ts:29-40).
THEOREM SendsBounded == Spec => []SentOncePerSignature
<1> DEFINE Layers == TypeOK /\ QueueInv /\ ChainInv
<1>1. Init => OrderInv /\ BudgetInv
  BY OrderInit, BudgetInit
<1>2. Layers /\ Layers' /\ OrderInv /\ BudgetInv /\ [Next]_vars => (OrderInv /\ BudgetInv)'
  BY OrderStep, BudgetStep
<1>3. Layers /\ BudgetInv => SentOncePerSignature
  <2> SUFFICES ASSUME TypeOK, BudgetInv, NEW m \in Messages
               PROVE  Cardinality(Sent(m)) <= Cardinality(sigs[m]) + crashes
    BY DEF SentOncePerSignature, Sent
  <2>1. /\ Cardinality(Sent(m)) \in Nat /\ Cardinality(OnTheWay(m)) \in Nat
        /\ Cardinality(sigs[m]) \in Nat /\ crashes \in Nat
    BY CountFacts DEF BudgetInv
  <2> QED BY <2>1 DEF BudgetInv, WithinBudget, Spent
<1> HIDE DEF Layers
<1>4. Spec => []Layers
  BY Invariance DEF Layers
<1> QED BY <1>1, <1>2, <1>3, <1>4, PTL DEF Spec

\* What may be concluded from QueueIsDurable alone, by whoever knows nothing of
\* requests, loop and crashes: one item, one execution, one message per nonce.
ExecutedOnce ==
  /\ \A i \in DOMAIN executed : NonceOf[executed[i]] = i - 1
  /\ \A i, j \in DOMAIN executed : executed[i] = executed[j] => i = j

QueuePromises == QueuedAtMostOnce /\ ExecutedOnce

\* DurableQueue is not too little to promise: a message has one item in it at
\* most, and nothing that keeps to it executes a message or spends a nonce twice
\* (QueueSQLStore.ts:12-36, MessageExecutor.ts:15).
THEOREM PromiseSuffices == QueueIsDurable => []QueuePromises
<1> DEFINE Positions == \A i \in DOMAIN executed : NonceOf[executed[i]] = i - 1
           Items == queue \in Seq(Messages) /\ executed \in Seq(Messages)
           Kept == Items /\ QueuedAtMostOnce /\ Positions
<1>1. Durable!Init => Kept
  BY DEF Durable!Init, QueuedAtMostOnce
<1>2. Kept /\ [Durable!Next]_<<queue, settled, executed>> => Kept'
  <2> SUFFICES ASSUME Items, QueuedAtMostOnce, Positions, [Durable!Next]_<<queue, settled, executed>>
               PROVE  Kept'
    OBVIOUS
  <2>1. ASSUME NEW m \in Messages, Durable!Post(m) PROVE Kept'
    <3>1. queue' = Append(queue, m) /\ executed' = executed /\ \A i \in DOMAIN queue : queue[i] # m
      BY <2>1 DEF Durable!Post, Durable!Waits
    <3>2. queue' \in Seq(Messages) /\ QueuedAtMostOnce'
      BY <3>1 DEF QueuedAtMostOnce
    <3> QED BY <3>1, <3>2
  <2>2. CASE Durable!Record
    BY <2>2 DEF Durable!Record, QueuedAtMostOnce
  <2>3. CASE Durable!Leave
    <3>1. queue # << >> /\ queue' = Tail(queue) /\ executed' = executed
      BY <2>3 DEF Durable!Leave
    <3>2. queue' \in Seq(Messages) /\ QueuedAtMostOnce'
      BY <3>1 DEF QueuedAtMostOnce
    <3> QED BY <3>1, <3>2
  <2>4. ASSUME NEW m \in Messages, Durable!Execute(m) PROVE Kept'
    <3>1. NonceOf[m] = Len(executed) /\ executed' = Append(executed, m) /\ queue' = queue
      BY <2>4 DEF Durable!Execute
    <3>2. executed' \in Seq(Messages) /\ Positions'
      BY <3>1
    <3> QED BY <3>1, <3>2 DEF QueuedAtMostOnce
  <2>5. CASE UNCHANGED <<queue, settled, executed>>
    BY <2>5 DEF QueuedAtMostOnce
  <2> QED BY <2>1, <2>2, <2>3, <2>4, <2>5 DEF Durable!Next
<1>3. Kept => QueuePromises
  BY DEF QueuePromises, ExecutedOnce
<1> QED BY <1>1, <1>2, <1>3, PTL DEF QueueIsDurable, Durable!Spec
=============================================================================
