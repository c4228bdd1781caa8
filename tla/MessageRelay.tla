---------------------------- MODULE MessageRelay ----------------------------
(***************************************************************************)
(* The relayer's path of a signed message: PendingMessages collects        *)
(* signatures, QueueService executes what has enough of them, the database *)
(* (messages, signature_key_pairs, queue_items) outlives the process, the  *)
(* blockchain outlives both.                                               *)
(*                                                                         *)
(* Node runs one callback at a time, so a step here is what happens        *)
(* between two awaits: at most one database query or one call to the       *)
(* blockchain, and the code up to the next one.  Requests and the queue    *)
(* loop interleave at every await.  A crash forgets the requests and the   *)
(* position of the loop.                                                   *)
(***************************************************************************)
EXTENDS Integers, Sequences, FiniteSets

CONSTANTS
  Messages,     \* message hashes; all are messages of one wallet contract
  NonceOf,      \* NonceOf[m]: the wallet nonce that m is signed for
  Keys,         \* the keys that sign, whether or not they own the wallet
  Requests,     \* bound: the POST /wallet/execution calls, each made once
  Inputs,       \* the <<message, signing key>> pairs that are posted
  Thresholds,   \* the values requiredSignatures takes
  MaxChanges,   \* bound: changes of owners and requiredSignatures meanwhile
  MaxCrashes    \* bound: crashes of the relayer

ASSUME ParameterAssumption ==
  /\ NonceOf \in [Messages -> Nat]
  /\ Inputs \subseteq Messages \X Keys
  /\ Thresholds \subseteq Nat \ {0} /\ Thresholds # {}
  /\ MaxChanges \in Nat /\ MaxCrashes \in Nat
  /\ IsFiniteSet(Requests) /\ IsFiniteSet(Keys)

VARIABLES
  message,    \* table messages: state, error and transactionHash of each
  sigs,       \* table signature_key_pairs: the rows of each message
  queue,      \* table queue_items, oldest first
  req,        \* the requests: where each stands, and what it posted
  loop,       \* the loop of QueueService.execute, and its local variables
  owners,     \* on chain: the keys with a purpose
  required,   \* on chain: requiredSignatures
  executed,   \* on chain: the messages executed, in nonce order
  txs,        \* the transactions the relayer has broadcast, oldest first
  changes, crashes,   \* how often the bounded events have happened
  settled     \* history: the messages marked Success or Error since last queued

db == <<message, sigs, queue>>
chain == <<owners, required, executed, txs, changes>>
vars == <<db, req, loop, chain, crashes, settled>>

None == "none"
MessageState == {"AwaitSignature", "Queued", "Pending", "Success", "Error"}

\* A row of signature_key_pairs.  The table has no key over signatures, so
\* two requests that add the same one leave two rows.
Row == [key : Keys, by : Requests]

NoTx == 0

\* A broadcast transaction and the rows its signatures were taken from.
Tx == [msg : Messages, rows : SUBSET Row, status : {"sent", "mined", "reverted"}]

\* A request at an await, or over; `seen` holds the rows it has read for a
\* comparison with a threshold that it has yet to read.
RequestPC ==
  {"isPresent", "insert", "unsent", "contain", "purpose", "addSignature",
   "readRows", "enough", "ensureUnsent", "rereadRows", "ensureEnough", "enqueue", "setQueued",
   "accepted", "queued", "failed"}
Request ==
  [pc : {"idle"}] \cup [pc : RequestPC, msg : Messages, key : Keys, seen : SUBSET Row]

\* The loop at an await, with the local variables that are still read.
Loop ==
  [pc : {"down", "next"}] \cup
  [pc : {"pending", "getMessage", "markAsError", "remove"}, msg : Messages] \cup
  [pc : {"validate", "send"}, msg : Messages, rows : SUBSET Row] \cup
  [pc : {"wait", "onTransactionSent", "markAsSuccess"}, msg : Messages, tx : Nat]

Up == loop.pc # "down"
Working == loop.pc \notin {"down", "next"}
Waiting == loop.pc \in {"wait", "onTransactionSent", "markAsSuccess"}
Queued(m) == \E i \in DOMAIN queue : queue[i] = m

-----------------------------------------------------------------------------
(***************************************************************************)
(* The wallet contract as the relayer meets it.                            *)
(***************************************************************************)
\* executeSigned succeeds for these signatures: sorted by key they ascend
\* strictly, unless one key occurs twice.
Executable(m, rows) ==
  /\ rows # {}
  /\ Cardinality(rows) >= required
  /\ NonceOf[m] = Len(executed)
  /\ \A row \in rows : row.key \in owners
  /\ \A x, y \in rows : x.key = y.key => x = y

Init ==
  /\ message = [m \in Messages |-> [state |-> None, error |-> FALSE, tx |-> NoTx]]
  /\ sigs = [m \in Messages |-> {}]
  /\ queue = << >>
  /\ req = [r \in Requests |-> [pc |-> "idle"]]
  /\ loop = [pc |-> "next"]
  /\ owners \in SUBSET Keys /\ required \in Thresholds
  /\ executed = << >> /\ txs = << >>
  /\ changes = 0 /\ crashes = 0 /\ settled = {}

-----------------------------------------------------------------------------
(***************************************************************************)
(* PendingMessages.add, one request.                                       *)
(***************************************************************************)
At(r, pc) == req[r].pc = pc
Goto(r, pc) == req' = [req EXCEPT ![r].pc = pc, ![r].seen = {}]

Receive(r, m, key) ==
  /\ Up /\ At(r, "idle")
  /\ req' = [req EXCEPT ![r] = [pc |-> "isPresent", msg |-> m, key |-> key, seen |-> {}]]
  /\ UNCHANGED <<db, loop, chain, crashes, settled>>

\* A step that only reads and decides.
Decide(r, from, test, yes, no) ==
  /\ At(r, from)
  /\ Goto(r, IF test THEN yes ELSE no)
  /\ UNCHANGED <<db, loop, chain, crashes, settled>>

Present(m) == message[m].state # None
Unsent(m) == message[m].tx = NoTx
Signed(m, key) == \E row \in sigs[m] : row.key = key
Enough(rows) == Cardinality(rows) >= required

IsPresent(r) == Decide(r, "isPresent", Present(req[r].msg), "unsent", "insert")

\* messageHash is the primary key: the insert of a second request fails.
InsertMessage(r) ==
  LET m == req[r].msg
  IN /\ At(r, "insert")
     /\ Goto(r, IF Present(m) THEN "failed" ELSE "unsent")
     /\ message' = IF Present(m) THEN message
                   ELSE [message EXCEPT ![m].state = "AwaitSignature"]
     /\ UNCHANGED <<sigs, queue, loop, chain, crashes, settled>>

CheckUnsent(r) == Decide(r, "unsent", Unsent(req[r].msg), "contain", "failed")

ContainSignature(r) ==
  Decide(r, "contain", Signed(req[r].msg, req[r].key), "failed", "purpose")

EnsureCorrectKeyPurpose(r) ==
  Decide(r, "purpose", req[r].key \in owners, "addSignature", "failed")

AddSignature(r) ==
  /\ At(r, "addSignature")
  /\ Goto(r, "readRows")
  /\ sigs' = [sigs EXCEPT ![req[r].msg] = @ \cup {[key |-> req[r].key, by |-> r]}]
  /\ UNCHANGED <<message, queue, loop, chain, crashes, settled>>

\* getStatus reads the rows of the message, then the threshold on chain.
ReadRows(r, from, to) ==
  /\ At(r, from)
  /\ req' = [req EXCEPT ![r].pc = to, ![r].seen = sigs[req[r].msg]]
  /\ UNCHANGED <<db, loop, chain, crashes, settled>>

IsEnough(r) ==
  \/ ReadRows(r, "readRows", "enough")
  \/ Decide(r, "enough", Enough(req[r].seen), "ensureUnsent", "accepted")

EnsureUnsent(r) == Decide(r, "ensureUnsent", Unsent(req[r].msg), "rereadRows", "failed")

EnsureEnough(r) ==
  \/ ReadRows(r, "rereadRows", "ensureEnough")
  \/ Decide(r, "ensureEnough", Enough(req[r].seen), "enqueue", "failed")

\* QueueSQLStore.add: hash is the primary key of queue_items.
Enqueue(r) ==
  LET m == req[r].msg
  IN /\ At(r, "enqueue")
     /\ Goto(r, IF Queued(m) THEN "failed" ELSE "setQueued")
     /\ queue' = IF Queued(m) THEN queue ELSE Append(queue, m)
     /\ settled' = IF Queued(m) THEN settled ELSE settled \ {m}
     /\ UNCHANGED <<message, sigs, loop, chain, crashes>>

SetQueued(r) ==
  /\ At(r, "setQueued")
  /\ Goto(r, "queued")
  /\ message' = [message EXCEPT ![req[r].msg].state = "Queued"]
  /\ UNCHANGED <<sigs, queue, loop, chain, crashes, settled>>

RequestStep(r) ==
  /\ Up
  /\ \/ IsPresent(r) \/ InsertMessage(r) \/ CheckUnsent(r) \/ ContainSignature(r)
     \/ EnsureCorrectKeyPurpose(r) \/ AddSignature(r)
     \/ IsEnough(r) \/ EnsureUnsent(r) \/ EnsureEnough(r) \/ Enqueue(r) \/ SetQueued(r)

Over(r) == req[r].pc \in {"idle", "accepted", "queued", "failed"}

\* A query or a call to the blockchain rejects: what the request has written
\* so far stays written.
RequestFails(r) ==
  /\ Up /\ ~Over(r)
  /\ Goto(r, "failed")
  /\ UNCHANGED <<db, loop, chain, crashes, settled>>

-----------------------------------------------------------------------------
(***************************************************************************)
(* QueueService.loop and execute, with MessageExecutor.executeAndWait.     *)
(***************************************************************************)
LoopAt(pc) == loop.pc = pc
LoopTo(pc) == loop' = [loop EXCEPT !.pc = pc]

\* Variant: the item leaves the queue when the loop takes it.
GetNextAndForget ==
  /\ LoopAt("next") /\ queue # << >>
  /\ loop' = [pc |-> "pending", msg |-> Head(queue)]
  /\ queue' = Tail(queue)
  /\ UNCHANGED <<message, sigs, req, chain, crashes, settled>>

\* Variant: the newest item first.
GetNextNewest ==
  /\ LoopAt("next") /\ queue # << >>
  /\ loop' = [pc |-> "pending", msg |-> queue[Len(queue)]]
  /\ UNCHANGED <<db, req, chain, crashes, settled>>

\* The loop stays where it is, and tries again a tick later, while the queue
\* is empty.
GetNext ==
  /\ LoopAt("next") /\ queue # << >>
  /\ loop' = [pc |-> "pending", msg |-> Head(queue)]
  /\ UNCHANGED <<db, req, chain, crashes, settled>>

SetPending ==
  /\ LoopAt("pending") /\ LoopTo("getMessage")
  /\ message' = [message EXCEPT ![loop.msg].state = "Pending"]
  /\ UNCHANGED <<sigs, queue, req, chain, crashes, settled>>

\* The signatures collected by now are the ones that will be sent.
GetMessage ==
  /\ LoopAt("getMessage")
  /\ loop' = [pc |-> "validate", msg |-> loop.msg, rows |-> sigs[loop.msg]]
  /\ UNCHANGED <<db, req, chain, crashes, settled>>

\* MessageValidator: estimateGas fails for what executeSigned would refuse.
Validate ==
  /\ LoopAt("validate")
  /\ Executable(loop.msg, loop.rows)
  /\ LoopTo("send")
  /\ UNCHANGED <<db, req, chain, crashes, settled>>

\* The try block of execute throws.  Any of its queries may be refused, the
\* validator may refuse any message (proxy, tokens, gas), and the callback of
\* MessageHandler, run when the transaction is mined, writes to the database.
ExecuteFails ==
  /\ loop.pc \in {"getMessage", "validate", "onTransactionSent", "markAsSuccess"}
  /\ loop' = [pc |-> "markAsError", msg |-> loop.msg]
  /\ UNCHANGED <<db, req, chain, crashes, settled>>

Broadcast ==
  txs' = Append(txs, [msg |-> loop.msg, rows |-> loop.rows, status |-> "sent"])

\* Variant: nobody waits for the transaction to be mined.
SendTransactionOnly ==
  /\ LoopAt("send")
  /\ Broadcast
  /\ loop' = [pc |-> "onTransactionSent", msg |-> loop.msg, tx |-> Len(txs) + 1]
  /\ UNCHANGED <<db, req, owners, required, executed, changes, crashes, settled>>

\* Variant: the hash of a transaction that was never broadcast.
SendTransactionUnsent ==
  /\ LoopAt("send")
  /\ loop' = [pc |-> "wait", msg |-> loop.msg, tx |-> Len(txs) + 1]
  /\ UNCHANGED <<db, req, chain, crashes, settled>>

SendTransaction ==
  /\ LoopAt("send")
  /\ Broadcast
  /\ loop' = [pc |-> "wait", msg |-> loop.msg, tx |-> Len(txs) + 1]
  /\ UNCHANGED <<db, req, owners, required, executed, changes, crashes, settled>>

\* sendTransaction rejects, before or after the node has broadcast it.
SendFails ==
  /\ LoopAt("send")
  /\ loop' = [pc |-> "markAsError", msg |-> loop.msg]
  /\ Broadcast \/ UNCHANGED txs
  /\ UNCHANGED <<db, req, owners, required, executed, changes, crashes, settled>>

\* Variant: only a successful receipt ends the wait.
WaitForSuccess ==
  /\ LoopAt("wait") /\ txs[loop.tx].status = "mined"
  /\ LoopTo("onTransactionSent")
  /\ UNCHANGED <<db, req, chain, crashes, settled>>

\* Any receipt ends waitForTransaction: its status is not looked at.
WaitForTransaction ==
  /\ LoopAt("wait") /\ txs[loop.tx].status # "sent"
  /\ LoopTo("onTransactionSent")
  /\ UNCHANGED <<db, req, chain, crashes, settled>>

OnTransactionSent ==
  /\ LoopAt("onTransactionSent") /\ LoopTo("markAsSuccess")
  /\ UNCHANGED <<db, req, chain, crashes, settled>>

MarkAsSuccess ==
  /\ LoopAt("markAsSuccess")
  /\ loop' = [pc |-> "remove", msg |-> loop.msg]
  /\ message' = [message EXCEPT ![loop.msg].state = "Success", ![loop.msg].tx = loop.tx]
  /\ settled' = settled \cup {loop.msg}
  /\ UNCHANGED <<sigs, queue, req, chain, crashes>>

\* Variant: the error is not written to the message.
MarkAsErrorSilently ==
  /\ LoopAt("markAsError") /\ LoopTo("remove")
  /\ settled' = settled \cup {loop.msg}
  /\ UNCHANGED <<db, req, chain, crashes>>

\* Variant: the item stays in the queue, to be tried again.
MarkAsErrorAndRetry ==
  /\ LoopAt("markAsError")
  /\ loop' = [pc |-> "next"]
  /\ message' = [message EXCEPT ![loop.msg].state = "Error", ![loop.msg].error = TRUE]
  /\ settled' = settled \cup {loop.msg}
  /\ UNCHANGED <<sigs, queue, req, chain, crashes>>

MarkAsError ==
  /\ LoopAt("markAsError") /\ LoopTo("remove")
  /\ message' = [message EXCEPT ![loop.msg].state = "Error", ![loop.msg].error = TRUE]
  /\ settled' = settled \cup {loop.msg}
  /\ UNCHANGED <<sigs, queue, req, chain, crashes>>

\* The queue without the item m, of which it holds at most one.
Without(q, m) ==
  IF \E i \in DOMAIN q : q[i] = m
  THEN LET n == CHOOSE i \in DOMAIN q : q[i] = m
       IN [i \in 1..(Len(q) - 1) |-> IF i < n THEN q[i] ELSE q[i + 1]]
  ELSE q

Remove ==
  /\ LoopAt("remove")
  /\ loop' = [pc |-> "next"]
  /\ queue' = Without(queue, loop.msg)
  /\ UNCHANGED <<message, sigs, req, chain, crashes, settled>>

LoopStep ==
  \/ GetNext \/ SetPending \/ GetMessage
  \/ Validate \/ SendTransaction \/ SendFails \/ WaitForTransaction
  \/ OnTransactionSent \/ ExecuteFails
  \/ MarkAsSuccess \/ MarkAsError \/ Remove

-----------------------------------------------------------------------------
(***************************************************************************)
(* The blockchain, and the fate of the process.                            *)
(***************************************************************************)
\* The relayer's transactions are mined in the order of its account nonces.
\* Even a valid one may revert: the wallet may fail to refund the gas.
Mine(i, ok) ==
  /\ txs[i].status = "sent"
  /\ \A j \in 1..(i - 1) : txs[j].status # "sent"
  /\ ok => Executable(txs[i].msg, txs[i].rows)
  /\ txs' = [txs EXCEPT ![i].status = IF ok THEN "mined" ELSE "reverted"]
  /\ executed' = IF ok THEN Append(executed, txs[i].msg) ELSE executed
  /\ UNCHANGED <<db, req, loop, owners, required, changes, crashes, settled>>

MineSome == \E i \in DOMAIN txs, ok \in BOOLEAN : Mine(i, ok)

\* Another device changes the wallet's keys or threshold.
ChangeWallet(newOwners, newRequired) ==
  /\ changes < MaxChanges
  /\ owners' = newOwners /\ required' = newRequired
  /\ changes' = changes + 1
  /\ UNCHANGED <<db, req, loop, executed, txs, crashes, settled>>

\* The process ends: killed, or exited because the loop rejected (onCritical).
Crash ==
  /\ Up /\ crashes < MaxCrashes
  /\ crashes' = crashes + 1
  /\ loop' = [pc |-> "down"]
  /\ req' = [r \in Requests |-> IF Over(r) THEN req[r] ELSE [req[r] EXCEPT !.pc = "failed", !.seen = {}]]
  /\ UNCHANGED <<db, chain, settled>>

Restart ==
  /\ ~Up
  /\ loop' = [pc |-> "next"]
  /\ UNCHANGED <<db, req, chain, crashes, settled>>

Next ==
  \/ \E r \in Requests, input \in Inputs : Receive(r, input[1], input[2])
  \/ \E r \in Requests : RequestStep(r) \/ RequestFails(r)
  \/ LoopStep
  \/ MineSome
  \/ \E newOwners \in SUBSET Keys, newRequired \in Thresholds :
       ChangeWallet(newOwners, newRequired)
  \/ Crash \/ Restart

Spec == Init /\ [][Next]_vars

\* Callbacks whose query has returned do run, the relayer is restarted, and
\* its transactions are mined.  Nobody is obliged to post, crash or change.
Fairness ==
  /\ \A r \in Requests : WF_vars(RequestStep(r))
  /\ WF_vars(LoopStep)
  /\ WF_vars(MineSome)
  /\ WF_vars(Restart)

FairSpec == Spec /\ Fairness

-----------------------------------------------------------------------------
\* The tables, the requests, the loop and the chain have their types, and the
\* loop only waits for a transaction that was broadcast (MessageExecutor.ts:15-16).
TypeOK ==
  /\ message \in [Messages -> [state : MessageState \cup {None}, error : BOOLEAN, tx : Nat]]
  /\ sigs \in [Messages -> SUBSET Row]
  /\ queue \in Seq(Messages)
  /\ req \in [Requests -> Request]
  /\ loop \in Loop
  /\ Waiting => loop.tx \in DOMAIN txs
  /\ owners \in SUBSET Keys /\ required \in Thresholds
  /\ executed \in Seq(Messages) /\ txs \in Seq(Tx)
  /\ changes \in 0..MaxChanges /\ crashes \in 0..MaxCrashes
  /\ settled \in SUBSET Messages

\* The relayer pays for at most one transaction of a message per signature that
\* it has stored for it, and for one more per crash: an error does not make it
\* send again, requests that both found the message unsent cost one each, and a
\* restart resumes at most the one message in hand (PendingMessages.ts:34-52,
\* QueueService.ts:29-40).
SentOncePerSignature ==
  \A m \in Messages :
    Cardinality({i \in DOMAIN txs : txs[i].msg = m}) <= Cardinality(sigs[m]) + crashes

\* A transaction hash is only ever stored for the message the transaction
\* carries and once the transaction has a receipt (QueueService.ts:33-34).
HashMeansReceipt ==
  \A m \in Messages : message[m].tx # NoTx =>
    /\ message[m].tx \in DOMAIN txs
    /\ txs[message[m].tx].msg = m
    /\ txs[message[m].tx].status # "sent"

\* A message that a request has queued stays in the queue until an outcome of
\* this queueing is in the database: no interleaving and no crash loses it
\* (QueueService.ts:23-40).
QueuedSurvives ==
  \A r \in Requests : req[r].pc \in {"setQueued", "queued"} =>
    Queued(req[r].msg) \/ req[r].msg \in settled

\* A message seen as Pending is in the queue still, so a restart resumes it;
\* the loop never works on a message that is not (QueueService.ts:29-40).
PendingIsQueued ==
  /\ \A m \in Messages : message[m].state = "Pending" => Queued(m)
  /\ Working => Queued(loop.msg)

Durable == INSTANCE DurableQueue WITH waiting <- queue, recorded <- settled

\* To whoever sees only the items, the outcomes and the executions, the relayer
\* is one queue that never stops: messages wait once each and in order, only the
\* oldest is decided, and none leaves without an outcome of its own or executes
\* without having been queued (QueueSQLStore.ts:12-36, QueueService.ts:23-40).
QueueIsDurable == Durable!Spec

\* Whatever is queued leaves the queue: no message, failing or reverted,
\* blocks the ones behind it (QueueService.ts:49-62).
QueueDrains == \A m \in Messages : Queued(m) ~> ~Queued(m)

-----------------------------------------------------------------------------
(***************************************************************************)
(* What the documents and tests say, and the interleavings break.          *)
(***************************************************************************)
Diagram ==
  {<<None, "AwaitSignature">>, <<None, "Queued">>, <<"AwaitSignature", "Queued">>,
   <<"Queued", "Pending">>, <<"Pending", "Error">>, <<"Pending", "Success">>}

\* messageStates.pml: the states a message goes through, in order.
StatesFollowDiagram ==
  [][\A m \in Messages : message'[m].state # message[m].state =>
        <<message[m].state, message'[m].state>> \in Diagram]_message

\* overview.rst, message lifecycle: "Mined transaction is a success or an
\* error"; Success is the state of a message that was executed.
SuccessMeansExecuted ==
  \A m \in Messages : message[m].state = "Success" => \E i \in DOMAIN executed : executed[i] = m

\* PendingMessages test, "should not accept same signature twice".
SignaturesDistinct ==
  \A m \in Messages : \A x, y \in sigs[m] : x.key = y.key => x = y

\* overview.rst, message lifecycle: a message awaits signatures until all
\* required ones are collected, and is queued then.
EnoughSignaturesSettle ==
  \A m \in Messages : Enough(sigs[m]) ~> m \in settled
=============================================================================
