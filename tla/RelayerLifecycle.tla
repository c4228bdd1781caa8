--------------------------- MODULE RelayerLifecycle ---------------------------
(***************************************************************************)
(* The life of a relayer process: start:dev may bring up a chain first,    *)
(* Relayer.start migrates the database, listens, reads ENS and starts the  *)
(* queue; messages arrive while the server listens; stop and stopLater     *)
(* race with the start and with the loop that executes messages; the       *)
(* process is killed, or ends itself when its loop rejects; another one    *)
(* is started on the database it left, which may be of an earlier release  *)
(* or rolled back.  What a request does until its message is queued, and   *)
(* the loop against the chain, is module MessageRelay.                     *)
(***************************************************************************)
EXTENDS Migrations, Sequences, SequencesExt

CONSTANTS
  Messages,      \* messages that arrive complete
  OldMessages,   \* messages that an earlier release finished
  MaxBoots       \* bound: processes that are started, which bounds the migrations

NoItem == "noItem"

ASSUME LifecycleAssumption ==
  /\ Messages \cap OldMessages = {} /\ IsFiniteSet(OldMessages)
  /\ NoItem \notin Messages \cup OldMessages
  /\ MaxBoots \in Nat

VARIABLES
  exists,        \* whether the database has been created
  schema, version,
  row,           \* the row of each message: its state, and what it has
  items,         \* the rows of queue_items, earlier finalMessages, in their order
  overtaken,     \* history: messages set to 'Queued' after the loop had marked them
  process,       \* the relayer process
  boots

tables == <<exists, schema, version, row, items>>
vars == <<tables, overtaken, process, boots>>

Hashes == Messages \cup OldMessages
NoRow == [state |-> "noRow", message |-> FALSE, transactionHash |-> FALSE]
Older == [NoRow EXCEPT !.state = "null"]

\* The awaits of startDevelopment, then those of Relayer.start.
BringUp ==
  {"startGanache", "deployENS", "deployWalletMaster", "deployFactory", "deployToken",
   "ensureDatabaseExist", "migrate"}
Serving == {"ensService", "started"}
StartPC == BringUp \cup Serving \cup {"down", "failed"}

\* QueueService, its loop and what the loop holds; the messages whose item is
\* inserted and whose state is not yet set; the call of stop or stopLater.
Process ==
  [start : StartPC, server : {"none", "open", "closed"}, pool : BOOLEAN,
   state : {"stopped", "running", "stopping"},
   loop : {"none", "getNext", "sleep", "setPending", "getMessage", "send", "success", "error", "remove"},
   item : Hashes \cup {NoItem}, adding : SUBSET Messages,
   stop : {"no", "waiting", "destroyLater", "destroy", "close", "stopped"}]
Down_ == [start |-> "down", server |-> "none", pool |-> FALSE, state |-> "stopped",
          loop |-> "none", item |-> NoItem, adding |-> {}, stop |-> "no"]
Boot_(start) == [Down_ EXCEPT !.start = start, !.pool = TRUE]

Executing == {"setPending", "getMessage", "send", "success", "error", "remove"}

LifecycleTypeOK ==
  /\ exists \in BOOLEAN /\ version \in 0..Latest
  /\ DOMAIN schema \subseteq
       {"authorisations", "transactions", "finalMessages", "queue_items", "messages", "signature_key_pairs"}
  /\ row \in [Hashes ->
       [state : {"noRow", "null", "AwaitSignature", "Queued", "Pending", "Success", "Error"},
        message : BOOLEAN, transactionHash : BOOLEAN]]
  /\ items \in Seq(Hashes) /\ IsInjective(items)
  /\ overtaken \subseteq Messages
  /\ process \in Process
  /\ (process.loop \in Executing) = (process.item # NoItem)
  /\ process.state = "running" => process.start = "started"
  /\ boots \in 0..MaxBoots

\* What a release before the queue migrates an empty database to.
AfterSix == Up(6, Up(5, Up(4, Up(3, Up(2, Up(1, NoTables))))))

\* The database: not there, or left by an earlier release.
LifecycleInit ==
  /\ exists \in BOOLEAN
  /\ \E v \in IF exists THEN {0, 1, 6} ELSE {0} :
       /\ version = v
       /\ schema = CASE v = 0 -> NoTables [] v = 1 -> EarlierFirst [] v = 6 -> AfterSix
       /\ items \in IF v = 6 THEN SetToSeqs(OldMessages) ELSE {<< >>}
       /\ row \in [Hashes -> IF v = 6 THEN {NoRow, Older} ELSE {NoRow}]
  /\ overtaken = {}
  /\ process = Down_ /\ boots = 0

-----------------------------------------------------------------------------
(***************************************************************************)
(* The process starts, and the database with it.                           *)
(***************************************************************************)
\* start:dev begins with a chain, unless it is given one; the relayer's own start
\* with its database.
Boot ==
  /\ process = Down_ /\ boots < MaxBoots /\ boots' = boots + 1
  /\ \E start \in {"startGanache", "deployENS", "migrate"} : process' = Boot_(start)
  /\ UNCHANGED <<tables, overtaken>>

\* The steps of startDevelopment, one after the other.
Then(from, to) ==
  /\ process.start = from
  /\ process' = [process EXCEPT !.start = to]
  /\ UNCHANGED <<schema, version, row, items, overtaken, boots>>
StartGanache == Then("startGanache", "deployENS") /\ UNCHANGED exists
DeployENS == Then("deployENS", "deployWalletMaster") /\ UNCHANGED exists
DeployWalletMaster == Then("deployWalletMaster", "deployFactory") /\ UNCHANGED exists
DeployFactory == Then("deployFactory", "deployToken") /\ UNCHANGED exists
DeployToken == Then("deployToken", "ensureDatabaseExist") /\ UNCHANGED exists
EnsureDatabaseExist == Then("ensureDatabaseExist", "migrate") /\ exists' = TRUE
StartDevelopment ==
  StartGanache \/ DeployENS \/ DeployWalletMaster \/ DeployFactory \/ DeployToken
    \/ EnsureDatabaseExist

\* migrate.latest applies one file after the other; the sixth rejects when it finds
\* rows, for which its new key is null.  Rows of messages get an empty message.
Migrate ==
  /\ process.start = "migrate" /\ exists /\ version < Latest
  /\ version + 1 = 6 => items = << >>
  /\ version' = version + 1 /\ schema' = Up(version + 1, schema)
  /\ UNCHANGED <<exists, row, items, overtaken, process, boots>>

Listen ==
  /\ process.start = "migrate" /\ exists /\ version = Latest
  /\ process' = [process EXCEPT !.start = "ensService", !.server = "open"]
  /\ UNCHANGED <<tables, overtaken, boots>>

\* QueueService.start, whatever stop or stopLater have done in the meantime.
StartQueue ==
  /\ process.start = "ensService"
  /\ process' = [process EXCEPT !.start = "started", !.state = "running", !.loop = "getNext"]
  /\ UNCHANGED <<tables, overtaken, boots>>

\* An await of the start rejects: it is only printed.  A server stays open.
StartFails ==
  /\ process.start \in StartPC \ {"down", "failed", "started"}
  /\ process' = [process EXCEPT !.start = "failed"]
  /\ UNCHANGED <<tables, overtaken, boots>>

\* migrate.rollback, one file after the other and not to the end, maybe.
Rollback ==
  /\ process = Down_ /\ version > 0
  /\ version' = version - 1 /\ schema' = Down(version, schema)
  /\ row' = CASE version = 4 -> [h \in Hashes |-> NoRow]
              [] version = 7 -> [h \in Hashes |-> IF row[h] = NoRow THEN NoRow ELSE
                                  [row[h] EXCEPT !.state = "null", !.message = FALSE]]
              [] OTHER -> row
  /\ items' = IF version = 3 THEN << >> ELSE items
  /\ UNCHANGED <<exists, overtaken, process, boots>>

-----------------------------------------------------------------------------
(***************************************************************************)
(* Messages arrive; the loop executes them.                                *)
(***************************************************************************)
\* A request with a signature makes the row of its message.
Collect(m) ==
  /\ process.server = "open" /\ process.pool /\ row[m] = NoRow
  /\ row' = [row EXCEPT ![m].state = "AwaitSignature", ![m].message = TRUE]
  /\ UNCHANGED <<exists, schema, version, items, overtaken, process, boots>>

\* Variant: hash is not the key of queue_items.
AcceptUnkeyed(m) ==
  /\ process.server = "open" /\ process.pool
  /\ row[m].state \in {"null", "AwaitSignature"} /\ ~row[m].transactionHash
  /\ items' = Append(items, m) /\ overtaken' = overtaken \ {m}
  /\ process' = [process EXCEPT !.adding = @ \cup {m}]
  /\ UNCHANGED <<exists, schema, version, row, boots>>

\* QueueService.add by the request with the last signature: the item is
\* inserted.  A row of an earlier release has no message.  (A signature that
\* follows an error is left to MessageRelay.)
Accept(m) ==
  /\ process.server = "open" /\ process.pool
  /\ row[m].state \in {"null", "AwaitSignature"} /\ ~row[m].transactionHash /\ m \notin ToSet(items)
  /\ items' = Append(items, m) /\ overtaken' = overtaken \ {m}
  /\ process' = [process EXCEPT !.adding = @ \cup {m}]
  /\ UNCHANGED <<exists, schema, version, row, boots>>

\* An update of a message that has no row updates nothing.
Update(m, state) ==
  IF row[m] = NoRow THEN row
  ELSE [row EXCEPT ![m].state = state, ![m].transactionHash = @ \/ state = "Success"]

\* The rest of add: setMessageState, which rejects without the pool, whatever
\* the loop has done with the item by now and whether the server is still open.
SetQueued(m) ==
  /\ m \in process.adding
  /\ process' = [process EXCEPT !.adding = @ \ {m}]
  /\ row' = IF process.pool THEN Update(m, "Queued") ELSE row
  /\ overtaken' = IF process.pool /\ row[m].state \in {"Success", "Error"}
                  THEN overtaken \cup {m} ELSE overtaken
  /\ UNCHANGED <<exists, schema, version, items, boots>>

Loop(p, to) == [p EXCEPT !.loop = to]

\* The end of an iteration: while (this.state !== 'stopped').
LoopOn(p) == [p EXCEPT !.item = NoItem, !.loop = IF p.state = "stopped" THEN "none" ELSE "getNext"]

\* Variant: the loop does not tell that it has found the queue empty.
FoundEmptyAlways(p) == Loop(p, "sleep")

FoundEmpty(p) ==
  IF p.state = "stopping" THEN [p EXCEPT !.state = "stopped", !.loop = "none"] ELSE Loop(p, "sleep")

Query(pc) == process.loop = pc /\ process.pool

\* Variant: the item is taken out of the queue when it is read.
GetNextTakingOut ==
  /\ Query("getNext")
  /\ process' = IF items = << >> THEN FoundEmpty(process)
                ELSE [process EXCEPT !.loop = "setPending", !.item = Head(items)]
  /\ items' = IF items = << >> THEN items ELSE Tail(items)
  /\ UNCHANGED row

GetNext ==
  /\ Query("getNext")
  /\ process' = IF items = << >> THEN FoundEmpty(process)
                ELSE [process EXCEPT !.loop = "setPending", !.item = Head(items)]
  /\ UNCHANGED <<row, items>>

Wake ==
  /\ process.loop = "sleep"
  /\ process' = LoopOn(process)
  /\ UNCHANGED <<row, items>>

SetPending ==
  /\ Query("setPending")
  /\ row' = Update(process.item, "Pending")
  /\ process' = Loop(process, "getMessage")
  /\ UNCHANGED items

\* Variant: getMessage does not look whether there is a message.
GetMessageOrNull ==
  /\ process.loop = "getMessage"
  /\ process' = Loop(process, IF process.pool THEN "send" ELSE "error")
  /\ UNCHANGED <<row, items>>

\* InvalidMessage without a row, MessageNotFound without the message in it.
GetMessage ==
  /\ process.loop = "getMessage"
  /\ process' = Loop(process, IF process.pool /\ row[process.item].message THEN "send" ELSE "error")
  /\ UNCHANGED <<row, items>>

\* executeAndWait, which may reject before or after it has sent.
Send ==
  /\ process.loop = "send"
  /\ \E outcome \in {"success", "error"} : process' = Loop(process, outcome)
  /\ UNCHANGED <<row, items>>

\* Variant: a message that fails stays in the queue, to be tried again.
MarkAndRetry ==
  /\ \/ /\ Query("success") /\ row' = Update(process.item, "Success")
        /\ process' = Loop(process, "remove")
     \/ /\ Query("error") /\ row' = Update(process.item, "Error")
        /\ process' = LoopOn(process)
  /\ UNCHANGED items

Mark ==
  /\ \/ Query("success") /\ row' = Update(process.item, "Success")
     \/ Query("error") /\ row' = Update(process.item, "Error")
  /\ process' = Loop(process, "remove")
  /\ UNCHANGED items

\* The row of the item in hand is deleted, wherever it stands.
Removed ==
  IF process.item \in ToSet(items)
  THEN LET n == CHOOSE n \in DOMAIN items : items[n] = process.item
       IN [i \in 1..(Len(items) - 1) |-> items[IF i < n THEN i ELSE i + 1]]
  ELSE items

TakeOut ==
  /\ Query("remove")
  /\ items' = Removed
  /\ process' = LoopOn(process)
  /\ UNCHANGED row

\* onCritical: a query of the loop rejects, for the pool has been destroyed.
CriticalExit ==
  /\ process.loop \in {"getNext", "setPending", "success", "error", "remove"} /\ ~process.pool
  /\ process' = Down_
  /\ UNCHANGED <<row, items>>

LoopStep ==
  /\ GetNext \/ Wake \/ SetPending \/ GetMessage \/ Send \/ Mark \/ TakeOut \/ CriticalExit
  /\ UNCHANGED <<exists, schema, version, overtaken, boots>>

-----------------------------------------------------------------------------
(***************************************************************************)
(* The process stops.                                                      *)
(***************************************************************************)
Becomes(p) == process' = p /\ UNCHANGED <<tables, overtaken, boots>>

\* Before runServer there is no message handler to stop.
Stop ==
  /\ process.server # "none" /\ process.stop \in {"no", "waiting"}
  /\ Becomes([process EXCEPT !.state = "stopped", !.stop = "destroy"])

StopLater ==
  /\ process.server # "none" /\ process.stop = "no"
  /\ Becomes([process EXCEPT !.state = "stopping", !.stop = "waiting"])

\* Variant: stopLater waits until the service is not running.
IsNotRunning == process.state # "running"

IsStopped == process.state = "stopped"

Waited == process.stop = "waiting" /\ IsStopped /\ Becomes([process EXCEPT !.stop = "destroyLater"])
Destroy ==
  /\ process.stop \in {"destroy", "destroyLater"}
  /\ Becomes([process EXCEPT !.pool = FALSE, !.stop = "close"])
Close == process.stop = "close" /\ Becomes([process EXCEPT !.server = "closed", !.stop = "stopped"])

\* Killed at any time, or with nothing left to wait for.
End == process # Down_ /\ Becomes(Down_)

StopStep == Waited \/ Destroy \/ Close

LifecycleNext ==
  \/ Boot \/ StartDevelopment
  \/ Migrate \/ Listen \/ StartQueue \/ StartFails \/ Rollback
  \/ \E m \in Messages : Collect(m) \/ Accept(m) \/ SetQueued(m)
  \/ LoopStep \/ Stop \/ StopLater \/ StopStep \/ End

LifecycleSpec == LifecycleInit /\ [][LifecycleNext]_vars

\* The event loop is fair to timers, settled promises and answered queries, and
\* a transaction is mined in the end.
FairLifecycleSpec == LifecycleSpec /\ WF_vars(LoopStep) /\ WF_vars(StopStep)

-----------------------------------------------------------------------------
(***************************************************************************)
(* Properties.                                                             *)
(***************************************************************************)
\* Whatever release, crash or rollback left the database behind, a server
\* that listens finds every column its queries name, and no insert misses one.
ServesMigrated == process.server # "none" => Serves(schema)

\* A message that is queued stays in the queue until the loop has marked it, and
\* again while it is executed once more, though the database is destroyed under
\* the loop and processes come and go.  Only the late write of a request that the
\* loop has overtaken says 'Queued' of a message that is done
\* (QueueService.ts:24-25).
AcceptedSurvives ==
  \A m \in Messages :
    \/ row[m].state = "Pending"
    \/ row[m].state = "Queued" /\ m \notin overtaken
    => m \in ToSet(items)

\* The queue may hold items of another release, or messages whose content a
\* rollback dropped: only what was accepted with its content is ever executed.
SentWithMessage == [][Send => row[process.item].message]_vars

\* stopLater lets the loop finish: it takes the database away only when no
\* message is being executed and none can be any more.
StopLaterFinishesWork ==
  process.stop = "destroyLater" => process.loop = "none"

\* stopLater returns once it was called on a started relayer, unless the
\* process ends first.  (Called before the queue starts, it never does.)
StopLaterReturns ==
  (process.stop = "waiting" /\ process.state = "stopping" /\ process.loop # "none") ~>
    (process.stop = "stopped" \/ process = Down_)

\* In a started relayer that nobody stops, no item is stuck behind another:
\* not behind one that fails, nor behind one of an earlier release.
StartedWorks ==
  \A h \in Hashes :
    (process.start = "started" /\ h \in ToSet(items)) ~>
      (h \notin ToSet(items) \/ process.stop # "no" \/ process = Down_)
=============================================================================
