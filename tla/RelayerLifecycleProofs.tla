------------------------ MODULE RelayerLifecycleProofs ------------------------
(***************************************************************************)
(* Safety of a relayer's life, for any messages, rollbacks and processes.  *)
(* The inductive invariant says what the awaits leave behind: where the    *)
(* start is when the server listens and the loop runs, what the database   *)
(* may hold at each migration, what the loop knows of its item, and what a *)
(* request knows of its message between the two writes of QueueService.add.*)
(***************************************************************************)
EXTENDS RelayerLifecycle, MigrationsProofs, FiniteSetTheorems, SequenceTheorems

SchemaFits == SchemaAt(version, schema)

\* The server listens on a database that has been migrated, and stays so.
ServerMigrated ==
  process.server # "none" =>
    version = Latest /\ process.start \in {"ensService", "started", "failed"}

\* The awaits of the start come in their order, a stop after the server.
StartInOrder ==
  /\ process.stop # "no" => process.server # "none"
  /\ process.start \in Serving => process.server # "none"
  /\ process.loop # "none" => process.start = "started"
  /\ process.adding # {} => process.server # "none"

\* Messages are queued only with the tables of the queue.
QueuedInQueueTables ==
  version < 7 => \A h \in Hashes : row[h].state \in {"noRow", "null"}

\* The loop holds an item of the queue, sends what has a message, and deletes
\* what it has marked, though a request may have written 'Queued' since.
HeldInQueue ==
  /\ process.loop \in Executing => process.item \in ToSet(items)
  /\ process.loop = "send" => row[process.item].message
  /\ process.loop = "remove" =>
       /\ row[process.item].state # "Pending"
       /\ row[process.item].state = "Queued" => process.item \in overtaken
       /\ process.item \in process.adding =>
            row[process.item].state \in {"Success", "Error"} \/ process.item \in overtaken

\* A request whose setMessageState is to come has its item in the queue, unless
\* the loop has overtaken it.
AddingKnown ==
  \A m \in process.adding :
    /\ row[m].state # "noRow"
    /\ m \in ToSet(items) \/ row[m].state \in {"Success", "Error"} \/ m \in overtaken

\* A loop that stopLater has waited for has ended, and no start is to follow.
StoppedForGood ==
  /\ process.stop = "destroyLater" => process.state = "stopped"
  /\ (process.stop \in {"waiting", "destroyLater"} /\ process.state = "stopped") =>
       process.loop = "none" /\ process.start = "started"

IInv ==
  /\ LifecycleTypeOK
  /\ SchemaFits /\ ServerMigrated /\ StartInOrder /\ QueuedInQueueTables
  /\ HeldInQueue /\ AddingKnown /\ AcceptedSurvives /\ StoppedForGood

-----------------------------------------------------------------------------
(***************************************************************************)
(* The queue as a sequence.                                                *)
(***************************************************************************)
ItemsTypeOK == items \in Seq(Hashes) /\ IsInjective(items)

LEMMA AppendFacts ==
  ASSUME ItemsTypeOK, NEW m \in Hashes, m \notin ToSet(items), items' = Append(items, m)
  PROVE  ItemsTypeOK' /\ ToSet(items)' = ToSet(items) \cup {m}
<1>1. /\ items' \in Seq(Hashes) /\ Len(items') = Len(items) + 1 /\ Len(items) \in Nat
      /\ items'[Len(items) + 1] = m
      /\ \A i \in 1..Len(items) : items'[i] = items[i]
  BY DEF ItemsTypeOK
<1>2. DOMAIN items = 1..Len(items) /\ DOMAIN items' = 1..(Len(items) + 1)
  BY <1>1 DEF ItemsTypeOK
<1>3. \A i \in 1..Len(items) : items[i] # m
  BY <1>2 DEF ToSet
<1>4. IsInjective(items')
  BY <1>1, <1>2, <1>3 DEF ItemsTypeOK, IsInjective
<1>5. ToSet(items') = ToSet(items) \cup {m}
  BY <1>1, <1>2 DEF ToSet
<1> QED BY <1>1, <1>4, <1>5 DEF ItemsTypeOK

LEMMA HeadFacts ==
  ASSUME ItemsTypeOK, items # << >> PROVE Head(items) \in ToSet(items) /\ Head(items) \in Hashes
BY DEF ItemsTypeOK, ToSet

LEMMA RemovedFacts ==
  ASSUME ItemsTypeOK, items' = Removed
  PROVE  ItemsTypeOK' /\ ToSet(items)' = ToSet(items) \ {process.item}
<1>1. CASE process.item \notin ToSet(items)
  BY <1>1 DEF Removed, ItemsTypeOK
<1>2. CASE process.item \in ToSet(items)
  <2>1. PICK n \in DOMAIN items :
          /\ items[n] = process.item
          /\ items' = [i \in 1..(Len(items) - 1) |-> items[IF i < n THEN i ELSE i + 1]]
    BY <1>2 DEF Removed, ToSet
  <2>2. Len(items) \in Nat /\ DOMAIN items = 1..Len(items) /\ \A i \in DOMAIN items : items[i] \in Hashes
    BY DEF ItemsTypeOK
  <2>3. items' \in Seq(Hashes) /\ DOMAIN items' = 1..(Len(items) - 1)
    BY <2>1, <2>2
  <2>4. \A i \in DOMAIN items' : items'[i] = items[IF i < n THEN i ELSE i + 1]
    BY <2>1
  <2>5. \A i, j \in DOMAIN items : items[i] = items[j] => i = j
    BY DEF ItemsTypeOK, IsInjective
  <2>6. IsInjective(items')
    BY <2>2, <2>3, <2>4, <2>5 DEF IsInjective
  <2>7. ASSUME NEW i \in DOMAIN items, i # n PROVE \E j \in DOMAIN items' : items'[j] = items[i]
    <3>1. CASE i < n
      BY <2>2, <2>3, <2>4, <2>7, <3>1
    <3>2. CASE i > n
      <4>1. i - 1 \in DOMAIN items' /\ ~(i - 1 < n) /\ (i - 1) + 1 = i
        BY <2>2, <2>3, <3>2
      <4> QED BY <2>4, <4>1
    <3> QED BY <2>2, <2>7, <3>1, <3>2
  <2>8. ASSUME NEW j \in DOMAIN items'
        PROVE  \E i \in DOMAIN items : i # n /\ items'[j] = items[i]
    BY <2>2, <2>3, <2>4
  <2>9. \A h : h \in ToSet(items') <=> h \in ToSet(items) /\ h # process.item
    BY <2>1, <2>5, <2>7, <2>8 DEF ToSet
  <2> QED BY <2>3, <2>6, <2>9 DEF ItemsTypeOK
<1> QED BY <1>1, <1>2

-----------------------------------------------------------------------------
(***************************************************************************)
(* The process.                                                            *)
(***************************************************************************)
ProcessFits ==
  /\ process \in Process
  /\ (process.loop \in Executing) = (process.item # NoItem)
  /\ process.state = "running" => process.start = "started"
  /\ ServerMigrated /\ StartInOrder /\ StoppedForGood

LEMMA DownFits == process' = Down_ => ProcessFits'
BY DEF Down_, ProcessFits, Process, StartPC, Executing, ServerMigrated, StartInOrder, Serving,
       StoppedForGood

LEMMA StartFits ==
  ASSUME ProcessFits, Boot \/ StartDevelopment \/ Migrate \/ Listen \/ StartQueue \/ StartFails \/ Rollback
  PROVE  ProcessFits'
<1> USE DEF ProcessFits, ServerMigrated, StartInOrder, StoppedForGood, Serving
<1>1. CASE Boot
  <2>1. PICK start \in {"startGanache", "deployENS", "migrate"} : process' = Boot_(start)
    BY <1>1 DEF Boot
  <2>2. /\ process'.start = start /\ process'.server = "none" /\ process'.state = "stopped"
        /\ process'.loop = "none" /\ process'.item = NoItem /\ process'.adding = {}
        /\ process'.stop = "no"
    BY <2>1 DEF Boot_, Down_
  <2>3. process' \in Process
    BY <2>1 DEF Boot_, Down_, Process, StartPC, BringUp
  <2> QED BY <2>2, <2>3 DEF Executing
<1>2. ASSUME NEW from \in BringUp, NEW to \in BringUp, Then(from, to) PROVE ProcessFits'
  BY <1>2 DEF Then, Process, StartPC, BringUp
<1>3. CASE StartDevelopment
  BY <1>2, <1>3 DEF StartDevelopment, StartGanache, DeployENS, DeployWalletMaster, DeployFactory,
                     DeployToken, EnsureDatabaseExist, BringUp
<1>4. CASE Migrate
  BY <1>4 DEF Migrate
<1>5. CASE Listen
  BY <1>5 DEF Listen, tables, Process, StartPC
<1>6. CASE StartQueue
  <2>1. process.start = "ensService" /\ process.loop = "none" /\ process.stop # "destroyLater"
    BY <1>6 DEF StartQueue
  <2>2. process.item = NoItem
    BY <2>1 DEF Executing
  <2>3. process' = [process EXCEPT !.start = "started", !.state = "running", !.loop = "getNext"]
        /\ version' = version
    BY <1>6 DEF StartQueue, tables
  <2>4. process' \in Process
    BY <2>3 DEF Process, StartPC
  <2>5. /\ process'.start = "started" /\ process'.state = "running" /\ process'.loop = "getNext"
        /\ process'.item = NoItem /\ process'.stop = process.stop /\ process'.server = process.server
    BY <2>2, <2>3 DEF Process
  <2> QED BY <2>1, <2>3, <2>4, <2>5 DEF Executing
<1>7. CASE StartFails
  BY <1>7 DEF StartFails, tables, Process, StartPC
<1>8. CASE Rollback
  BY <1>8, DownFits DEF Rollback
<1> QED BY <1>1, <1>3, <1>4, <1>5, <1>6, <1>7, <1>8

\* An iteration keeps all of the process but its place, its item and the state.
LoopAt(loop, item, state) ==
  process' = [process EXCEPT !.loop = loop, !.item = item, !.state = state]

LEMMA LoopFits ==
  ASSUME ProcessFits, ItemsTypeOK, LoopStep PROVE ProcessFits'
<1> USE DEF ProcessFits
<1>1. process.loop # "none" /\ version' = version
  BY DEF LoopStep, GetNext, Query, Wake, SetPending, GetMessage, Send, Mark, TakeOut, CriticalExit
<1>2. process.start = "started" /\ ~(process.stop \in {"waiting", "destroyLater"} /\ process.state = "stopped")
  BY <1>1 DEF StartInOrder, StoppedForGood
<1>3. ASSUME NEW loop, NEW item, NEW state \in {process.state, "stopped"}, LoopAt(loop, item, state),
             state # process.state => loop = "none" /\ process.state = "stopping",
             \/ loop \in {"none", "getNext", "sleep"} /\ item = NoItem
             \/ loop \in Executing /\ item \in Hashes /\ item # NoItem
      PROVE  ProcessFits'
  <2>1. /\ process'.loop = loop /\ process'.item = item /\ process'.state = state
        /\ process'.start = "started" /\ process'.stop = process.stop
        /\ process'.server = process.server
    BY <1>2, <1>3 DEF LoopAt, Process
  <2>2. process' \in Process
    BY <1>3 DEF LoopAt, Process, Executing
  <2>3. (process'.loop \in Executing) = (process'.item # NoItem)
    BY <1>3, <2>1 DEF Executing
  <2>4. ServerMigrated' /\ StartInOrder' /\ process'.start = "started"
    BY <1>1, <1>2, <2>1 DEF ServerMigrated, StartInOrder, Serving
  <2>5. StoppedForGood'
    BY <1>2, <1>3, <2>1 DEF StoppedForGood
  <2> QED BY <2>2, <2>3, <2>4, <2>5
<1>4. CASE GetNext
  <2>1. CASE items = << >>
    <3>1. process' = FoundEmpty(process) /\ process.item = NoItem
      BY <1>4, <2>1 DEF GetNext, Query, Executing
    <3>2. CASE process.state = "stopping"
      <4>1. LoopAt("none", NoItem, "stopped")
        BY <3>1, <3>2 DEF FoundEmpty, Process, LoopAt
      <4> QED BY <1>3, <3>2, <4>1
    <3>3. CASE process.state # "stopping"
      <4>1. LoopAt("sleep", NoItem, process.state)
        BY <3>1, <3>3 DEF FoundEmpty, Loop, Process, LoopAt
      <4> QED BY <1>3, <4>1
    <3> QED BY <3>2, <3>3
  <2>2. CASE items # << >>
    <3>1. LoopAt("setPending", Head(items), process.state)
      BY <1>4, <2>2 DEF GetNext, Process, LoopAt
    <3>2. Head(items) \in Hashes /\ Head(items) # NoItem
      BY <2>2, HeadFacts, LifecycleAssumption DEF Hashes
    <3> QED BY <1>3, <3>1, <3>2 DEF Executing
  <2> QED BY <2>1, <2>2
<1>5. ASSUME process' = LoopOn(process) PROVE ProcessFits'
  <2>1. PICK loop \in {"none", "getNext"} :
          LoopAt(loop, NoItem, process.state)
    BY <1>5 DEF LoopOn, Process, LoopAt
  <2> QED BY <1>3, <2>1
<1>6. ASSUME NEW loop \in Executing, process' = Loop(process, loop), process.loop \in Executing
      PROVE  ProcessFits'
  <2>1. LoopAt(loop, process.item, process.state)
    BY <1>6 DEF Loop, Process, LoopAt
  <2>2. process.item \in Hashes \cup {NoItem} /\ process.item # NoItem
    BY <1>6 DEF Process
  <2> QED BY <1>3, <1>6, <2>1, <2>2
<1>7. CASE Wake \/ TakeOut
  BY <1>5, <1>7 DEF Wake, TakeOut
<1>8. CASE SetPending \/ GetMessage \/ Send \/ Mark
  BY <1>6, <1>8 DEF SetPending, GetMessage, Send, Mark, Query, Executing
<1>9. CASE CriticalExit
  BY <1>9, DownFits DEF CriticalExit
<1> QED BY <1>4, <1>7, <1>8, <1>9 DEF LoopStep

LEMMA StopFits ==
  ASSUME ProcessFits, Stop \/ StopLater \/ StopStep \/ End PROVE ProcessFits'
<1> USE DEF ProcessFits, ServerMigrated, StartInOrder, StoppedForGood, Becomes, tables
<1>1. CASE Stop
  BY <1>1 DEF Stop, Process
<1>2. CASE StopLater
  BY <1>2 DEF StopLater, Process
<1>3. CASE Waited
  BY <1>3 DEF Waited, IsStopped, Process
<1>4. CASE Destroy
  BY <1>4 DEF Destroy, Process
<1>5. CASE Close
  BY <1>5 DEF Close, Process
<1>6. CASE End
  BY <1>6, DownFits DEF End
<1> QED BY <1>1, <1>2, <1>3, <1>4, <1>5, <1>6 DEF StopStep

LEMMA ProcessStep ==
  ASSUME ProcessFits, ItemsTypeOK, [LifecycleNext]_vars PROVE ProcessFits'
<1>1. ASSUME NEW m \in Messages, Accept(m) PROVE ProcessFits'
  BY <1>1 DEF Accept, Process, ProcessFits, ServerMigrated, StartInOrder, StoppedForGood
<1>2. ASSUME NEW m \in Messages, Collect(m) PROVE ProcessFits'
  BY <1>2 DEF Collect, ProcessFits, ServerMigrated, StartInOrder, StoppedForGood
<1>3. ASSUME NEW m \in Messages, SetQueued(m) PROVE ProcessFits'
  BY <1>3 DEF SetQueued, Process, ProcessFits, ServerMigrated, StartInOrder, StoppedForGood
<1>4. CASE UNCHANGED vars
  BY <1>4 DEF vars, tables, ProcessFits, ServerMigrated, StartInOrder, StoppedForGood
<1> QED BY <1>1, <1>2, <1>3, <1>4, StartFits, LoopFits, StopFits DEF LifecycleNext

-----------------------------------------------------------------------------
(***************************************************************************)
(* The tables.                                                             *)
(***************************************************************************)
RowState == {"noRow", "null", "AwaitSignature", "Queued", "Pending", "Success", "Error"}
RowTypeOK == row \in [Hashes -> [state : RowState, message : BOOLEAN, transactionHash : BOOLEAN]]

\* What the loop leaves alone, and what the rest of the process does.
LoopKeeps == exists' = exists /\ schema' = schema /\ version' = version /\ overtaken' = overtaken
DatabaseStays == LoopKeeps /\ row' = row /\ items' = items

\* The actions, by what they do to the tables.
LEMMA TableSteps ==
  ASSUME ProcessFits, [LifecycleNext]_vars
  PROVE  \/ DatabaseStays /\ process' = Down_
         \/ /\ DatabaseStays
            /\ process'.loop \in {process.loop, "getNext"} /\ process'.item = process.item
            /\ process'.adding = process.adding
         \/ EnsureDatabaseExist \/ Migrate \/ Rollback \/ LoopStep
         \/ \E m \in Messages : Collect(m) \/ Accept(m) \/ SetQueued(m)
<1> USE DEF tables, DatabaseStays, LoopKeeps
<1>1. CASE Boot
  BY <1>1 DEF Boot, Boot_, Down_
<1>2. CASE Listen \/ StartQueue \/ StartFails
  BY <1>2 DEF Listen, StartQueue, StartFails, ProcessFits, Process
<1>3. ASSUME NEW from, NEW to, Then(from, to), exists' = exists
      PROVE  /\ DatabaseStays /\ process'.loop = process.loop /\ process'.item = process.item
             /\ process'.adding = process.adding
  BY <1>3 DEF Then, ProcessFits, Process
<1>4. CASE StartDevelopment
  BY <1>3, <1>4 DEF StartDevelopment, StartGanache, DeployENS, DeployWalletMaster, DeployFactory,
                     DeployToken
<1>5. ASSUME NEW p, Becomes(p), p.loop = process.loop, p.item = process.item, p.adding = process.adding
      PROVE  /\ DatabaseStays /\ process'.loop = process.loop /\ process'.item = process.item
             /\ process'.adding = process.adding
  BY <1>5 DEF Becomes
<1>6. CASE Stop \/ StopLater \/ StopStep
  BY <1>5, <1>6 DEF Stop, StopLater, StopStep, Waited, Destroy, Close, ProcessFits, Process
<1>7. CASE End
  BY <1>7 DEF End, Becomes
<1>8. CASE UNCHANGED vars
  BY <1>8 DEF vars
<1> QED BY <1>1, <1>2, <1>4, <1>6, <1>7, <1>8 DEF LifecycleNext

DatabaseFits ==
  /\ exists \in BOOLEAN /\ version \in 0..Latest /\ RowTypeOK /\ ItemsTypeOK /\ SchemaFits
  /\ QueuedInQueueTables /\ HeldInQueue /\ AddingKnown /\ AcceptedSurvives

LEMMA DatabaseKept ==
  ASSUME DatabaseFits, exists' \in BOOLEAN, schema' = schema, version' = version, row' = row, items' = items,
         overtaken' = overtaken, HeldInQueue', AddingKnown'
  PROVE  DatabaseFits'
BY DEF DatabaseFits, RowTypeOK, ItemsTypeOK, SchemaFits, QueuedInQueueTables, AcceptedSurvives

\* A message gets its row and its item while the server listens, in the tables
\* of the queue.
LEMMA CollectFits ==
  ASSUME ProcessFits, DatabaseFits, NEW m \in Messages, Collect(m) PROVE DatabaseFits'
<1>1. /\ row \in [Hashes -> [state : RowState, message : BOOLEAN, transactionHash : BOOLEAN]]
      /\ row[m] = NoRow
      /\ row' = [row EXCEPT ![m].state = "AwaitSignature", ![m].message = TRUE]
      /\ m \in Hashes /\ UNCHANGED <<exists, schema, version, items, overtaken, process>>
  BY DEF Collect, DatabaseFits, RowTypeOK, Hashes
<1>2. RowTypeOK'
  BY <1>1 DEF RowTypeOK, RowState
<1>3. /\ \A h \in Hashes \ {m} : row'[h] = row[h]
      /\ row[m].state = "noRow" /\ ~row[m].message /\ row'[m].state = "AwaitSignature"
  BY <1>1 DEF NoRow
<1>4. m \notin process.adding
  BY <1>3 DEF DatabaseFits, AddingKnown
<1>5. process.item \in Hashes \cup {NoItem} /\ process.adding \subseteq Messages
  BY DEF ProcessFits, Process
<1>6. HeldInQueue'
  <2>1. CASE process.item = m
    BY <1>1, <1>3, <1>4, <2>1 DEF DatabaseFits, HeldInQueue
  <2>2. CASE process.item # m
    <3>1. process.loop \in {"send", "remove"} => process.item \in Hashes \ {m}
      BY <1>5, <2>2 DEF ProcessFits, Executing
    <3> QED BY <1>1, <1>3, <3>1 DEF DatabaseFits, HeldInQueue
  <2> QED BY <2>1, <2>2
<1>7. AddingKnown' /\ AcceptedSurvives'
  BY <1>1, <1>3, <1>4, <1>5 DEF DatabaseFits, AddingKnown, AcceptedSurvives, Hashes
<1>8. version = Latest
  BY DEF Collect, ProcessFits, ServerMigrated
<1>9. QueuedInQueueTables' /\ ItemsTypeOK'
  BY <1>1, <1>8 DEF QueuedInQueueTables, Latest, DatabaseFits, ItemsTypeOK
<1> QED BY <1>1, <1>2, <1>6, <1>7, <1>9 DEF DatabaseFits, SchemaFits

LEMMA AcceptFits ==
  ASSUME ProcessFits, DatabaseFits, NEW m \in Messages, Accept(m) PROVE DatabaseFits'
<1>1. /\ row' = row /\ row[m].state \in {"null", "AwaitSignature"}
      /\ m \in Hashes /\ m \notin ToSet(items) /\ items' = Append(items, m)
      /\ UNCHANGED <<exists, schema, version>> /\ overtaken' = overtaken \ {m}
      /\ process' = [process EXCEPT !.adding = @ \cup {m}]
  BY DEF Accept, Hashes
<1>2. ItemsTypeOK' /\ ToSet(items)' = ToSet(items) \cup {m}
  BY <1>1, AppendFacts DEF DatabaseFits
<1>3. /\ process'.loop = process.loop /\ process'.item = process.item
      /\ process'.adding = process.adding \cup {m}
  BY <1>1 DEF ProcessFits, Process
<1>4. process.loop \in Executing => process.item # m
  BY <1>1 DEF DatabaseFits, HeldInQueue
<1>5. version = Latest
  BY DEF Accept, ProcessFits, ServerMigrated
<1>6. HeldInQueue'
  BY <1>1, <1>2, <1>3, <1>4 DEF DatabaseFits, HeldInQueue, Executing
<1>7. AddingKnown' /\ AcceptedSurvives'
  BY <1>1, <1>2, <1>3 DEF DatabaseFits, AddingKnown, AcceptedSurvives
<1>8. QueuedInQueueTables' /\ RowTypeOK'
  BY <1>1, <1>5 DEF QueuedInQueueTables, Latest, DatabaseFits, RowTypeOK
<1> QED BY <1>1, <1>2, <1>6, <1>7, <1>8 DEF DatabaseFits, SchemaFits

\* No item is lost with a table, for there are none in it.
LEMMA RollbackFits == ASSUME ProcessFits, DatabaseFits, Rollback PROVE DatabaseFits'
<1>1. /\ version \in 1..Latest /\ version' = version - 1 /\ schema' = Down(version, schema)
      /\ exists' = exists /\ process' = process /\ overtaken' = overtaken
      /\ process.loop = "none" /\ process.adding = {}
  <2>1. version > 0
    BY DEF Rollback
  <2>2. version \in 0..Latest
    BY DEF DatabaseFits
  <2>3. version \in 1..Latest
    BY <2>1, <2>2 DEF Latest
  <2>4. process' = process /\ process.loop = "none" /\ process.adding = {}
    BY DEF Rollback, Down_
  <2> QED BY <2>3, <2>4 DEF Rollback
<1>2. SchemaFits'
  BY <1>1, DownLeaves DEF SchemaFits, DatabaseFits
<1>3. /\ RowTypeOK'
      /\ \A h \in Hashes : row'[h].state \in {row[h].state, "noRow", "null"}
      /\ version = 7 => \A h \in Hashes : row'[h].state \in {"noRow", "null"}
  <2>1. CASE version = 4
    BY <2>1 DEF Rollback, RowTypeOK, NoRow, RowState
  <2>2. CASE version = 7
    BY <2>2 DEF Rollback, DatabaseFits, RowTypeOK, NoRow, RowState
  <2>3. CASE version \notin {4, 7}
    BY <2>3 DEF Rollback, DatabaseFits, RowTypeOK
  <2> QED BY <2>1, <2>2, <2>3
<1>4. ItemsTypeOK'
  <2>1. << >> \in Seq(Hashes) /\ IsInjective(<< >>)
    BY DEF IsInjective
  <2>2. items' = items \/ items' = << >>
    BY DEF Rollback
  <2> QED BY <2>1, <2>2 DEF DatabaseFits, ItemsTypeOK
<1>5. QueuedInQueueTables'
  BY <1>1, <1>3 DEF DatabaseFits, QueuedInQueueTables, Latest
<1>6. AcceptedSurvives'
  <2>1. CASE version = 3
    BY <1>1, <1>3, <2>1 DEF DatabaseFits, QueuedInQueueTables, AcceptedSurvives, Hashes
  <2>2. CASE version # 3
    BY <1>1, <1>3, <2>2 DEF Rollback, DatabaseFits, AcceptedSurvives, Hashes
  <2> QED BY <2>1, <2>2
<1>7. HeldInQueue' /\ AddingKnown'
  BY <1>1 DEF HeldInQueue, Executing, AddingKnown
<1>8. exists' \in BOOLEAN /\ version' \in 0..Latest
  BY <1>1 DEF DatabaseFits, Latest
<1> QED BY <1>2, <1>3, <1>4, <1>5, <1>6, <1>7, <1>8 DEF DatabaseFits

\* An update keeps what a row has, and a row that is not there away.
LEMMA UpdateFacts ==
  ASSUME RowTypeOK, NEW h \in Hashes, NEW state \in {"Queued", "Pending", "Success", "Error"},
         row' = Update(h, state)
  PROVE  /\ RowTypeOK'
         /\ \A g \in Hashes \ {h} : row'[g] = row[g]
         /\ row'[h].state \in {"noRow", state} /\ row'[h].message = row[h].message
         /\ row[h].state # "noRow" => row'[h].state = state
<1>1. CASE row[h] = NoRow
  <2>1. row' = row
    BY <1>1 DEF Update
  <2>2. row[h].state = "noRow"
    BY <1>1 DEF NoRow
  <2> QED BY <2>1, <2>2 DEF RowTypeOK
<1>2. CASE row[h] # NoRow
  <2> DEFINE r == [row[h] EXCEPT !.state = state, !.transactionHash = @ \/ state = "Success"]
  <2>1. /\ r \in [state : RowState, message : BOOLEAN, transactionHash : BOOLEAN]
        /\ r.state = state /\ r.message = row[h].message
    BY DEF RowTypeOK, RowState
  <2> HIDE DEF r
  <2>2. row' = [row EXCEPT ![h] = r]
    BY <1>2 DEF Update, RowTypeOK, r
  <2> QED BY <2>1, <2>2 DEF RowTypeOK
<1> QED BY <1>1, <1>2

\* The late write of a request, which changes nothing that the loop knows.
LEMMA SetQueuedFits ==
  ASSUME ProcessFits, DatabaseFits, NEW m \in Messages, SetQueued(m) PROVE DatabaseFits'
<1>1. /\ m \in process.adding /\ m \in Hashes
      /\ process' = [process EXCEPT !.adding = @ \ {m}]
      /\ UNCHANGED <<exists, schema, version, items>>
  BY DEF SetQueued, Hashes
<1>2. /\ process'.loop = process.loop /\ process'.item = process.item
      /\ process'.adding = process.adding \ {m} /\ process.adding \subseteq Messages
      /\ process.item \in Hashes \cup {NoItem}
  BY <1>1 DEF ProcessFits, Process
<1>3. version = Latest
  BY <1>1 DEF ProcessFits, StartInOrder, ServerMigrated
<1>4. row[m].state # "noRow"
  BY <1>1 DEF DatabaseFits, AddingKnown
<1>5. CASE ~process.pool
  <2>1. row' = row /\ overtaken' = overtaken
    BY <1>5 DEF SetQueued
  <2>2. HeldInQueue' /\ AddingKnown'
    BY <1>1, <1>2, <2>1 DEF DatabaseFits, HeldInQueue, AddingKnown, Executing
  <2> QED BY <1>1, <2>1, <2>2, DatabaseKept DEF DatabaseFits
<1>6. CASE process.pool
  <2>1. row' = Update(m, "Queued")
    BY <1>6 DEF SetQueued
  <2>2. /\ RowTypeOK' /\ \A g \in Hashes \ {m} : row'[g] = row[g]
        /\ row'[m].state = "Queued" /\ row'[m].message = row[m].message
    BY <1>1, <1>4, <2>1, UpdateFacts DEF DatabaseFits
  <2>3. overtaken' = IF row[m].state \in {"Success", "Error"} THEN overtaken \cup {m} ELSE overtaken
    BY <1>6 DEF SetQueued
  <2>4. HeldInQueue'
    <3>1. process.loop \in Executing => process.item \in Hashes
      BY <1>2 DEF ProcessFits
    <3>2. CASE process.item = m
      BY <1>1, <1>2, <2>2, <2>3, <3>2 DEF DatabaseFits, HeldInQueue, Executing
    <3>3. CASE process.item # m
      BY <1>1, <1>2, <2>2, <2>3, <3>1, <3>3 DEF DatabaseFits, HeldInQueue, Executing
    <3> QED BY <3>2, <3>3
  <2>5. AddingKnown'
    BY <1>1, <1>2, <2>2, <2>3 DEF DatabaseFits, AddingKnown, Hashes
  <2>6. AcceptedSurvives'
    <3> SUFFICES ASSUME NEW g \in Messages,
                        row'[g].state = "Pending" \/ (row'[g].state = "Queued" /\ g \notin overtaken')
                 PROVE  g \in ToSet(items')
      BY DEF AcceptedSurvives
    <3>1. CASE g = m
      BY <1>1, <2>2, <2>3, <3>1 DEF DatabaseFits, AddingKnown
    <3>2. CASE g # m
      BY <1>1, <2>2, <2>3, <3>2 DEF DatabaseFits, AcceptedSurvives, Hashes
    <3> QED BY <3>1, <3>2
  <2>7. QueuedInQueueTables' /\ ItemsTypeOK' /\ SchemaFits'
    BY <1>1, <1>3 DEF QueuedInQueueTables, Latest, DatabaseFits, ItemsTypeOK, SchemaFits
  <2> QED BY <1>1, <2>2, <2>4, <2>5, <2>6, <2>7 DEF DatabaseFits
<1> QED BY <1>5, <1>6

\* The row of the item changes; the item leaves the queue once it is marked.
LEMMA LoopStepFits == ASSUME ProcessFits, DatabaseFits, LoopStep PROVE DatabaseFits'
<1>1. LoopKeeps
  BY DEF LoopStep, LoopKeeps
<1>2. process.loop # "none"
  BY DEF LoopStep, GetNext, Query, Wake, SetPending, GetMessage, Send, Mark, TakeOut, CriticalExit
<1>3. version = Latest
  BY <1>2 DEF ProcessFits, StartInOrder, Serving, ServerMigrated
<1>4. QueuedInQueueTables'
  BY <1>1, <1>3 DEF LoopKeeps, QueuedInQueueTables, Latest
<1>5. ASSUME RowTypeOK', ItemsTypeOK', HeldInQueue', AddingKnown', AcceptedSurvives' PROVE DatabaseFits'
  BY <1>1, <1>4, <1>5 DEF DatabaseFits, LoopKeeps, SchemaFits
<1>0. process'.adding \subseteq process.adding /\ process.adding \subseteq Messages
  <2>1. process \in Process
    BY DEF ProcessFits
  <2>2. /\ FoundEmpty(process).adding = process.adding /\ LoopOn(process).adding = process.adding
        /\ \A to : Loop(process, to).adding = process.adding
        /\ [process EXCEPT !.loop = "setPending", !.item = Head(items)].adding = process.adding
    BY <2>1 DEF FoundEmpty, LoopOn, Loop, Process
  <2>3. \/ process' = Down_ \/ process' = FoundEmpty(process) \/ process' = LoopOn(process)
        \/ \E to : process' = Loop(process, to)
        \/ process' = [process EXCEPT !.loop = "setPending", !.item = Head(items)]
    BY DEF LoopStep, GetNext, Wake, SetPending, GetMessage, Send, Mark, TakeOut, CriticalExit
  <2>4. process.adding \subseteq Messages
    BY <2>1 DEF Process
  <2>5. ASSUME NEW to, process' = Loop(process, to) PROVE process'.adding = process.adding
    BY <2>2, <2>5
  <2>6. CASE process' = Down_
    BY <2>4, <2>6 DEF Down_
  <2>7. CASE process' # Down_
    BY <2>2, <2>3, <2>4, <2>5, <2>7
  <2> QED BY <2>6, <2>7
<1>6. ASSUME row' = row, items' = items, HeldInQueue' PROVE DatabaseFits'
  <2>1. AddingKnown'
    BY <1>0, <1>1, <1>6 DEF LoopKeeps, DatabaseFits, AddingKnown
  <2> QED BY <1>1, <1>6, <2>1, DatabaseKept DEF LoopKeeps, DatabaseFits
<1>7. process.loop \in Executing => process.item \in Hashes /\ process.item \in ToSet(items)
  BY DEF ProcessFits, Process, DatabaseFits, HeldInQueue
<1>16. ASSUME items' = items, process.item \in ToSet(items),
              \A g \in Hashes \ {process.item} : row'[g] = row[g],
              row[process.item].state # "noRow" => row'[process.item].state # "noRow"
       PROVE  AddingKnown'
  BY <1>0, <1>1, <1>16 DEF LoopKeeps, DatabaseFits, AddingKnown, Hashes
<1>8. CASE GetNext
  <2>1. CASE items = << >>
    <3>1. process'.loop \in {"none", "sleep"}
      BY <1>8, <2>1 DEF GetNext, FoundEmpty, Loop, ProcessFits, Process
    <3>2. HeldInQueue'
      BY <3>1 DEF HeldInQueue, Executing
    <3> QED BY <1>6, <1>8, <3>2 DEF GetNext
  <2>2. CASE items # << >>
    <3>1. process'.loop = "setPending" /\ process'.item = Head(items) /\ items' = items
      BY <1>8, <2>2 DEF GetNext, ProcessFits, Process
    <3>2. HeldInQueue'
      BY <2>2, <3>1, HeadFacts DEF HeldInQueue, DatabaseFits
    <3> QED BY <1>6, <1>8, <3>2 DEF GetNext
  <2> QED BY <2>1, <2>2
<1>9. CASE Wake
  <2>1. process'.loop \in {"none", "getNext"}
    BY <1>9 DEF Wake, LoopOn, ProcessFits, Process
  <2>2. HeldInQueue'
    BY <2>1 DEF HeldInQueue, Executing
  <2> QED BY <1>6, <1>9, <2>2 DEF Wake
<1>10. CASE CriticalExit
  <2>1. HeldInQueue'
    BY <1>10 DEF CriticalExit, Down_, HeldInQueue, Executing
  <2> QED BY <1>6, <1>10, <2>1 DEF CriticalExit
<1>11. CASE SetPending
  <2>1. /\ row' = Update(process.item, "Pending") /\ items' = items
        /\ process.item \in Hashes /\ process.item \in ToSet(items)
        /\ process'.loop = "getMessage" /\ process'.item = process.item
    BY <1>7, <1>11 DEF SetPending, Query, Executing, Loop, ProcessFits, Process
  <2>2. /\ RowTypeOK' /\ \A g \in Hashes \ {process.item} : row'[g] = row[g]
        /\ row[process.item].state # "noRow" => row'[process.item].state = "Pending"
    BY <2>1, UpdateFacts DEF DatabaseFits
  <2>3. HeldInQueue'
    BY <2>1 DEF HeldInQueue
  <2>4. AcceptedSurvives' /\ ItemsTypeOK'
    BY <1>1, <2>1, <2>2 DEF LoopKeeps, AcceptedSurvives, DatabaseFits, ItemsTypeOK, Hashes
  <2>5. AddingKnown'
    BY <1>16, <2>1, <2>2
  <2> QED BY <1>5, <2>2, <2>3, <2>4, <2>5
<1>12. CASE GetMessage
  <2>1. /\ process.item \in ToSet(items)
        /\ process'.loop \in {"send", "error"} /\ process'.item = process.item
        /\ process'.loop = "send" => row[process.item].message
    BY <1>7, <1>12 DEF GetMessage, Executing, Loop, ProcessFits, Process
  <2>2. HeldInQueue'
    BY <1>12, <2>1 DEF HeldInQueue, GetMessage
  <2> QED BY <1>6, <1>12, <2>2 DEF GetMessage
<1>13. CASE Send
  <2>1. /\ process.item \in ToSet(items)
        /\ process'.loop \in {"success", "error"} /\ process'.item = process.item
    BY <1>7, <1>13 DEF Send, Executing, Loop, ProcessFits, Process
  <2>2. HeldInQueue'
    BY <1>13, <2>1 DEF HeldInQueue, Send
  <2> QED BY <1>6, <1>13, <2>2 DEF Send
<1>14. CASE Mark
  <2>1. PICK state \in {"Success", "Error"} : row' = Update(process.item, state)
    BY <1>14 DEF Mark
  <2>2. /\ items' = items /\ process.item \in Hashes /\ process.item \in ToSet(items)
        /\ process'.loop = "remove" /\ process'.item = process.item
    BY <1>7, <1>14 DEF Mark, Query, Executing, Loop, ProcessFits, Process
  <2>3. /\ RowTypeOK' /\ \A g \in Hashes \ {process.item} : row'[g] = row[g]
        /\ row'[process.item].state \in {"noRow", "Success", "Error"}
        /\ row[process.item].state # "noRow" => row'[process.item].state \in {"Success", "Error"}
    BY <2>1, <2>2, UpdateFacts DEF DatabaseFits
  <2>4. AddingKnown'
    BY <1>16, <2>2, <2>3
  <2>5. HeldInQueue'
    <3>1. process.item \in process'.adding => row[process.item].state # "noRow"
      BY <1>0 DEF DatabaseFits, AddingKnown
    <3> QED BY <2>2, <2>3, <3>1 DEF HeldInQueue
  <2>6. AcceptedSurvives' /\ ItemsTypeOK'
    BY <1>1, <2>2, <2>3 DEF LoopKeeps, AcceptedSurvives, DatabaseFits, ItemsTypeOK, Hashes
  <2> QED BY <1>5, <2>3, <2>4, <2>5, <2>6
<1>15. CASE TakeOut
  <2>1. /\ process.loop = "remove" /\ items' = Removed /\ row' = row
        /\ process'.loop \in {"none", "getNext"}
    BY <1>15 DEF TakeOut, Query, LoopOn, ProcessFits, Process
  <2>2. ItemsTypeOK' /\ ToSet(items)' = ToSet(items) \ {process.item}
    BY <2>1, RemovedFacts DEF DatabaseFits
  <2>3. /\ row[process.item].state # "Pending"
        /\ row[process.item].state = "Queued" => process.item \in overtaken
        /\ process.item \in process.adding =>
             row[process.item].state \in {"Success", "Error"} \/ process.item \in overtaken
    BY <2>1 DEF DatabaseFits, HeldInQueue
  <2>4. AcceptedSurvives' /\ AddingKnown'
    BY <1>0, <1>1, <2>1, <2>2, <2>3 DEF LoopKeeps, DatabaseFits, AcceptedSurvives, AddingKnown
  <2>5. HeldInQueue' /\ RowTypeOK'
    BY <2>1 DEF HeldInQueue, Executing, DatabaseFits, RowTypeOK
  <2> QED BY <1>5, <2>2, <2>4, <2>5
<1> QED BY <1>8, <1>9, <1>10, <1>11, <1>12, <1>13, <1>14, <1>15 DEF LoopStep

LEMMA DatabaseStep == ASSUME ProcessFits, DatabaseFits, [LifecycleNext]_vars PROVE DatabaseFits'
<1>1. CASE DatabaseStays /\ process' = Down_
  <2>1. HeldInQueue' /\ AddingKnown'
    BY <1>1 DEF Down_, HeldInQueue, Executing, AddingKnown
  <2> QED BY <1>1, <2>1, DatabaseKept DEF DatabaseStays, LoopKeeps, DatabaseFits
<1>2. CASE /\ DatabaseStays
           /\ process'.loop \in {process.loop, "getNext"} /\ process'.item = process.item
           /\ process'.adding = process.adding
  <2>1. HeldInQueue' /\ AddingKnown'
    BY <1>2 DEF DatabaseStays, LoopKeeps, DatabaseFits, HeldInQueue, Executing, AddingKnown
  <2> QED BY <1>2, <2>1, DatabaseKept DEF DatabaseStays, LoopKeeps, DatabaseFits
<1>3. CASE EnsureDatabaseExist
  <2>1. /\ exists' = TRUE /\ UNCHANGED <<schema, version, row, items, overtaken>>
        /\ process'.loop = process.loop /\ process'.item = process.item /\ process'.adding = process.adding
    BY <1>3 DEF EnsureDatabaseExist, Then, ProcessFits, Process
  <2>2. HeldInQueue' /\ AddingKnown'
    BY <2>1 DEF DatabaseFits, HeldInQueue, AddingKnown, Executing
  <2> QED BY <2>1, <2>2, DatabaseKept
<1>4. CASE Migrate
  <2>1. /\ version < Latest /\ version' = version + 1 /\ schema' = Up(version + 1, schema)
        /\ UNCHANGED <<exists, row, items, overtaken, process>>
    BY <1>4 DEF Migrate
  <2>2. SchemaFits' /\ version' \in 0..Latest
    BY <2>1, UpLeaves DEF DatabaseFits, SchemaFits, Latest
  <2>3. QueuedInQueueTables'
    BY <2>1 DEF DatabaseFits, QueuedInQueueTables
  <2> QED BY <2>1, <2>2, <2>3
    DEF DatabaseFits, RowTypeOK, ItemsTypeOK, HeldInQueue, AddingKnown, AcceptedSurvives
<1>5. CASE \E m \in Messages : Collect(m) \/ Accept(m) \/ SetQueued(m)
  BY <1>5, CollectFits, AcceptFits, SetQueuedFits
<1> QED BY <1>1, <1>2, <1>3, <1>4, <1>5, TableSteps, RollbackFits, LoopStepFits

-----------------------------------------------------------------------------
(***************************************************************************)
(* The inductive invariant.                                                *)
(***************************************************************************)
Counted == overtaken \subseteq Messages /\ boots \in 0..MaxBoots

LEMMA TablesKnown ==
  SchemaFits => DOMAIN schema \subseteq {"authorisations", "transactions", "finalMessages", "queue_items",
                                         "messages", "signature_key_pairs"}
BY DEF SchemaFits, SchemaAt, Tables, Others

LEMMA InvariantParts == IInv <=> ProcessFits /\ DatabaseFits /\ Counted
<1>1. IInv => ProcessFits /\ DatabaseFits /\ Counted
  BY DEF IInv, LifecycleTypeOK, ProcessFits, DatabaseFits, Counted, RowTypeOK, RowState, ItemsTypeOK
<1>2. ASSUME ProcessFits, DatabaseFits, Counted PROVE IInv
  <2>1. DOMAIN schema \subseteq {"authorisations", "transactions", "finalMessages", "queue_items",
                                 "messages", "signature_key_pairs"}
    BY <1>2, TablesKnown DEF DatabaseFits
  <2> QED BY <1>2, <2>1
        DEF IInv, LifecycleTypeOK, ProcessFits, DatabaseFits, Counted, RowTypeOK, RowState, ItemsTypeOK
<1> QED BY <1>1, <1>2

LEMMA InvariantPartsPrimed == IInv' <=> ProcessFits' /\ DatabaseFits' /\ Counted'
<1>1. SchemaFits' => DOMAIN schema' \subseteq {"authorisations", "transactions", "finalMessages",
                                               "queue_items", "messages", "signature_key_pairs"}
  BY DEF SchemaFits, SchemaAt, Tables, Others
<1>2. IInv' => ProcessFits' /\ DatabaseFits' /\ Counted'
  BY DEF IInv, LifecycleTypeOK, ProcessFits, DatabaseFits, Counted, RowTypeOK, RowState, ItemsTypeOK
<1>3. ASSUME ProcessFits', DatabaseFits', Counted' PROVE IInv'
  BY <1>1, <1>3
    DEF IInv, LifecycleTypeOK, ProcessFits, DatabaseFits, Counted, RowTypeOK, RowState, ItemsTypeOK
<1> QED BY <1>2, <1>3

LEMMA EarlierSix == SchemaAt(6, AfterSix)
<1>0. SchemaAt(0, NoTables)
  BY DEF SchemaAt, Tables, NoTables
<1> DEFINE s1 == Up(1, NoTables)
           s2 == Up(2, s1)
           s3 == Up(3, s2)
           s4 == Up(4, s3)
           s5 == Up(5, s4)
<1>1. SchemaAt(1, s1) BY <1>0, UpLeaves DEF Latest
<1> HIDE DEF s1
<1>2. SchemaAt(2, s2) BY <1>1, UpLeaves DEF Latest
<1> HIDE DEF s2
<1>3. SchemaAt(3, s3) BY <1>2, UpLeaves DEF Latest
<1> HIDE DEF s3
<1>4. SchemaAt(4, s4) BY <1>3, UpLeaves DEF Latest
<1> HIDE DEF s4
<1>5. SchemaAt(5, s5) BY <1>4, UpLeaves DEF Latest
<1> HIDE DEF s5
<1>6. SchemaAt(6, Up(6, s5)) BY <1>5, UpLeaves DEF Latest
<1> QED BY <1>6 DEF AfterSix, s1, s2, s3, s4, s5

\* An earlier release has left its finished messages, in any order, once each.
LEMMA EarlierItems ==
  ASSUME items \in SetToSeqs(OldMessages) \cup {<< >>} PROVE ItemsTypeOK
<1>1. CASE items = << >>
  BY <1>1 DEF ItemsTypeOK, IsInjective
<1>2. CASE items \in SetToSeqs(OldMessages)
  <2>1. Cardinality(OldMessages) \in Nat
    BY LifecycleAssumption, FS_CardinalityType
  <2>2. /\ items \in [1..Cardinality(OldMessages) -> OldMessages]
        /\ \A i, j \in 1..Cardinality(OldMessages) : i # j => items[i] # items[j]
    BY <1>2 DEF SetToSeqs
  <2>3. items \in Seq(Hashes)
    BY <2>1, <2>2 DEF Hashes
  <2>4. IsInjective(items)
    BY <2>2 DEF IsInjective
  <2> QED BY <2>3, <2>4 DEF ItemsTypeOK
<1> QED BY <1>1, <1>2

LEMMA IInvInit == LifecycleInit => IInv
<1> SUFFICES ASSUME LifecycleInit PROVE ProcessFits /\ DatabaseFits /\ Counted
  BY InvariantParts
<1>1. PICK v \in {0, 1, 6} :
        /\ version = v
        /\ schema = CASE v = 0 -> NoTables [] v = 1 -> EarlierFirst [] v = 6 -> AfterSix
        /\ items \in IF v = 6 THEN SetToSeqs(OldMessages) ELSE {<< >>}
        /\ row \in [Hashes -> IF v = 6 THEN {NoRow, Older} ELSE {NoRow}]
  BY DEF LifecycleInit
<1>2. process = Down_ /\ overtaken = {} /\ boots = 0 /\ exists \in BOOLEAN
  BY DEF LifecycleInit
<1>3. ProcessFits
  BY <1>2 DEF Down_, ProcessFits, Process, StartPC, Executing, ServerMigrated, StartInOrder, Serving,
              StoppedForGood
<1>4. Counted
  BY <1>2, LifecycleAssumption DEF Counted
<1>5. SchemaFits
  <2>1. CASE v = 0
    BY <1>1, <2>1 DEF SchemaFits, SchemaAt, Tables, NoTables
  <2>2. CASE v = 1
    BY <1>1, <2>2, Earlier DEF SchemaFits
  <2>3. CASE v = 6
    BY <1>1, <2>3, EarlierSix DEF SchemaFits
  <2> QED BY <2>1, <2>2, <2>3
<1>6. ItemsTypeOK
  BY <1>1, EarlierItems
<1>7. /\ NoRow \in [state : RowState, message : BOOLEAN, transactionHash : BOOLEAN]
      /\ Older \in [state : RowState, message : BOOLEAN, transactionHash : BOOLEAN]
      /\ NoRow.state = "noRow" /\ Older.state = "null"
  BY DEF NoRow, Older, RowState
<1>8. row \in [Hashes -> {NoRow, Older}]
  BY <1>1
<1>9. RowTypeOK /\ \A h \in Hashes : row[h].state \in {"noRow", "null"}
  BY <1>7, <1>8 DEF RowTypeOK
<1>10. HeldInQueue /\ AddingKnown
  BY <1>2 DEF Down_, HeldInQueue, Executing, AddingKnown
<1>11. AcceptedSurvives /\ QueuedInQueueTables
  BY <1>9 DEF AcceptedSurvives, QueuedInQueueTables, Hashes
<1>12. version \in 0..Latest
  BY <1>1 DEF Latest
<1> QED BY <1>2, <1>3, <1>4, <1>5, <1>6, <1>9, <1>10, <1>11, <1>12 DEF DatabaseFits

LEMMA IInvStep == IInv /\ [LifecycleNext]_vars => IInv'
<1> SUFFICES ASSUME ProcessFits, DatabaseFits, Counted, [LifecycleNext]_vars
             PROVE  ProcessFits' /\ DatabaseFits' /\ Counted'
  BY InvariantParts, InvariantPartsPrimed
<1>1. ProcessFits'
  BY ProcessStep DEF DatabaseFits
<1>2. DatabaseFits'
  BY DatabaseStep
<1>3. Counted'
  <2>1. CASE Boot
    BY <2>1, LifecycleAssumption DEF Boot, Counted
  <2>2. CASE Rollback
    BY <2>2 DEF Rollback, Counted
  <2>3. CASE LoopStep
    BY <2>3 DEF LoopStep, Counted
  <2>4. CASE StartDevelopment
    BY <2>4 DEF StartDevelopment, StartGanache, DeployENS, DeployWalletMaster, DeployFactory, DeployToken,
                EnsureDatabaseExist, Then, Counted
  <2>5. CASE Migrate \/ Listen \/ StartQueue \/ StartFails \/ UNCHANGED vars
    BY <2>5 DEF Migrate, Listen, StartQueue, StartFails, vars, Counted
  <2>6. CASE Stop \/ StopLater \/ StopStep \/ End
    BY <2>6 DEF Stop, StopLater, StopStep, Waited, Destroy, Close, End, Becomes, Counted
  <2>7. CASE \E m \in Messages : Collect(m) \/ Accept(m) \/ SetQueued(m)
    BY <2>7 DEF Collect, Accept, SetQueued, Counted
  <2> QED BY <2>1, <2>2, <2>3, <2>4, <2>5, <2>6, <2>7 DEF LifecycleNext
<1> QED BY <1>1, <1>2, <1>3

LEMMA IInvHolds == LifecycleSpec => []IInv
BY IInvInit, IInvStep, PTL DEF LifecycleSpec

-----------------------------------------------------------------------------
(***************************************************************************)
(* Theorems.                                                               *)
(***************************************************************************)
\* Every variable keeps its type, the loop holds an item exactly while it
\* executes one, and runs only in a relayer whose start has ended.
THEOREM TypesHold == LifecycleSpec => []LifecycleTypeOK
<1>1. IInv => LifecycleTypeOK
  BY DEF IInv
<1> QED BY <1>1, IInvHolds, PTL

\* Relayer.start listens only after migrate.latest: whatever release, crash or
\* rollback left the database behind, the stores find their columns.
THEOREM ListensMigrated == LifecycleSpec => []ServesMigrated
<1>1. IInv => ServesMigrated
  BY LatestServes DEF IInv, SchemaFits, ServerMigrated, ServesMigrated
<1> QED BY <1>1, IInvHolds, PTL

\* The queue's loop deletes an item only after it has marked its message, and
\* knex.destroy, a crash or another process takes none away before that; only a
\* request that the loop has overtaken writes 'Queued' of a message without item.
THEOREM AcceptedStays == LifecycleSpec => []AcceptedSurvives
<1>1. IInv => AcceptedSurvives
  BY DEF IInv
<1> QED BY <1>1, IInvHolds, PTL

\* QueueService.stopLater resolves when the loop has said that it found the
\* queue empty: no message is being executed when the database is destroyed.
THEOREM LoopEndsFirst == LifecycleSpec => []StopLaterFinishesWork
<1>1. IInv => StopLaterFinishesWork
  BY DEF IInv, StoppedForGood, StopLaterFinishesWork
<1> QED BY <1>1, IInvHolds, PTL

\* The loop sends only messages whose content it has read from their row.
THEOREM SentWithContent == LifecycleSpec => SentWithMessage
<1>1. IInv => (Send => row[process.item].message)
  BY DEF IInv, HeldInQueue, Send
<1> QED BY <1>1, IInvHolds, PTL DEF SentWithMessage
=============================================================================
