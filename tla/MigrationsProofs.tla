--------------------------- MODULE MigrationsProofs ---------------------------
(***************************************************************************)
(* What each migration of the database leaves, up or down: which tables    *)
(* there are, the names of their columns, and that no insert misses a      *)
(* required one.  Going up and down again does not give back the columns   *)
(* as they were (some become optional), so the names are what is kept.     *)
(***************************************************************************)
EXTENDS Migrations, TLAPS

IsColumn(c) == c = [name |-> c.name, required |-> c.required] /\ c.required \in BOOLEAN

\* The columns that no insert gives a value are optional.
AreColumns(columns, names) ==
  /\ (\A c \in columns : IsColumn(c)) /\ Names(columns) = names
  /\ \A c \in columns : c.name \in {"id", "error"} => ~c.required

Tables(s) == DOMAIN s
Has(s, t, names) == t \in DOMAIN s /\ AreColumns(s[t], names)

AuthorisationNames == {"id", "walletContractAddress", "key", "deviceInfo"}
EarlierNames == {"id", "identityAddress", "key", "deviceInfo"}
TransactionNames == {"id", "hash", "error", "created_at", "message"}
FinalNames == {"messageHash", "transactionHash", "error", "created_at", "message"}
ItemNames == {"hash", "created_at"}
TypedItemNames == {"hash", "created_at", "type"}
OldMessageNames == {"messageHash", "transactionHash", "walletAddress", "createdAt"}
DatedMessageNames == OldMessageNames \cup {"error", "message", "state"}
MessageNames == DatedMessageNames \ {"createdAt"}
PairNames == {"id", "messageHash", "signature", "key"}

Common(s) == Has(s, "authorisations", AuthorisationNames)
WithMessages(s, names) == Common(s) /\ Has(s, "messages", names)
WithPairs(s, names) == WithMessages(s, names) /\ Has(s, "signature_key_pairs", PairNames)
Others == {"authorisations", "messages", "signature_key_pairs"}

\* A database after n migrations, however it came to be there.
SchemaAt(n, s) ==
  \/ n = 0 /\ Tables(s) = {}
  \/ n = 1 /\ Tables(s) = {"authorisations"} /\ Has(s, "authorisations", EarlierNames)
  \/ n \in {1, 2} /\ Tables(s) = {"authorisations"} /\ Common(s)
  \/ /\ n = 3 /\ Tables(s) = {"authorisations", "transactions"}
     /\ Common(s) /\ Has(s, "transactions", TransactionNames)
  \/ /\ n = 4 /\ Tables(s) = {"authorisations", "messages", "transactions"}
     /\ WithMessages(s, OldMessageNames) /\ Has(s, "transactions", TransactionNames)
  \/ /\ n = 5 /\ Tables(s) = Others \cup {"transactions"}
     /\ WithPairs(s, OldMessageNames) /\ Has(s, "transactions", TransactionNames)
  \/ /\ n = 6 /\ Tables(s) = Others \cup {"finalMessages"}
     /\ WithPairs(s, OldMessageNames) /\ Has(s, "finalMessages", FinalNames)
  \/ /\ n = 7 /\ Tables(s) = Others \cup {"queue_items"}
     /\ WithPairs(s, DatedMessageNames) /\ Has(s, "queue_items", ItemNames)
  \/ /\ n = 8 /\ Tables(s) = Others \cup {"queue_items"}
     /\ WithPairs(s, MessageNames) /\ Has(s, "queue_items", TypedItemNames)

-----------------------------------------------------------------------------
(***************************************************************************)
(* The schema builder.                                                     *)
(***************************************************************************)
\* The tables other than those in ts are as they were.
Keeps(s, r, ts) == \A u, names : u \notin ts /\ Has(s, u, names) => Has(r, u, names)

LEMMA PutFacts ==
  ASSUME NEW s, NEW t, NEW columns, NEW names, AreColumns(columns, names)
  PROVE  /\ Tables(PutTable(s, t, columns)) = Tables(s) \cup {t}
         /\ Has(PutTable(s, t, columns), t, names)
         /\ Keeps(s, PutTable(s, t, columns), {t})
BY DEF PutTable, Tables, Has, Keeps

LEMMA DropFacts ==
  ASSUME NEW s, NEW t
  PROVE  /\ Tables(DropTable(s, t)) = Tables(s) \ {t}
         /\ Keeps(s, DropTable(s, t), {t})
BY DEF DropTable, Tables, Has, Keeps

LEMMA RenameFacts ==
  ASSUME NEW s, NEW from, NEW to, from # to, NEW names, Has(s, from, names)
  PROVE  /\ Tables(RenameTable(s, from, to)) = (Tables(s) \ {from}) \cup {to}
         /\ Has(RenameTable(s, from, to), to, names)
         /\ Keeps(s, RenameTable(s, from, to), {from, to})
BY DEF RenameTable, PutTable, DropTable, Tables, Has, Keeps

LEMMA RenameColumnFacts ==
  ASSUME NEW s, NEW t, NEW names, Has(s, t, names),
         NEW from \in names, NEW to, to \notin {"id", "error"}
  PROVE  /\ Tables(RenameColumn(s, t, from, to)) = Tables(s)
         /\ Has(RenameColumn(s, t, from, to), t, (names \ {from}) \cup {to})
         /\ Keeps(s, RenameColumn(s, t, from, to), {t})
<1> DEFINE Renamed(c) == IF c.name = from THEN [c EXCEPT !.name = to] ELSE c
           columns == {Renamed(c) : c \in s[t]}
<1>1. \A c \in s[t] : /\ IsColumn(c) /\ IsColumn(Renamed(c))
                      /\ Renamed(c).name = IF c.name = from THEN to ELSE c.name
                      /\ Renamed(c).required = c.required
  BY DEF Has, AreColumns, IsColumn
<1>2. Names(s[t]) = names
  BY DEF Has, AreColumns
<1>3. Names(columns) = (names \ {from}) \cup {to}
  <2>1. \A n : n \in Names(columns) <=> \E c \in s[t] : n = Renamed(c).name
    BY DEF Names
  <2>2. \A n : n \in names <=> \E c \in s[t] : n = c.name
    BY <1>2 DEF Names
  <2> HIDE DEF columns, Renamed
  <2>3. \A n : n \in Names(columns) <=> n \in (names \ {from}) \cup {to}
    BY <1>1, <2>1, <2>2
  <2> QED BY <2>3
<1>4. AreColumns(columns, (names \ {from}) \cup {to})
  <2>1. \A c \in columns : IsColumn(c)
    BY <1>1
  <2>2. ASSUME NEW c \in columns, c.name \in {"id", "error"} PROVE ~c.required
    <3>1. PICK d \in s[t] : c = Renamed(d)
      OBVIOUS
    <3>2. d.name = c.name /\ c.required = d.required
      BY <1>1, <2>2, <3>1
    <3> QED BY <2>2, <3>2 DEF Has, AreColumns
  <2> QED BY <1>3, <2>1, <2>2 DEF AreColumns
<1>5. RenameColumn(s, t, from, to) = PutTable(s, t, columns)
  BY DEF RenameColumn
<1> HIDE DEF columns
<1>6. Tables(s) \cup {t} = Tables(s)
  BY DEF Tables, Has
<1>7. /\ Tables(PutTable(s, t, columns)) = Tables(s) \cup {t}
      /\ Has(PutTable(s, t, columns), t, (names \ {from}) \cup {to})
      /\ Keeps(s, PutTable(s, t, columns), {t})
  BY <1>4, PutFacts, Zenon
<1> QED BY <1>5, <1>6, <1>7, Zenon

LEMMA DropColumnsFacts ==
  ASSUME NEW s, NEW t, NEW names, Has(s, t, names), NEW dropped
  PROVE  /\ Tables(DropColumns(s, t, dropped)) = Tables(s)
         /\ Has(DropColumns(s, t, dropped), t, names \ dropped)
         /\ Keeps(s, DropColumns(s, t, dropped), {t})
<1> DEFINE columns == {c \in s[t] : c.name \notin dropped}
<1>1. AreColumns(columns, names \ dropped)
  <2>1. \A n : n \in Names(columns) <=> n \in Names(s[t]) /\ n \notin dropped
    BY DEF Names
  <2>2. Names(columns) = names \ dropped
    BY <2>1 DEF Has, AreColumns
  <2> QED BY <2>2 DEF Has, AreColumns
<1>2. DropColumns(s, t, dropped) = PutTable(s, t, columns)
  BY DEF DropColumns
<1> HIDE DEF columns
<1>3. Tables(s) \cup {t} = Tables(s)
  BY DEF Tables, Has
<1>4. /\ Tables(PutTable(s, t, columns)) = Tables(s) \cup {t}
      /\ Has(PutTable(s, t, columns), t, names \ dropped)
      /\ Keeps(s, PutTable(s, t, columns), {t})
  BY <1>1, PutFacts, Zenon
<1> QED BY <1>2, <1>3, <1>4, Zenon

LEMMA AddColumnsFacts ==
  ASSUME NEW s, NEW t, NEW names, Has(s, t, names),
         NEW columns, NEW new, AreColumns(columns, new)
  PROVE  /\ Tables(AddColumns(s, t, columns)) = Tables(s)
         /\ Has(AddColumns(s, t, columns), t, names \cup new)
         /\ Keeps(s, AddColumns(s, t, columns), {t})
<1>1. AreColumns(s[t] \cup columns, names \cup new)
  <2>1. \A n : n \in Names(s[t] \cup columns) <=> n \in Names(s[t]) \/ n \in Names(columns)
    BY DEF Names
  <2>2. Names(s[t] \cup columns) = names \cup new
    BY <2>1 DEF Has, AreColumns
  <2> QED BY <2>2 DEF Has, AreColumns
<1>2. AddColumns(s, t, columns) = PutTable(s, t, s[t] \cup columns)
  BY DEF AddColumns
<1>3. Tables(s) \cup {t} = Tables(s)
  BY DEF Tables, Has
<1>4. /\ Tables(PutTable(s, t, s[t] \cup columns)) = Tables(s) \cup {t}
      /\ Has(PutTable(s, t, s[t] \cup columns), t, names \cup new)
      /\ Keeps(s, PutTable(s, t, s[t] \cup columns), {t})
  BY <1>1, PutFacts, Zenon
<1> QED BY <1>2, <1>3, <1>4, Zenon

\* The columns that the migrations write down.
LEMMA OneColumn ==
  ASSUME NEW c
  PROVE  /\ c \notin {"id", "error"} => AreColumns({Required(c)}, {c})
         /\ AreColumns({Optional(c)}, {c})
<1>1. Names({Required(c)}) = {c} /\ Names({Optional(c)}) = {c}
  BY DEF Names, Required, Optional
<1> QED BY <1>1 DEF AreColumns, IsColumn, Required, Optional

LEMMA MoreColumns ==
  ASSUME NEW columns, NEW names, AreColumns(columns, names),
         NEW more, NEW new, AreColumns(more, new)
  PROVE  AreColumns(columns \cup more, names \cup new)
<1>1. Names(columns \cup more) = Names(columns) \cup Names(more)
  BY DEF Names
<1> QED BY <1>1 DEF AreColumns

LEMMA PairsKept ==
  ASSUME NEW s, NEW r, NEW t \in {"transactions", "finalMessages", "queue_items"},
         Keeps(s, r, {t}), NEW names, WithPairs(s, names)
  PROVE  WithPairs(r, names)
BY DEF Keeps, WithPairs, WithMessages, Common

LEMMA MessagesAltered ==
  ASSUME NEW s, NEW r, Keeps(s, r, {"messages"}), NEW names, WithPairs(s, names),
         NEW new, Has(r, "messages", new)
  PROVE  /\ WithPairs(r, new)
         /\ \A t \in {"queue_items", "finalMessages"} : \A ns : Has(s, t, ns) => Has(r, t, ns)
BY DEF Keeps, WithPairs, WithMessages, Common

\* A table of three columns that may be left out.
LEMMA ThreeColumns ==
  ASSUME NEW a, NEW b, NEW c
  PROVE  AreColumns({Optional(a), Optional(b), Optional(c)}, {a, b, c})
<1>1. AreColumns({Optional(a)} \cup {Optional(b)}, {a} \cup {b})
  BY OneColumn, MoreColumns, Zenon
<1>2. AreColumns(({Optional(a)} \cup {Optional(b)}) \cup {Optional(c)}, ({a} \cup {b}) \cup {c})
  BY <1>1, OneColumn, MoreColumns, Zenon
<1>3. /\ ({Optional(a)} \cup {Optional(b)}) \cup {Optional(c)} = {Optional(a), Optional(b), Optional(c)}
      /\ ({a} \cup {b}) \cup {c} = {a, b, c}
  OBVIOUS
<1> QED BY <1>2, <1>3, Zenon

-----------------------------------------------------------------------------
(***************************************************************************)
(* The migrations that move columns.                                       *)
(***************************************************************************)
LEMMA FinalMessagesUp == ASSUME NEW s, SchemaAt(5, s) PROVE SchemaAt(6, FinalMessages(s))
<1> DEFINE renamed == RenameTable(s, "transactions", "finalMessages")
           hashed == RenameColumn(renamed, "finalMessages", "hash", "transactionHash")
           dropped == DropColumns(hashed, "finalMessages", {"id"})
           added == AddColumns(dropped, "finalMessages", {Required("messageHash")})
           columns == (((TransactionNames \ {"hash"}) \cup {"transactionHash"}) \ {"id"})
                        \cup {"messageHash"}
<1>1. /\ Tables(s) = Others \cup {"transactions"}
      /\ WithPairs(s, OldMessageNames) /\ Has(s, "transactions", TransactionNames)
  BY DEF SchemaAt
<1>2. /\ Tables(renamed) = (Tables(s) \ {"transactions"}) \cup {"finalMessages"}
      /\ Has(renamed, "finalMessages", TransactionNames)
      /\ Keeps(s, renamed, {"transactions", "finalMessages"})
  BY <1>1, RenameFacts, Zenon
<1>3. /\ Tables(hashed) = Tables(renamed)
      /\ Has(hashed, "finalMessages", (TransactionNames \ {"hash"}) \cup {"transactionHash"})
      /\ Keeps(renamed, hashed, {"finalMessages"})
  <2>1. "hash" \in TransactionNames /\ "transactionHash" \notin {"id", "error"}
    BY DEF TransactionNames
  <2> QED BY <1>2, <2>1, RenameColumnFacts, Zenon
<1>4. /\ Tables(dropped) = Tables(hashed)
      /\ Has(dropped, "finalMessages", ((TransactionNames \ {"hash"}) \cup {"transactionHash"}) \ {"id"})
      /\ Keeps(hashed, dropped, {"finalMessages"})
  BY <1>3, DropColumnsFacts, Zenon
<1>5. /\ Tables(added) = Tables(dropped)
      /\ Has(added, "finalMessages", columns)
      /\ Keeps(dropped, added, {"finalMessages"})
  <2>1. AreColumns({Required("messageHash")}, {"messageHash"})
    BY OneColumn
  <2> QED BY <1>4, <2>1, AddColumnsFacts, Zenon
<1> HIDE DEF renamed, hashed, dropped, added
<1>6. WithPairs(renamed, OldMessageNames)
  BY <1>1, <1>2 DEF Keeps, WithPairs, WithMessages, Common
<1>7. WithPairs(added, OldMessageNames)
  BY <1>3, <1>4, <1>5, <1>6, PairsKept
<1>8. columns = FinalNames
  BY DEF TransactionNames, FinalNames
<1>9. Tables(added) = Others \cup {"finalMessages"}
  BY <1>1, <1>2, <1>3, <1>4, <1>5 DEF Others
<1>10. SchemaAt(6, added)
  BY <1>5, <1>7, <1>8, <1>9 DEF SchemaAt
<1> QED BY <1>10 DEF added, dropped, hashed, renamed, FinalMessages

LEMMA QueueItemsUp == ASSUME NEW s, SchemaAt(6, s) PROVE SchemaAt(7, QueueItems(s))
<1> DEFINE renamed == RenameTable(s, "finalMessages", "queue_items")
           hashed == RenameColumn(renamed, "queue_items", "messageHash", "hash")
           dropped == DropColumns(hashed, "queue_items", {"transactionHash", "error", "message"})
           stated == {Optional("error"), Optional("message"), Optional("state")}
           added == AddColumns(dropped, "messages", stated)
           columns == ((FinalNames \ {"messageHash"}) \cup {"hash"})
                        \ {"transactionHash", "error", "message"}
<1>1. /\ Tables(s) = Others \cup {"finalMessages"}
      /\ WithPairs(s, OldMessageNames) /\ Has(s, "finalMessages", FinalNames)
  BY DEF SchemaAt
<1>2. /\ Tables(renamed) = (Tables(s) \ {"finalMessages"}) \cup {"queue_items"}
      /\ Has(renamed, "queue_items", FinalNames)
      /\ Keeps(s, renamed, {"finalMessages", "queue_items"})
  BY <1>1, RenameFacts, Zenon
<1>3. /\ Tables(hashed) = Tables(renamed)
      /\ Has(hashed, "queue_items", (FinalNames \ {"messageHash"}) \cup {"hash"})
      /\ Keeps(renamed, hashed, {"queue_items"})
  <2>1. "messageHash" \in FinalNames /\ "hash" \notin {"id", "error"}
    BY DEF FinalNames
  <2> QED BY <1>2, <2>1, RenameColumnFacts, Zenon
<1>4. /\ Tables(dropped) = Tables(hashed)
      /\ Has(dropped, "queue_items", columns)
      /\ Keeps(hashed, dropped, {"queue_items"})
  BY <1>3, DropColumnsFacts, Zenon
<1> HIDE DEF renamed, hashed, dropped
<1>5. WithPairs(dropped, OldMessageNames)
  <2>1. WithPairs(renamed, OldMessageNames)
    BY <1>1, <1>2 DEF Keeps, WithPairs, WithMessages, Common
  <2> QED BY <1>3, <1>4, <2>1, PairsKept
<1>6. /\ Tables(added) = Tables(dropped)
      /\ Has(added, "messages", OldMessageNames \cup {"error", "message", "state"})
      /\ Keeps(dropped, added, {"messages"})
  <2>1. AreColumns(stated, {"error", "message", "state"})
    BY ThreeColumns, Zenon
  <2>2. Has(dropped, "messages", OldMessageNames)
    BY <1>5 DEF WithPairs, WithMessages
  <2> QED BY <2>1, <2>2, AddColumnsFacts, Zenon
<1> HIDE DEF added
<1>7. columns = ItemNames
  BY DEF FinalNames, ItemNames
<1>8. WithPairs(added, DatedMessageNames) /\ Has(added, "queue_items", ItemNames)
  <2>1. Has(added, "messages", DatedMessageNames)
    BY <1>6 DEF DatedMessageNames
  <2> QED BY <1>4, <1>5, <1>6, <1>7, <2>1, MessagesAltered, Zenon
<1>9. Tables(added) = Others \cup {"queue_items"}
  BY <1>1, <1>2, <1>3, <1>4, <1>6 DEF Others
<1>10. SchemaAt(7, added)
  BY <1>8, <1>9 DEF SchemaAt
<1> QED BY <1>10 DEF added, dropped, hashed, renamed, QueueItems

LEMMA QueueItemsDown == ASSUME NEW s, SchemaAt(7, s) PROVE SchemaAt(6, DownQueueItems(s))
<1> DEFINE renamed == RenameTable(s, "queue_items", "finalMessages")
           hashed == RenameColumn(renamed, "finalMessages", "hash", "messageHash")
           finished == {Optional("transactionHash"), Optional("error"), Optional("message")}
           added == AddColumns(hashed, "finalMessages", finished)
           dropped == DropColumns(added, "messages", {"error", "message", "state"})
           columns == ((ItemNames \ {"hash"}) \cup {"messageHash"})
                        \cup {"transactionHash", "error", "message"}
<1>1. /\ Tables(s) = Others \cup {"queue_items"}
      /\ WithPairs(s, DatedMessageNames) /\ Has(s, "queue_items", ItemNames)
  BY DEF SchemaAt
<1>2. /\ Tables(renamed) = (Tables(s) \ {"queue_items"}) \cup {"finalMessages"}
      /\ Has(renamed, "finalMessages", ItemNames)
      /\ Keeps(s, renamed, {"queue_items", "finalMessages"})
  BY <1>1, RenameFacts, Zenon
<1>3. /\ Tables(hashed) = Tables(renamed)
      /\ Has(hashed, "finalMessages", (ItemNames \ {"hash"}) \cup {"messageHash"})
      /\ Keeps(renamed, hashed, {"finalMessages"})
  <2>1. "hash" \in ItemNames /\ "messageHash" \notin {"id", "error"}
    BY DEF ItemNames
  <2> QED BY <1>2, <2>1, RenameColumnFacts, Zenon
<1>4. /\ Tables(added) = Tables(hashed)
      /\ Has(added, "finalMessages", columns)
      /\ Keeps(hashed, added, {"finalMessages"})
  <2>1. AreColumns(finished, {"transactionHash", "error", "message"})
    BY ThreeColumns, Zenon
  <2> QED BY <1>3, <2>1, AddColumnsFacts, Zenon
<1> HIDE DEF renamed, hashed, added
<1>5. WithPairs(added, DatedMessageNames)
  <2>1. WithPairs(renamed, DatedMessageNames)
    BY <1>1, <1>2 DEF Keeps, WithPairs, WithMessages, Common
  <2> QED BY <1>3, <1>4, <2>1, PairsKept
<1>6. /\ Tables(dropped) = Tables(added)
      /\ Has(dropped, "messages", DatedMessageNames \ {"error", "message", "state"})
      /\ Keeps(added, dropped, {"messages"})
  <2>1. Has(added, "messages", DatedMessageNames)
    BY <1>5 DEF WithPairs, WithMessages
  <2> QED BY <2>1, DropColumnsFacts, Zenon
<1> HIDE DEF dropped
<1>7. columns = FinalNames /\ DatedMessageNames \ {"error", "message", "state"} = OldMessageNames
  BY DEF FinalNames, ItemNames, DatedMessageNames, OldMessageNames
<1>8. WithPairs(dropped, OldMessageNames) /\ Has(dropped, "finalMessages", FinalNames)
  <2>1. Has(dropped, "messages", OldMessageNames)
    BY <1>6, <1>7
  <2> QED BY <1>4, <1>5, <1>6, <1>7, <2>1, MessagesAltered, Zenon
<1>9. Tables(dropped) = Others \cup {"finalMessages"}
  BY <1>1, <1>2, <1>3, <1>4, <1>6 DEF Others
<1>10. SchemaAt(6, dropped)
  BY <1>8, <1>9 DEF SchemaAt
<1> QED BY <1>10 DEF added, dropped, hashed, renamed, DownQueueItems

LEMMA FinalMessagesDown == ASSUME NEW s, SchemaAt(6, s) PROVE SchemaAt(5, DownFinalMessages(s))
<1> DEFINE renamed == RenameTable(s, "finalMessages", "transactions")
           dropped == DropColumns(renamed, "transactions", {"messageHash"})
           hashed == RenameColumn(dropped, "transactions", "transactionHash", "hash")
           added == AddColumns(hashed, "transactions", {Id})
           columns == (((FinalNames \ {"messageHash"}) \ {"transactionHash"}) \cup {"hash"}) \cup {"id"}
<1>1. /\ Tables(s) = Others \cup {"finalMessages"}
      /\ WithPairs(s, OldMessageNames) /\ Has(s, "finalMessages", FinalNames)
  BY DEF SchemaAt
<1>2. /\ Tables(renamed) = (Tables(s) \ {"finalMessages"}) \cup {"transactions"}
      /\ Has(renamed, "transactions", FinalNames)
      /\ Keeps(s, renamed, {"finalMessages", "transactions"})
  BY <1>1, RenameFacts, Zenon
<1>3. /\ Tables(dropped) = Tables(renamed)
      /\ Has(dropped, "transactions", FinalNames \ {"messageHash"})
      /\ Keeps(renamed, dropped, {"transactions"})
  BY <1>2, DropColumnsFacts, Zenon
<1>4. /\ Tables(hashed) = Tables(dropped)
      /\ Has(hashed, "transactions", ((FinalNames \ {"messageHash"}) \ {"transactionHash"}) \cup {"hash"})
      /\ Keeps(dropped, hashed, {"transactions"})
  <2>1. "transactionHash" \in FinalNames \ {"messageHash"} /\ "hash" \notin {"id", "error"}
    BY DEF FinalNames
  <2> QED BY <1>3, <2>1, RenameColumnFacts, Zenon
<1>5. /\ Tables(added) = Tables(hashed)
      /\ Has(added, "transactions", columns)
      /\ Keeps(hashed, added, {"transactions"})
  <2>1. AreColumns({Id}, {"id"})
    BY OneColumn DEF Id
  <2> QED BY <1>4, <2>1, AddColumnsFacts, Zenon
<1> HIDE DEF renamed, hashed, dropped, added
<1>6. WithPairs(renamed, OldMessageNames)
  BY <1>1, <1>2 DEF Keeps, WithPairs, WithMessages, Common
<1>7. WithPairs(added, OldMessageNames)
  BY <1>3, <1>4, <1>5, <1>6, PairsKept
<1>8. columns = TransactionNames
  BY DEF TransactionNames, FinalNames
<1>9. Tables(added) = Others \cup {"transactions"}
  BY <1>1, <1>2, <1>3, <1>4, <1>5 DEF Others
<1>10. SchemaAt(5, added)
  BY <1>5, <1>7, <1>8, <1>9 DEF SchemaAt
<1> QED BY <1>10 DEF added, dropped, hashed, renamed, DownFinalMessages

-----------------------------------------------------------------------------
(***************************************************************************)
(* The tables that are created and dropped, and the columns of the last.   *)
(***************************************************************************)
LEMMA GivenTables ==
  /\ AreColumns(Authorisations, EarlierNames)
  /\ AreColumns(Transactions, TransactionNames)
  /\ AreColumns(MessagesTable, OldMessageNames)
  /\ AreColumns(SignatureKeyPairs, PairNames)
<1>1. AreColumns(Authorisations, EarlierNames)
  <2>1. Names(Authorisations) = EarlierNames
    BY DEF Names, Authorisations, EarlierNames, Required, Optional, Id
  <2> QED BY <2>1 DEF AreColumns, IsColumn, Authorisations, Required, Optional, Id
<1>2. AreColumns(Transactions, TransactionNames)
  <2>1. Names(Transactions) = TransactionNames
    BY DEF Names, Transactions, TransactionNames, Required, Optional, Id
  <2> QED BY <2>1 DEF AreColumns, IsColumn, Transactions, Required, Optional, Id
<1>3. AreColumns(MessagesTable, OldMessageNames)
  <2>1. Names(MessagesTable) = OldMessageNames
    BY DEF Names, MessagesTable, OldMessageNames, Required, Optional
  <2> QED BY <2>1 DEF AreColumns, IsColumn, MessagesTable, Required, Optional
<1>4. AreColumns(SignatureKeyPairs, PairNames)
  <2>1. Names(SignatureKeyPairs) = PairNames
    BY DEF Names, SignatureKeyPairs, PairNames, Required, Optional, Id
  <2> QED BY <2>1 DEF AreColumns, IsColumn, SignatureKeyPairs, Required, Optional, Id
<1> QED BY <1>1, <1>2, <1>3, <1>4

LEMMA Earlier == SchemaAt(1, EarlierFirst)
<1> DEFINE columns ==
      {Id, Required("walletContractAddress"), Required("key"), Optional("deviceInfo")}
<1>1. AreColumns(columns, AuthorisationNames)
  <2>1. Names(columns) = AuthorisationNames
    BY DEF Names, AuthorisationNames, Required, Optional, Id
  <2> QED BY <2>1 DEF AreColumns, IsColumn, Required, Optional, Id
<1> HIDE DEF columns
<1>2. Tables(NoTables) = {}
  BY DEF Tables, NoTables
<1>3. /\ Tables(PutTable(NoTables, "authorisations", columns)) = Tables(NoTables) \cup {"authorisations"}
      /\ Has(PutTable(NoTables, "authorisations", columns), "authorisations", AuthorisationNames)
  BY <1>1, PutFacts, Zenon
<1> QED BY <1>2, <1>3 DEF EarlierFirst, SchemaAt, Common, columns

LEMMA RenamedWalletUp == ASSUME NEW s, SchemaAt(1, s) PROVE SchemaAt(2, RenamedWallet(s))
<1>1. CASE Has(s, "authorisations", EarlierNames)
  <2>1. "identityAddress" \in EarlierNames /\ "walletContractAddress" \notin {"id", "error"}
    BY DEF EarlierNames
  <2> DEFINE renamed == RenameColumn(s, "authorisations", "identityAddress", "walletContractAddress")
  <2>2. /\ Tables(renamed) = Tables(s)
        /\ Has(renamed, "authorisations",
               (EarlierNames \ {"identityAddress"}) \cup {"walletContractAddress"})
    BY <1>1, <2>1, RenameColumnFacts, Zenon
  <2>3. RenamedWallet(s) = renamed
    BY <1>1, <2>1 DEF RenamedWallet, Has, AreColumns
  <2> HIDE DEF renamed
  <2>4. (EarlierNames \ {"identityAddress"}) \cup {"walletContractAddress"} = AuthorisationNames
    BY DEF EarlierNames, AuthorisationNames
  <2>5. Tables(s) = {"authorisations"}
    BY DEF SchemaAt
  <2> QED BY <2>2, <2>3, <2>4, <2>5 DEF SchemaAt, Common
<1>2. CASE Common(s)
  <2>1. "identityAddress" \notin Names(s["authorisations"])
    BY <1>2 DEF Common, Has, AreColumns, AuthorisationNames
  <2> QED BY <1>2, <2>1 DEF RenamedWallet, SchemaAt
<1> QED BY <1>1, <1>2 DEF SchemaAt

LEMMA TypedItemsUp == ASSUME NEW s, SchemaAt(7, s) PROVE SchemaAt(8, TypedItemsOnly(s))
<1> DEFINE typed == AddColumns(s, "queue_items", {Optional("type")})
           dropped == DropColumns(typed, "messages", {"createdAt"})
<1>1. /\ Tables(s) = Others \cup {"queue_items"}
      /\ WithPairs(s, DatedMessageNames) /\ Has(s, "queue_items", ItemNames)
  BY DEF SchemaAt
<1>2. /\ Tables(typed) = Tables(s)
      /\ Has(typed, "queue_items", ItemNames \cup {"type"})
      /\ Keeps(s, typed, {"queue_items"})
  BY <1>1, OneColumn, AddColumnsFacts, Zenon
<1> HIDE DEF typed
<1>3. WithPairs(typed, DatedMessageNames)
  BY <1>1, <1>2, PairsKept
<1>4. /\ Tables(dropped) = Tables(typed)
      /\ Has(dropped, "messages", MessageNames)
      /\ Keeps(typed, dropped, {"messages"})
  <2>1. Has(typed, "messages", DatedMessageNames)
    BY <1>3 DEF WithPairs, WithMessages
  <2> QED BY <2>1, DropColumnsFacts, Zenon DEF MessageNames
<1> HIDE DEF dropped
<1>5. ItemNames \cup {"type"} = TypedItemNames
  BY DEF ItemNames, TypedItemNames
<1>6. WithPairs(dropped, MessageNames) /\ Has(dropped, "queue_items", TypedItemNames)
  BY <1>2, <1>3, <1>4, <1>5, MessagesAltered, Zenon
<1>7. SchemaAt(8, dropped)
  BY <1>1, <1>2, <1>4, <1>6 DEF SchemaAt
<1> QED BY <1>7 DEF dropped, typed, TypedItemsOnly

LEMMA TypedItemsDown ==
  ASSUME NEW s, SchemaAt(8, s)
  PROVE  SchemaAt(7, AddColumns(DropColumns(s, "queue_items", {"type"}),
                                "messages", {Optional("createdAt")}))
<1> DEFINE dropped == DropColumns(s, "queue_items", {"type"})
           added == AddColumns(dropped, "messages", {Optional("createdAt")})
<1>1. /\ Tables(s) = Others \cup {"queue_items"}
      /\ WithPairs(s, MessageNames) /\ Has(s, "queue_items", TypedItemNames)
  BY DEF SchemaAt
<1>2. /\ Tables(dropped) = Tables(s)
      /\ Has(dropped, "queue_items", TypedItemNames \ {"type"})
      /\ Keeps(s, dropped, {"queue_items"})
  BY <1>1, DropColumnsFacts, Zenon
<1> HIDE DEF dropped
<1>3. WithPairs(dropped, MessageNames)
  BY <1>1, <1>2, PairsKept
<1>4. /\ Tables(added) = Tables(dropped)
      /\ Has(added, "messages", MessageNames \cup {"createdAt"})
      /\ Keeps(dropped, added, {"messages"})
  <2>1. Has(dropped, "messages", MessageNames)
    BY <1>3 DEF WithPairs, WithMessages
  <2> QED BY <2>1, OneColumn, AddColumnsFacts, Zenon
<1> HIDE DEF added
<1>5. /\ TypedItemNames \ {"type"} = ItemNames
      /\ MessageNames \cup {"createdAt"} = DatedMessageNames
  BY DEF ItemNames, TypedItemNames, MessageNames, DatedMessageNames, OldMessageNames
<1>6. WithPairs(added, DatedMessageNames) /\ Has(added, "queue_items", ItemNames)
  BY <1>2, <1>3, <1>4, <1>5, MessagesAltered, Zenon
<1>7. SchemaAt(7, added)
  BY <1>1, <1>2, <1>4, <1>6 DEF SchemaAt
<1> QED BY <1>7 DEF added, dropped

LEMMA RenamedWalletDown ==
  ASSUME NEW s, SchemaAt(2, s)
  PROVE  SchemaAt(1, RenameColumn(s, "authorisations", "walletContractAddress", "identityAddress"))
<1> DEFINE renamed == RenameColumn(s, "authorisations", "walletContractAddress", "identityAddress")
<1>1. Tables(s) = {"authorisations"} /\ Has(s, "authorisations", AuthorisationNames)
  BY DEF SchemaAt, Common
<1>2. "walletContractAddress" \in AuthorisationNames /\ "identityAddress" \notin {"id", "error"}
  BY DEF AuthorisationNames
<1>3. /\ Tables(renamed) = Tables(s)
      /\ Has(renamed, "authorisations",
             (AuthorisationNames \ {"walletContractAddress"}) \cup {"identityAddress"})
  <2>1. Has(s, "authorisations", AuthorisationNames)
    BY <1>1
  <2>2. "walletContractAddress" \in AuthorisationNames
    BY <1>2
  <2>3. "identityAddress" \notin {"id", "error"}
    BY <1>2
  <2> QED BY <2>1, <2>2, <2>3, RenameColumnFacts, Zenon
<1>4. (AuthorisationNames \ {"walletContractAddress"}) \cup {"identityAddress"} = EarlierNames
  BY DEF EarlierNames, AuthorisationNames
<1> HIDE DEF renamed
<1>5. SchemaAt(1, renamed)
  BY <1>1, <1>3, <1>4 DEF SchemaAt
<1> QED BY <1>5 DEF renamed

\* A table is created, with the columns written down for it.
LEMMA TableUp ==
  ASSUME NEW n \in {0, 2, 3, 4}, NEW s, SchemaAt(n, s) PROVE SchemaAt(n + 1, Up(n + 1, s))
<1>1. CASE n = 0
  <2> DEFINE r == PutTable(s, "authorisations", Authorisations)
  <2>1. /\ Tables(r) = Tables(s) \cup {"authorisations"} /\ Has(r, "authorisations", EarlierNames)
    BY GivenTables, PutFacts, Zenon
  <2> HIDE DEF r
  <2>2. SchemaAt(1, r)
    BY <1>1, <2>1 DEF SchemaAt
  <2> QED BY <1>1, <2>2 DEF r, Up
<1>2. CASE n = 2
  <2> DEFINE r == PutTable(s, "transactions", Transactions)
  <2>1. /\ Tables(r) = Tables(s) \cup {"transactions"} /\ Has(r, "transactions", TransactionNames)
        /\ Keeps(s, r, {"transactions"})
    BY GivenTables, PutFacts, Zenon
  <2> HIDE DEF r
  <2>2. SchemaAt(3, r)
    BY <1>2, <2>1 DEF SchemaAt, Common, Keeps
  <2> QED BY <1>2, <2>2 DEF r, Up
<1>3. CASE n = 3
  <2> DEFINE r == PutTable(s, "messages", MessagesTable)
  <2>1. /\ Tables(r) = Tables(s) \cup {"messages"} /\ Has(r, "messages", OldMessageNames)
        /\ Keeps(s, r, {"messages"})
    BY GivenTables, PutFacts, Zenon
  <2> HIDE DEF r
  <2>2. SchemaAt(4, r)
    BY <1>3, <2>1 DEF SchemaAt, Common, WithMessages, Keeps
  <2> QED BY <1>3, <2>2 DEF r, Up
<1>4. CASE n = 4
  <2> DEFINE r == PutTable(s, "signature_key_pairs", SignatureKeyPairs)
  <2>1. /\ Tables(r) = Tables(s) \cup {"signature_key_pairs"}
        /\ Has(r, "signature_key_pairs", PairNames) /\ Keeps(s, r, {"signature_key_pairs"})
    BY GivenTables, PutFacts, Zenon
  <2> HIDE DEF r
  <2>2. SchemaAt(5, r)
    BY <1>4, <2>1 DEF SchemaAt, Common, WithMessages, WithPairs, Keeps, Others
  <2> QED BY <1>4, <2>2 DEF r, Up
<1> QED BY <1>1, <1>2, <1>3, <1>4

LEMMA TableDown ==
  ASSUME NEW n \in {1, 3, 4, 5}, NEW s, SchemaAt(n, s) PROVE SchemaAt(n - 1, Down(n, s))
<1>1. CASE n = 1
  <2> DEFINE r == DropTable(s, "authorisations")
  <2>1. Tables(r) = Tables(s) \ {"authorisations"}
    BY DropFacts, Zenon
  <2> HIDE DEF r
  <2>2. SchemaAt(0, r)
    BY <1>1, <2>1 DEF SchemaAt
  <2> QED BY <1>1, <2>2 DEF r, Down
<1>2. CASE n = 3
  <2> DEFINE r == DropTable(s, "transactions")
  <2>1. Tables(r) = Tables(s) \ {"transactions"} /\ Keeps(s, r, {"transactions"})
    BY DropFacts, Zenon
  <2> HIDE DEF r
  <2>2. SchemaAt(2, r)
    BY <1>2, <2>1 DEF SchemaAt, Common, Keeps
  <2> QED BY <1>2, <2>2 DEF r, Down
<1>3. CASE n = 4
  <2> DEFINE r == DropTable(s, "messages")
  <2>1. Tables(r) = Tables(s) \ {"messages"} /\ Keeps(s, r, {"messages"})
    BY DropFacts, Zenon
  <2> HIDE DEF r
  <2>2. SchemaAt(3, r)
    BY <1>3, <2>1 DEF SchemaAt, Common, WithMessages, Keeps
  <2> QED BY <1>3, <2>2 DEF r, Down
<1>4. CASE n = 5
  <2> DEFINE r == DropTable(s, "signature_key_pairs")
  <2>1. /\ Tables(r) = Tables(s) \ {"signature_key_pairs"}
        /\ Keeps(s, r, {"signature_key_pairs"})
    BY DropFacts, Zenon
  <2> HIDE DEF r
  <2>2. SchemaAt(4, r)
    BY <1>4, <2>1 DEF SchemaAt, Common, WithMessages, WithPairs, Keeps, Others
  <2> QED BY <1>4, <2>2 DEF r, Down
<1> QED BY <1>1, <1>2, <1>3, <1>4

-----------------------------------------------------------------------------
(***************************************************************************)
(* All of them.                                                            *)
(***************************************************************************)
\* knex's migrate.latest, one file: from what the file before has left, however
\* often the database went up and down.
THEOREM UpLeaves ==
  ASSUME NEW n \in 0..Latest, n < Latest, NEW s, SchemaAt(n, s) PROVE SchemaAt(n + 1, Up(n + 1, s))
<1>1. CASE n \in {0, 2, 3, 4}
  BY <1>1, TableUp
<1>2. CASE n = 1
  BY <1>2, RenamedWalletUp DEF Up
<1>3. CASE n = 5
  BY <1>3, FinalMessagesUp DEF Up
<1>4. CASE n = 6
  BY <1>4, QueueItemsUp DEF Up
<1>5. CASE n = 7
  BY <1>5, TypedItemsUp DEF Up
<1> QED BY <1>1, <1>2, <1>3, <1>4, <1>5 DEF Latest

\* migrate.rollback, one file.
THEOREM DownLeaves ==
  ASSUME NEW n \in 1..Latest, NEW s, SchemaAt(n, s) PROVE SchemaAt(n - 1, Down(n, s))
<1>1. CASE n \in {1, 3, 4, 5}
  BY <1>1, TableDown
<1>2. CASE n = 2
  BY <1>2, RenamedWalletDown DEF Down
<1>3. CASE n = 6
  BY <1>3, FinalMessagesDown DEF Down
<1>4. CASE n = 7
  BY <1>4, QueueItemsDown DEF Down
<1>5. CASE n = 8
  BY <1>5, TypedItemsDown DEF Down
<1> QED BY <1>1, <1>2, <1>3, <1>4, <1>5 DEF Latest

\* After the last migration the stores find every column they name, and no
\* insert misses a required one.
THEOREM LatestServes == ASSUME NEW s, SchemaAt(Latest, s) PROVE Serves(s)
<1>1. /\ Has(s, "authorisations", AuthorisationNames) /\ Has(s, "messages", MessageNames)
      /\ Has(s, "signature_key_pairs", PairNames) /\ Has(s, "queue_items", TypedItemNames)
  BY DEF Latest, SchemaAt, WithPairs, WithMessages, Common
<1>2. ASSUME NEW t, NEW names, Has(s, t, names), NEW inserted, names \ {"id", "error"} \subseteq inserted
      PROVE  t \in DOMAIN s /\ {c.name : c \in {d \in s[t] : d.required}} \subseteq inserted
  BY <1>2 DEF Has, AreColumns, Names
<1>3. DOMAIN Inserted = {"authorisations", "messages", "signature_key_pairs", "queue_items"}
  BY DEF Inserted
<1>4. ASSUME NEW t, NEW names, Has(s, t, names), NEW read, read \subseteq names
      PROVE  read \subseteq Names(s[t])
  BY <1>4 DEF Has, AreColumns
<1>5. /\ AuthorisationNames \ {"id", "error"} \subseteq Inserted["authorisations"]
      /\ MessageNames \ {"id", "error"} \subseteq Inserted["messages"]
      /\ PairNames \ {"id", "error"} \subseteq Inserted["signature_key_pairs"]
      /\ TypedItemNames \ {"id", "error"} \subseteq Inserted["queue_items"]
  BY DEF Inserted, AuthorisationNames, MessageNames, DatedMessageNames, OldMessageNames, PairNames,
         TypedItemNames
<1>6. /\ Read["authorisations"] \subseteq AuthorisationNames
      /\ Read["messages"] \subseteq MessageNames
      /\ Read["signature_key_pairs"] \subseteq PairNames
      /\ Read["queue_items"] \subseteq TypedItemNames
  BY DEF Read, Inserted, AuthorisationNames, MessageNames, DatedMessageNames, OldMessageNames,
         PairNames, TypedItemNames
<1>7. ASSUME NEW t, NEW names, Has(s, t, names), names \ {"id", "error"} \subseteq Inserted[t],
             Read[t] \subseteq names
      PROVE  /\ t \in DOMAIN s
             /\ Read[t] \subseteq Names(s[t])
             /\ {c.name : c \in {d \in s[t] : d.required}} \subseteq Inserted[t]
  BY <1>2, <1>4, <1>7
<1>8. \A t \in DOMAIN Inserted :
        /\ t \in DOMAIN s
        /\ Read[t] \subseteq Names(s[t])
        /\ {c.name : c \in {d \in s[t] : d.required}} \subseteq Inserted[t]
  BY <1>1, <1>3, <1>5, <1>6, <1>7
<1> QED BY <1>8 DEF Serves
=============================================================================
