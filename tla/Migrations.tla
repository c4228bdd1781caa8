------------------------------ MODULE Migrations ------------------------------
(***************************************************************************)
(* The relayer's database schema: its eight migrations, up and down, and   *)
(* what the queries of the code need of it.  A table is a set of columns,  *)
(* some of them required: an insert has to give them a value.  The types   *)
(* of columns are left out.                                                *)
(***************************************************************************)
EXTENDS Naturals

NoTables == [t \in {} |-> {}]
Required(c) == [name |-> c, required |-> TRUE]
Optional(c) == [name |-> c, required |-> FALSE]
Id == Optional("id")

\* knex's schema builder.
PutTable(s, t, columns) == [u \in DOMAIN s \cup {t} |-> IF u = t THEN columns ELSE s[u]]
DropTable(s, t) == [u \in DOMAIN s \ {t} |-> s[u]]
RenameTable(s, from, to) == PutTable(DropTable(s, from), to, s[from])
RenameColumn(s, t, from, to) ==
  PutTable(s, t, {IF c.name = from THEN [c EXCEPT !.name = to] ELSE c : c \in s[t]})
DropColumns(s, t, names) == PutTable(s, t, {c \in s[t] : c.name \notin names})
AddColumns(s, t, columns) == PutTable(s, t, s[t] \cup columns)
Names(columns) == {c.name : c \in columns}

Authorisations ==
  {Id, Required("identityAddress"), Required("key"), Optional("deviceInfo")}

\* alter_table_authorisations, unless create_authorisations already has the name.
RenamedWallet(s) ==
  IF "identityAddress" \in Names(s["authorisations"])
  THEN RenameColumn(s, "authorisations", "identityAddress", "walletContractAddress") ELSE s

MessagesTable ==
  {Required("messageHash"), Optional("transactionHash"), Required("walletAddress"),
   Required("createdAt")}
SignatureKeyPairs ==
  {Id, Required("messageHash"), Required("signature"), Required("key")}

\* create_transactions, and what alter_table_transactions makes of them.
Transactions ==
  {Id, Optional("hash"), Optional("error"), Required("created_at"), Required("message")}
FinalMessages(s) ==
  LET renamed == RenameTable(s, "transactions", "finalMessages")
      hashed == RenameColumn(renamed, "finalMessages", "hash", "transactionHash")
  IN AddColumns(DropColumns(hashed, "finalMessages", {"id"}),
                "finalMessages", {Required("messageHash")})

\* alter_message_tables: finished messages become items of the queue.
QueueItems(s) ==
  LET renamed == RenameTable(s, "finalMessages", "queue_items")
      hashed == RenameColumn(renamed, "queue_items", "messageHash", "hash")
  IN AddColumns(DropColumns(hashed, "queue_items", {"transactionHash", "error", "message"}),
                "messages", {Optional("error"), Optional("message"), Optional("state")})

\* Variant: alter_messages_and_queue_items forgets the column of messages.
TypedItemsAndCreatedAt(s) == AddColumns(s, "queue_items", {Optional("type")})

TypedItemsOnly(s) ==
  DropColumns(AddColumns(s, "queue_items", {Optional("type")}), "messages", {"createdAt"})

\* The migrations in the order of their files.
Latest == 8
Up(n, s) ==
  CASE n = 1 -> PutTable(s, "authorisations", Authorisations)
    [] n = 2 -> RenamedWallet(s)
    [] n = 3 -> PutTable(s, "transactions", Transactions)
    [] n = 4 -> PutTable(s, "messages", MessagesTable)
    [] n = 5 -> PutTable(s, "signature_key_pairs", SignatureKeyPairs)
    [] n = 6 -> FinalMessages(s)
    [] n = 7 -> QueueItems(s)
    [] n = 8 -> TypedItemsOnly(s)

DownQueueItems(s) ==
  LET renamed == RenameTable(s, "queue_items", "finalMessages")
      hashed == RenameColumn(renamed, "finalMessages", "hash", "messageHash")
  IN DropColumns(AddColumns(hashed, "finalMessages",
                            {Optional("transactionHash"), Optional("error"), Optional("message")}),
                 "messages", {"error", "message", "state"})
DownFinalMessages(s) ==
  LET renamed == RenameTable(s, "finalMessages", "transactions")
      dropped == DropColumns(renamed, "transactions", {"messageHash"})
  IN AddColumns(RenameColumn(dropped, "transactions", "transactionHash", "hash"),
                "transactions", {Id})

Down(n, s) ==
  CASE n = 8 -> AddColumns(DropColumns(s, "queue_items", {"type"}),
                           "messages", {Optional("createdAt")})
    [] n = 7 -> DownQueueItems(s)
    [] n = 6 -> DownFinalMessages(s)
    [] n = 5 -> DropTable(s, "signature_key_pairs")
    [] n = 4 -> DropTable(s, "messages")
    [] n = 3 -> DropTable(s, "transactions")
    [] n = 2 -> RenameColumn(s, "authorisations", "walletContractAddress", "identityAddress")
    [] n = 1 -> DropTable(s, "authorisations")

\* What a database may have been left at by an earlier relayer: nothing, or the
\* first migration as it was before its file was changed.
EarlierFirst ==
  PutTable(NoTables, "authorisations",
    {Id, Required("walletContractAddress"), Required("key"), Optional("deviceInfo")})

\* The columns that the stores insert, and the others they read or update.
Inserted ==
  [authorisations |-> {"walletContractAddress", "key", "deviceInfo"},
   messages |-> {"messageHash", "transactionHash", "walletAddress", "state", "message"},
   signature_key_pairs |-> {"messageHash", "signature", "key"},
   queue_items |-> {"hash", "type", "created_at"}]
Read == [Inserted EXCEPT !.authorisations = @ \cup {"id"}, !.messages = @ \cup {"error"}]

Serves(s) ==
  \A t \in DOMAIN Inserted :
    /\ t \in DOMAIN s
    /\ Read[t] \subseteq Names(s[t])
    /\ {c.name : c \in {d \in s[t] : d.required}} \subseteq Inserted[t]
=============================================================================
