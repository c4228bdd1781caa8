# Verification of Universal Login

TLA+ modules, TLC runs and TLAPS proofs about the Universal Login monorepo: the wallet smart
contract, the relayer that executes signed messages for it, the SDK that talks to the relayer and
watches the chain, and the wallet application built on it. Paths are relative to `src/`.

To repeat everything: `tlc -config X.cfg M` for each run listed in `PROJECT.json`, and `tlapm M.tla`
for each `M` of `WalletContractProofs`, `MessageFormatsProofs`, `MessageRelayProofs`,
`DeploymentProofs`, `DevicesProofs`, `WalletAppProofs`, `MigrationsProofs` and
`RelayerLifecycleProofs`.

## The system

A user's wallet is a smart contract that owns the funds. Its keys live on the user's devices. A
device does not send transactions: it signs a *message*, posts it to a *relayer*, and the relayer
pays for a transaction `executeSigned(message, signatures)` which the wallet contract checks,
executes and refunds.

| Component | State | Operations | Talks to |
|---|---|---|---|
| **KeyHolder / ERC1077** (`universal-login-contracts/contracts`) | `keys`, `keyCount`, `lastNonce`, `requiredSignatures`, event log | `addKey(s)`, `removeKey`, `setRequiredSignatures`, `executeSigned` | any contract it is told to call, which may call back |
| **WalletMaster, Proxy, factory, ENSRegistered** (same package) | `initialized`, master address, ENS records | `initialize*`, `createContract`, `registerENS` | ENS registry, registrar, resolver |
| **PendingMessages** (`universal-login-relayer/lib/core/services/messages`) | tables `messages`, `signature_key_pairs` | `add` (one per HTTP request), `getStatus` | database, wallet contract (reads), QueueService |
| **QueueService, MessageExecutor** (same package) | table `queue_items`, `state`, position of the loop | `add`, `execute`, `loop`, `start`, `stop`, `stopLater` | database, blockchain (sends, waits), MessageHandler callback |
| **AuthorisationService / Store** (same package) | table `authorisations` | `addRequest`, `getAuthorisationRequests`, `removeAuthorisationRequest` | database; MessageHandler removes requests when a key was added |
| **WalletService, WalletDeployer, ENSService** (same package) | none of their own | `create`, `deploy` | factory contract, ENS, balances |
| **Relayer, routes, migrations** (same package) | the process: server, database pool, schema | `start`, `stop`, `stopLater`, `migrate.latest` | all of the above |
| **ObserverRunner and observers** (`universal-login-sdk/lib/core/observers`) | `state`, pending timer, last block, last authorisations, callbacks | `start`, `stop`, `finalizeAndStop`, `subscribe`, `tick` | relayer API, blockchain logs, balances, code |
| **SDK execution** (`universal-login-sdk/lib/api`, `core/services`) | none | `execute` (picks the nonce), `waitToBeMined` (retry with timeout), `createFutureWallet` | relayer API, wallet contract (reads) |
| **Commons** (`universal-login-commons/lib`) | none (`debounce`: a timer) | hashing, signing and sorting signatures, suggestions, security codes, balances | - |
| **Wallet application** (`universal-login-wallet/src`) | wallet state None / Future / Deployed, page, modal, waiting callbacks | `createFutureWallet`, `connect`, `disconnect`, `setDeployed`, navigation | SDK |
| **React components** (`universal-login-react/src`) | selector, notifications, emoji form, top-up modal | clicks and typing | SDK |
| **Operations scripts** (`universal-login-ops`) | none; ENS records through their transactions | set up a domain, take a name, start a development relayer | ENS, factory, database |
| **Example application** (`universal-login-example`) | a demonstration of an earlier SDK | - | - |

### What is hard, and what makes each component correct

- **Contract.** A transaction is atomic but the contract makes a low-level call in the middle of
  `executeSigned`; the called contract may re-enter any function, the call may fail on its own,
  and the refund after it may revert everything. Correct means: a nonce is spent exactly once,
  nobody executes without `requiredSignatures` different owners, the key table and its counter
  agree, and committed history is only extended.
- **Relayer messages.** Node interleaves the HTTP requests and the queue loop at every `await`.
  Checks and the writes they protect are separate queries. The process may die between any two of
  them; the database and the blockchain do not. Correct means: what was queued is executed or
  refused, is never lost or queued twice, is not paid for over and over, and the states reported to
  the user are true.
- **Lifecycles** (queue loop, observers, process): a loop sleeps between iterations while `start`
  and `stop` change a shared state variable, a server listens before its queue runs, and a process
  finds the database as another release left it. Correct means: nothing accepted is lost, `stopLater`
  finishes the work and returns, a started relayer works off its queue, a subscriber hears what
  changed and only for the wallet it asked about.
- **Deployment**: client, relayer, contract, ENS and operator each see the chain at another moment.
  Correct means: whatever is deployed owns its name, a deployment settles, and the SDK's promises to
  the application are true.
- **New devices**: the request, its answer and its event travel different ways, each by polling.
  Correct means: a request is shown to its wallet's owner, recognisable, until it is answered; the
  device hears of it.
- **Application**: a callback continues minutes later, on another page or for another wallet state.
  Correct means: no funded key is forgotten, and no page is shown that has no wallet.

The hazards, each at its line and with the properties that cover it, are in `PROJECT.json`.

## Modules

| Module | Models | Role in the argument |
|---|---|---|
| `NonceLedger` | what a wallet promises: an append-only history of executed messages | abstract specification |
| `WalletContract` | KeyHolder and ERC1077, with a call stack for re-entrancy | refines `NonceLedger` |
| `WalletContractProofs` | - | type correctness, three safety properties, the refinement |
| `SignedMessages` | hashing, signing, sorting and encoding in SDK and relayer; hashing and recovery in the contract | algorithms, against `SignaturesValid` of `WalletContract` |
| `MessageFormats` | the forms of a message: defaults, strings, JSON, sanitizers, database row, decoded transaction | algorithms, against the hash of `SignedMessages` |
| `MessageFormatsProofs` | - | both algorithms fit, for every state of `WalletContract` |
| `DurableQueue` | what the relayer promises about the messages it has queued | abstract specification |
| `MessageRelay` | PendingMessages, MessageSQLRepository, QueueService, QueueSQLStore, MessageExecutor, MessageHandler's callback, crashes; the wallet as the relayer meets it | refines `DurableQueue` |
| `MessageRelayProofs` | - | type correctness, safety, the refinement |
| `Migrations` | the eight migrations up and down, the columns the queries need | algorithms used by `RelayerLifecycle` |
| `MigrationsProofs` | - | what each migration leaves, the last one serves |
| `RelayerLifecycle` | the relayer process: startDevelopment, start, stop, stopLater, the loop, rollbacks | composes `Migrations` with the queue |
| `RelayerLifecycleProofs` | - | type correctness and safety, on top of `MigrationsProofs` |
| `FutureWallets` | what the SDK promises of future wallets and names | abstract specification |
| `Deployment` | factory, proxy, ENS registration, WalletService, ENSService, token hook, FutureWalletFactory and its observers, sdk.create, ENS scripts | refines `FutureWallets` |
| `DeploymentProofs` | - | type correctness, safety, the refinement |
| `Suggestions` | SuggestionsService | algorithms used by `WalletApp` |
| `WalletApp` | pages, modal, WalletService, ConnectToWallet, the selector, callbacks | built on `FutureWallets` and `Suggestions` |
| `WalletAppProofs` | - | type correctness, safety, both sides of `FutureWallets` |
| `SecurityCodes` | security codes, shuffle, the emoji form | algorithms used by `Devices` |
| `Devices` | AuthorisationService and store, AuthorisationsObserver, BlockchainObserver, confirming and denying | composes both sides of a connection |
| `DevicesProofs` | - | type correctness, safety, what the loops over codes compute |
| `MC...` | instances for TLC | - |

Some modules hold definitions marked "Variant": the same operation with one plausible mistake
(a dropped guard, a missing wait). They are not part of any specification; each shows that some
property would notice that mistake.

### WalletContract

`wallet` is the contract's storage plus the `ExecutedSigned` events that still stand. `frame` is
the stack of `executeSigned` calls in progress; each remembers the storage it started from.

- `BeginExecute` is `executeSigned` up to the low-level call (ERC1077.sol:117-126): length,
  nonce and signature checks, then `lastNonce++`. It pushes a frame.
- While a frame that calls another contract is on top, that contract runs: `DirectCall` (its calls
  of `addKey`, `removeKey`, ...) or a nested `BeginExecute`.
- `FinishCall` / `FinishSelfCall` return from the call, successfully or not, emit the event and
  pop. A failed call undoes what was done inside it but not the nonce. A message addressed to the
  wallet itself runs the key-management function with the wallet as `msg.sender`.
- `RevertExecute` is any revert of `executeSigned` itself (out of gas, refund impossible,
  ERC1077.sol:130): the frame's starting storage is restored.

Signatures are the addresses `ecrecover` returns, 0 when it fails. Addresses are numbers, since
`areSignaturesValid` compares them. Message payloads are the members of `Ops`. Gas and amounts are
abstracted to "may fail". ENS, ERC721 and ERC1271 functions change none of this state.

### MessageRelay

`message`, `sigs` and `queue` are the three tables. `req[r]` is one HTTP request: `pc` names the
await at which it stands. `loop` is the same for `QueueService.loop`, with the local variables
still needed. `owners`, `required`, `executed` and `txs` are the chain. `settled` is a history
variable: messages marked Success or Error since they were last queued.

One action is the code from the return of one query (or blockchain call) to the issue of the next,
with that query's effect. So `PendingMessages.add` is `IsPresent`, `InsertMessage`, `CheckUnsent`,
`ContainSignature`, `EnsureCorrectKeyPurpose`, `AddSignature`, `IsEnough`, `EnsureUnsent`,
`EnsureEnough`, `Enqueue`, `SetQueued`; a primary-key violation or a failed `ensure` ends the
request as `failed`, and `RequestFails` lets any query or call reject. `getStatus` reads the stored
signatures and then the threshold on chain, so `IsEnough` and `EnsureEnough` are two steps each
(`ReadRows`, then the comparison). `QueueService.execute` is
`SetPending`, `GetMessage`, `Validate`, `SendTransaction` / `SendFails`, `WaitForTransaction`,
`OnTransactionSent`, `MarkAsSuccess`; `ExecuteFails` is the `catch`, followed by `MarkAsError`; both
end in `Remove`. A failing query outside the `try` rejects the loop, and `onCritical` exits the
process: that is `Crash`. `Restart` is `Relayer.start`.

The environment: `Mine` mines the relayer's transactions in account-nonce order, each executing
only if `executeSigned` would accept it (`Executable`) and possibly reverting anyway;
`ChangeWallet` is another device changing keys or threshold; a node may broadcast a transaction and
still answer with an error (`SendFails`). Reads with no effect on the outcome (the status returned
to the caller) and the ordering of equal `created_at` values are left out. Several wallets do not
interact in this code, so the messages are those of one wallet. Messages executed by a different
relayer are not modelled.

`DurableQueue` is what is left when requests, loop and crash are taken away: items in the order they
came (`waiting <- queue`), the outcomes recorded since (`recorded <- settled`), and what the wallet
executed. An insertion is `Post`, `markAsSuccess` and `markAsError` are `Record`, the deletion is
`Leave`, a mined transaction is `Execute`; every other step is invisible, a crash among them.

### SignedMessages and MessageFormats

Extends `WalletContract`. `CreateSignedMessage` is what the SDK signs, `Collected` what the relayer
stores as signatures come in, `Sorted` and `CollectedSignatures` what it joins, `Encoded` the
arguments of `executeSigned` by position, `ContractHash` and `Signers` what the contract makes of
them. keccak256 is taken as injective: a hash is the tuple it hashes. Each field has two values, so
that a field left out of a hash, or two exchanged by position, makes two messages equal.

`MessageFormats` extends it with what holds a field on its way: a JavaScript number, a string, a
BigNumber, an object (a BigNumber as JSON), or nothing. `FromRequest` is `SdkSigner`, `Completed`
is `sdk.execute` with its defaults, `Stringified` and `Posted` what leaves the SDK, `Sanitizes` what
the relayer's sanitizers let in, `Bignumberified` and `Restored` the row and back, `Decoded`
what `onTransactionSent` reads. An `undefined` field hides a default, since objects are spread; 0
is not truthy, so that it stays as it is where other numbers become strings. The recipient of
`emptyMessage` is the empty string, which no side can hash: a request of a signer that does not say
whom to call is never signed.

`Decoded` takes the nonce and the operation type through `ParseInt16`, as `serialisation.ts:29-33` does:
`parseInt(n, 16)` of a BigNumber, which prints decimal digits. A nonce of 10 is read as 16, and every
nonce from 10 on is read as a larger one. `SignedAsSent` says so; the relayer gets away with
it, because `onTransactionSent` (`MessageHandler.ts:42-53`) uses only `to` and `data` of what it has
decoded.

### Deployment and FutureWallets

A key stands for the wallet whose address is computed from it. `wallet`, `ens`, `domain`, `balance`,
`tx` are the chain; `request[k]` the relayer at an await of `WalletService.deploy` or `create`;
`client[k]` the SDK at an await of `FutureWalletFactory` or `create`. `Mine` is one transaction:
`CreateContract` or `CreateProxy` with initialisation, registration and refund, or a revert that
changes nothing. Reading a domain takes two queries on both sides (`StartENS`, `ReadResolver`,
`ReadOwnerAndPost`), while `SetUpDomain` goes through the states DomainRegistrar's transactions
leave; `OperatorTakesName` does the same for a name. `GrantTokens` is the hook `created`; the hooks
`added` and `keysAdded` pay a wallet that exists already and are left out. Amounts are
multiples of `minimalAmount`; an option of the gas price multiplies the refund. A client ends in one of
three ways short of its wallet: its promise rejects or its page is closed (`Lose`), or a tick of
its BalanceObserver or DeploymentObserver rejects (`ObserverDies`): nothing schedules the next tick and
nobody tells the promise that waits, which stays open for ever (`"hanging"`).

`FutureWallets` is what applications rely on: `waitForBalance` resolves when funded, `deploy(name)`
only when the name is the wallet's, names never change hands, any promise may be lost, and an
application that ends loses all of them (`Forget`). `Deployment`
implements it (`FutureWalletsPromised`, with a refinement mapping of client and ENS), and `WalletApp`
is built on it instead of on the chain.

### Devices and SecurityCodes

`page`, `running`, `loops`, `last` are the owner's AuthorisationsObserver: every `start` begins a
loop, each loop sleeps, asks or has an answer on its way, and `last` is what the page shows. `rows`
is the relayer's table, `execution` the `addKey` messages (as `MessageRelay` would treat them:
mined, failed, or mined and the relayer gone before the callback, which `unhandled` remembers).
`Confirm` and `Deny` are clicks. A denial then travels (`denials`): the request is posted, the relayer
awaits the check of its signature and deletes the row (`RemoveDenied`), whatever page is open by
then, or it is lost (`DenialFails`). `answered` is a history variable: what the owner has confirmed or
denied on the page of its wallet.
`added` tells whether a key's event is in the last block or an older one, which is all that
BlockchainObserver can tell with `lastBlock`. `misled` is a history variable: an answer for one
wallet has arrived on the page of another. `GetPending` and `RemoveDenied` check the signature by
`Authorised`. `KeyFromData` models `stripZeros`, which shortens an address that begins with a zero
byte (`ZeroLed`). Both ways a loop dies (a rejected query) are actions.

`SecurityCodes` takes digests as given constants and has the loops of `shuffle` and of the form as
functions of the number of turns. `Shuffle` is checked for every choice
Math.random can make; the form for every one slip of the owner.

### RelayerLifecycle and Migrations

`Migrations` has a schema as a set of tables of required and optional columns, `Up` and `Down` for
each migration, and `Serves`: every query of the code finds its columns, no insert omits a required
one. `RelayerLifecycle` has one process at a time: `start` names the await of `Relayer.start` (or of
`startDevelopment` before it), `state` and `loop` are QueueService, `stop` the call of `stop` or
`stopLater`. `Listen` comes before `StartQueue`, so a relayer accepts messages before it executes
any; `StartFails` leaves such a server behind. `Destroy` takes the database pool, after which a query
of the loop ends the process (`CriticalExit`). `Rollback` runs between processes and drops what the
`down` migrations drop. `Collect` is the request that makes the row of a message; `Accept` and `SetQueued`
are the two awaits of `QueueService.add`: the item first, the state `Queued` later, whatever the loop has
done in between, and also after the server was closed. `process.adding` holds the messages between the
two, `overtaken` is a history variable: messages that the second write has set back to Queued after the
loop had marked them (finding 2). The rest of a request is left to `MessageRelay`; the
chain is reduced to `Send`'s outcome.

### WalletApp and Suggestions

`page`, `from`, `modal` are the router, the login page's destination and the modal of the page;
`service` is WalletService; `flow[k]` and `attempt[a]` are the callbacks `onCreateClick` and
`onConnectionClick` at their awaits. `Go` is navigation with PrivateRoute's redirection and what is
unmounted with a page. A modal hides links and buttons (`Unobstructed`), not the browser's Back
button (`GoBack`) nor a callback. `Load` is a reload or a typed address: everything but the
chain is forgotten. Where React throws (the approval page of nobody, a credit card chosen
in TopUp) the page is `crashed`. `Suggestions` has a text as what SuggestionsService tells apart
in it.

## Runs

| Run | Result | What it asks |
|---|---|---|
| `wallet` | holds, 20 thousand states | `NoncesSpentOnce`, `QuorumOfOwners`, `KeysConsistent`, the refinement `LedgerSpec`, `CollectedSignaturesAccepted`, `SignedAsSent`, under re-entrancy, failing calls and reverts |
| `wallet_lock` | violated | may the threshold exceed the number of keys? |
| `relay` | holds, 925 thousand states | `QueuedSurvives`, `PendingIsQueued`, `SentOncePerSignature`, `HashMeansReceipt`, the refinement `QueueIsDurable` under every interleaving with one crash and one change of the wallet |
| `relay_live` | holds, 105 thousand states | `QueueDrains`: whatever is queued leaves the queue |
| `relay_states` | violated | do message states follow the documented diagram? |
| `relay_success` | violated | does Success mean executed? |
| `relay_duplicate` | violated | is a signature stored once? |
| `relay_stuck` | violated | is a message with enough signatures always queued? |
| `deployment` | holds, 250 thousand states | `DeployedMeansNamed`, `GrantsReachWallets`, the refinement `FutureWalletsPromised`, `DeploySettles` |
| `devices` | holds, 337 thousand states | `KeysWhereAsked`, `RequestsStayUnanswered`, `RequestsShown`, `ConnectionSeen`, `ConfirmedRequestsLeave`, `CodeCanBeEntered` |
| `lifecycle` | holds, 218 thousand states | `ServesMigrated`, `AcceptedSurvives`, `SentWithMessage`, `StopLaterFinishesWork`, `StopLaterReturns`, `StartedWorks` |
| `wallet_app` | holds, 663 thousand states | `PrivatePagesHaveWallet`, `FundedKeyKept`, `CreatedWalletOwnsName`, `ConnectionsExist`, `CreationCompletes` |

Each run also checks a type invariant. Some properties are as weak as the code makes them, and say
where it falls short:

- `SignedAsSent` has the nonce found again in the transaction exactly below 10.
- `SentOncePerSignature` is the most the code grants: concurrent requests that both find the message
  unsent cost one transaction each, a crash between broadcast and record one more.
- `DeploySettles`: a wallet funded with a token passes `findTokenWithRequiredBalance`, but
  `initializeWithRefund` refunds in ether. The transaction reverts after the client was answered, and
  its `deploy` never settles. The same happens to the slower of two deployments of one name, and to a
  client whose observer has died of one failing query.
- `RequestsStayUnanswered` is about requests until their owner has seen and answered them on the page
  of their wallet; a denial is carried out later, and one that fails leaves an answered request in the table.
- `AcceptedSurvives` excepts a message whose late `Queued` comes after the loop has finished it
  (`overtaken`): the row says Queued and there is no item.
- `ConnectionsExist` does not depend on the order in which suggestions are answered, which debouncing does
  not guarantee: names never become free, so a connection offered by an earlier answer still exists.
- `KeysWhereAsked`: an answer still under way when the owner changes wallets (`misled`) is shown on
  the page of the other wallet, and confirming it there adds a key the device never asked for.
- `RequestsShown` speaks of a page one of whose loops is alive: a rejected query ends a loop and
  leaves the runner running, so that nothing restarts it.
- `ConnectionSeen` excepts an event that is two blocks old when the observer reads the block number,
  or that comes before the subscription: BlockchainObserver skips it.
- `ConfirmedRequestsLeave` excepts keys whose address begins with a zero byte
  (`relayer/lib/core/utils/utils.ts:20`) and callbacks a crash has prevented.
- `StopLaterReturns` assumes that the loop runs: called while the relayer still starts, `stopLater`
  waits for a state that nobody sets. It also rests on the arrivals being finite, as `Messages` is: the
  server accepts messages while `stopLater` waits, and an endless stream of them would keep the
  queue from ever being found empty.
- `StartedWorks` is about a relayer that has started: when ENS cannot be read, the server listens
  and no loop executes what it accepts.
- `CreationCompletes` excepts a reload: the key of a wallet being created is only in memory.

**Bounds.** `wallet`: two accounts and one contract are the fewest with which a quorum of two, a
duplicated signer, a non-owner and a re-entering contract all occur; two nonces and depth two give
a nested execution that outlives or undoes its caller; the nonces an application passes (`Numbers`) are
0, which counts as none, and 9 and 10, between which `parseInt` goes wrong. `relay`: two requests are the fewest for
each race; two messages put one behind the other in the queue; two keys and thresholds 1 and 2
give single- and multi-signature messages, extra signatures while queued, and re-queueing after an
error; one crash suffices to be anywhere, including between broadcast and recording, and the
second execution after it is crash-free or not. The theorems hold without these bounds.
`deployment`: two clients are the fewest that compete, one name makes them; the domain starts one
transaction short of complete, so that the relayer, each client and the transaction may see
different states of it; a wallet holds at most one unit of ether and may hold the token
instead or as well; one restart may come anywhere. `devices`: two wallets of one owner and two
openings of the page give overlapping loops and late answers; one device waits for its event, the
request of another was left behind. One key may be confirmed and another has a zero-led address; the
owner answers one request (`MaxAnswers`), so that its denial or confirmation is on its way while
pages close and open, and the other request must stay. A code has two emojis
instead of six: repeated ones and ones shared with the fakes occur, and every order of the four is
tried. `lifecycle`: databases at versions 0, 1 and 6 (nothing; the first migration as it was before
its file was changed; the last version that kept `finalMessages`), as many rollbacks as there are migrations, two
processes, so that one finds what the other left; two messages queue behind each other and behind
an item of the earlier release. `wallet_app`: two creations (a double click), one connection, one
reload, one name and one text in a domain nobody serves; going back is bounded to two pages that
differ in what they need.
Deadlock is not checked because the systems may stop: requests are finite, the queue runs empty,
the contract's nonces are bounded, people may stop clicking.

**Fairness.** `relay_live`, `relay_stuck`: weak fairness of each request's next step and of the
loop, since Node runs callbacks whose promise has settled, and queries settle; of mining, since
broadcast transactions are mined eventually, successfully or not; of `Restart`, since `onCritical`
exits so that the supervisor restarts the process. For `QueueDrains` crashes are bounded.
`deployment`, `devices`, `lifecycle`, `wallet_app`: weak fairness of timers, of answers to queries
and of mining (`RelayerProgress`, `Mine`, `Polls`; `ObserverSteps`, `DeviceSteps`; `LoopStep`,
`StopStep`; `Flows`, `ObserverSees`). Nowhere is anything assumed of people, operators, failing
queries, crashes or the start of a process.

### Findings

1. `removeKey` (KeyHolder.sol:74-84) ignores `requiredSignatures`. With threshold 2 and two keys,
   removing one leaves a wallet whose messages can never collect enough signatures, the state
   `setRequiredSignatures` refuses with "Signatures exceed owned keys number".
2. `QueueService.add` (QueueService.ts:23-27) makes an item visible to the loop before it marks the
   message Queued. The message goes from AwaitSignature to Pending, and the late update sets a
   Pending, successful or failed message back to Queued.
3. `MessageExecutor.executeAndWait` (MessageExecutor.ts:16) ignores the receipt's status: a
   reverted transaction is reported as Success.
4. `addSignatureToPendingMessage` (PendingMessages.ts:43-50) lets two concurrent posts of one
   signature both pass. Both rows count towards the threshold, while the contract refuses equal
   signers.
5. A request that ends between `addSignature` and `queueService.add` (PendingMessages.ts:29-33)
   leaves a message that has all its signatures and that no later request or restart queues.

## Proofs

TLAPS checks every statement below for all values of the constants that satisfy the named
assumptions of the modules, i.e. without the bounds of the runs (they are parameters). Every safety
property that a passing run checks is a theorem, and so is every refinement. Each proof has the same
shape: an inductive invariant `IInv`, one lemma for each action or for each group of actions that disturb
the same conjuncts, and temporal theorems that combine them. TLC has checked the inductive
invariants on the runs' instances first.

### WalletContractProofs

`TypeCorrect`, `NonceSafety`, `KeySafety`, `QuorumSafety`, `WalletImplementsLedger`. None of the
invariants is inductive alone, because `RevertExecute` jumps back to a storage saved earlier. `IInv`
therefore says of *every* storage on the stack what it says of the current one: with
`Open(d)` the nonces of the frames below depth `d`, the events of the storage saved at depth `d`
and `Open(d)` partition the nonces below its `lastNonce`. Popping a frame, whether it commits or
reverts, then restores the statement of the frame below. `QuorumSafety` rests on a lemma that a
strictly ascending list of signers has as many members as elements, proved from the well-foundedness
of the naturals since induction schemata are not available to the provers.

The refinement of `NonceLedger` needs to know what a transaction has done so far, not only where it
stands. `HistoryInv` adds that each storage is `Balanced` (as many events as spent nonces, less the
calls still open) and that each `Continues` the one at the start of the transaction: the older events
are where they were, and the later ones have later nonces. So the ledger a transaction commits has the
older ledger as a prefix (`LedgerKept`), and a revert of the outermost call is a stutter.

### MessageFormatsProofs

`SignaturesAccepted`: whatever owners sign, in whatever order the relayer collects it, the contract
accepts exactly the intact lists of different owners. The hash of the SDK and that of the contract
are injective and one function of the message (`Keccak` is a tuple). The relayer's sort is the
permutation that puts each pair at its rank, the number of pairs before it; ranks are pairwise
different, hence every place from 1 to the length is taken (an injection of a finite set into itself
is onto), and the keys ascend along them. Equal keys give equal neighbours, which the contract refuses.

`SentAsSigned`: for any lastNonce the wallet has reached and any set `Numbers` of nonces, every mixture of
kinds an application may pass (each amount is 0 or 1: of amounts, the code tells apart only zero) comes
out of `Stringified`, `Posted`, `Bignumberified` and `Restored` with its numbers, in kinds the
sanitizers accept (`SignableKept`). Of the transaction, `DecodedFacts` has every field found again, and
the nonce if and only if it is below 10: `ParseFacts` shows that `parseInt(n, 16)` of n's decimal digits
is n below 10 and more than n from there on. `SignedAsSent` needs an
invariant of `WalletContract` besides, `NonceBounded`.

### MessageRelayProofs

`TypeCorrect`, `QueueSafety`, `HashSafety`, `RelayImplementsQueue`, `PromiseSuffices`, `SendsBounded`.
Five layers, each inductive given the ones before: types; the
queue (`QueueInv`: no message has two items, and when the loop is about to remove an item its outcome
is recorded, without which removal could lose a message); the chain (`ChainInv`, strengthened by
"the transaction waited for carries the message in hand and, once the wait is over, has a receipt");
the order (`OrderInv`); the count of what is sent (`BudgetInv`). `QueueFrame`, `ChainFrame`,
`OrderFrame` and `BudgetFrame` dispose of the steps that touch
nothing of a layer. `WithoutKeeps` and `WithoutHead` say what a removal does to a sequence.

The fourth layer is what the refinement of `DurableQueue` needs and no safety property does. The
loop deletes by hash, so that a deletion is `Leave` only if the item in hand is the oldest; it stays so
because requests only append (`LoopTakesOldest`). A transaction may be mined after the
relayer that sent it has ended, so that it is `Execute` only if whatever was ever sent is still queued or has
had an outcome since (`SentWereQueued`). `PromiseSuffices` goes the other way: it derives
from `QueueIsDurable` alone that a message waits and executes at most once, so that the abstract
specification says enough to be built on.

The fifth layer is for `SendsBounded`. What a message has cost and may still cost is its transactions,
the requests that have stored a signature and are on their way to queue it, and one more if
it is queued or in hand and not yet sent (`Spent`). `WithinBudget`: that is never more than its
stored signatures and the crashes so far. A signature's row adds one to both sides, queueing
turns a request into an item, sending turns the item into a transaction; only a crash after a
broadcast makes a sent item unsent again. `RowsAdded` says why the first step is sound: the row a
request inserts is new.

### DeploymentProofs

`TypesHold`, `AlwaysNamed`, `GrantsReach`, `DeploymentImplementsPromises`. The
name on chain must be traced back to what the client was asked: `AskedOnce` (a client posts one
request, after it has put its arguments together, and they agree on the name), `ProxyAsCreated` (a
request goes through the proxy exactly for `sdk.create`), `SentAtTheEnd` (a transaction is
broadcast at the end of a request, and only a mined one deploys), and `NamedMeansDeployed`,
the converse of `DeployedMeansNamed`: without it another deployment could take a name over.

For the refinement, `FutureStateOf` and `OwnerOf` map client and ENS to the states of
`FutureWallets`. Each action is a stutter (the chain's set-up, the relayer's reads, what
`sdk.create` does), a step of one promise (`AdvancePromise`), a promise lost (`LosePromise`, the
client's queries may fail), or a name taken by a wallet or by the operator (`OperatorStep`). That
`Observe` maps to a promise kept uses `DeployedMeansNamed` and that the args of client and request
have one name.

### WalletAppProofs

`TypesHold`, `PagesHaveWallet`, `KeysKept`, `NamesOwned`, `ConnectionsReachWallets`, `CallbacksFollow`,
`AppKeepsToPromises`, `PromisesSuffice`. Three places know of
a creation: the callback, the service and the promise of `FutureWallets`. `IInv` relates
them: a callback that deploys waits for a promise of the name that was clicked (`DeployingAskedFor`), and a
promise kept is for ever true (`DeployedOwns`); so `setDeployed`, however late, is for the wallet
that owns the name. Here the abstract specification is what the proof uses of deployments, and the
theorem of `DeploymentProofs` is why it may. `SuggestionsOffered` is the lemma about SuggestionsService:
of any text, it offers connections to existing names only.

The interface itself is proved from both sides. `AppKeepsToPromises`: every step of the application,
a reload included, is a step of `FutureWallets`, which `DeploymentImplementsPromises` shows of SDK,
relayer and chain. Since `WalletApp` conjoins the actions of `FutureWallets`, their guards could make an
impossible request disappear instead of showing it; `CallbacksFollow` rules that out: whenever
`onCreateClick` is about to ask for something, its promise is in the state the request needs,
and a callback that is over has left no promise waiting. `PromisesSuffice`: `FutureWallets`
alone implies that a settled `deploy` owns its name and that names do not change hands.

### DevicesProofs

`TypesHold`, `KeysAddedWhereAsked`, `ConfirmedLeave`, `RequestsStay`, `CodesEntered`,
`ShufflePermutes`, `EveryCodeRecognisable`. `IInv` follows a key from the
device that asks with it: in the relayer's table (`RowsAsked`), in each answer on its way
(`AnswersAsked`, for the wallet that was asked about, not for the page that is open), on the page
(`PageAsked`, unless `misled`), in a confirmation and on chain (`ConfirmedAsked`). `AddedIsMined`
says which requests of added keys may still be in the table: the ones whose transaction the relayer
has yet to see. `RequestsStay` rests on `AnsweredFirst`: what may delete a row, a transaction or a denial on
its way, exists only for a request that was answered before, and a row that comes later has a key
that nobody had seen (`Known`).

`CodesEntered` is about loops, and the prover has no induction schema for them. It does have the
principle for sets of numbers (`InductionUpTo`, from well-foundedness), which gives a function that
makes the turns of a bounded loop one by one (`LoopRuns`); each recursive function of `SecurityCodes` is
then such a run. A turn of `shuffle` swaps two places and so leads from one order of
the panel to another (`SwappedOrders`), for any numbers `Math.random` returns: `ShufflePermutes`. Hence
every emoji of the code is on every panel, the clicks put the code's first `n` emojis into the form after
`n` clicks (`EntersCode`), and a slip that is removed, or comes after the last, changes nothing
(`SlipRemoved`): `EveryCodeRecognisable`, for digests and codes of any length.

### MigrationsProofs and RelayerLifecycleProofs

`UpLeaves`, `DownLeaves`, `LatestServes`: `SchemaAt(n, s)` says which tables with which column names
there are at version `n`, and that the columns no insert fills are optional. Each migration leads
from one to the next and back. It is a relation, not a schema: going down and up again leaves columns optional
that were required, and the theorem is that this does not matter.

`TypesHold`, `ListensMigrated`, `AcceptedStays`, `LoopEndsFirst`, `SentWithContent`: the database fits its
version throughout (`SchemaFits`), and the server only listens on the last one
(`ServerMigrated`). `StartInOrder` and `StoppedForGood` say what the awaits of `start` and `stopLater` leave
behind; `QueuedInQueueTables` that nothing counts as accepted before there are queue tables, so
that a migration or a rollback loses nothing accepted; `HeldInQueue` that the loop's item is in the
table until its message is marked and has its content when it is sent; `AddingKnown` that a request
between the two writes of `add` has its item in the queue, unless the loop has overtaken it.

### Assumptions

They say that values which are of different kinds in the code are different values here, and no more:

- `AddressAssumption`, `OpsAssumption`, `BoundAssumption` (`WalletContract`), `ParameterAssumption`
  (`MessageRelay`): address zero belongs to nobody; accounts, contracts and the wallet differ; there are
  finitely many accounts, keys and requests; a threshold is positive, since `setRequiredSignatures` and
  the constructor refuse others.
- `DeploymentAssumption`: keys are none of the words "nobody", "operator", "free", "other" that stand for an
  owner who is no key; an absent name (`<< >>`) is no name; the minimal amount (1) is among the costs.
- `DevicesAssumption`: "no wallet" and "no key" are neither; the requests left behind have keys of
  their own, since every device generates its key when it asks.
- `AppAssumption`: the keys of creations differ from those of connections, as each is generated when it
  is clicked; an absent key or name is none.
- `LifecycleAssumption`: hashes of messages of an older release are finitely many and differ from the new
  ones, since a hash covers the nonce; null is no hash.
- `NumbersAssumption` (`MessageFormats`): the nonces an application may pass are natural numbers.
- `DigestsAssumption` (`SecurityCodes`): a code has at least one emoji; a digest is bytes, two for each emoji.

### Model-checked only

- Liveness: `QueueDrains`, `RequestsShown`, `ConnectionSeen`, `StopLaterReturns`, `StartedWorks`,
  `CreationCompletes`, `DeploySettles`: fairness is a statement about ENABLED.
- The five disagreements with the documentation: a counterexample is what TLC finds.

### What to prove next

What the listed theorems leave open and a prover with ENABLED could close: that the fair steps are
enabled where the liveness properties need them. `OrderInv` and `CallbacksFollowPromises` are the
safety halves of two of these arguments (the item that is handled is the one that leaves; a promise that
settles has a callback that continues). Of the algorithms, `Suggestions` is proved as far as `WalletApp`
relies on it (connections to existing names), not against a reference definition.

## Not modelled

- **Example application**: written against an earlier SDK (it takes what `connect` returns for a
  private key and passes `denyRequest` its arguments in another order); its components repeat the
  wallet application's.
- **Presentation**: React components without state of their own, `iconDictionary` (a table of
  pictures), styles, stories of modals; the backup codes screen, a mock.
- **HTTP layer**: routing, status codes, the classes of errors, and the sanitizers but for those of
  `POST /wallet/execution` (`MessageFormats`): a request of a model is one that has passed them.
- **Two QueueService or ObserverRunner loops by calls that nobody makes**: `start` during `stopping`,
  `finalizeAndStop` on a stopped runner, a second `start` of BalanceService. Only tests call these.
- **SDK execution's polling** (`retry`, `waitToBeMined`): it reads what `MessageRelay` models and
  changes nothing.
- **Gas and token arithmetic**, formats of strings and numbers, RelayerUnderTest, mocks and scripts
  of a single transaction.
