------------------------------- MODULE Devices -------------------------------
(***************************************************************************)
(* Connecting new devices.  A new device makes a key and asks a wallet to  *)
(* add it; the relayer keeps the request; the owner's application polls    *)
(* the requests of its wallet (AuthorisationsObserver) and shows them; the *)
(* owner confirms one, which executes addKey on the wallet, or denies it;  *)
(* the new device polls the chain for its KeyAdded event                   *)
(* (BlockchainObserver).                                                   *)
(*                                                                         *)
(* A device makes a key for each request, so a key also stands for the     *)
(* device that asked with it.  The owner's application is one tab with one *)
(* AuthorisationsObserver for all its subscriptions; it is signed in to    *)
(* one wallet at a time, maybe with a key that is itself still asking.     *)
(***************************************************************************)
EXTENDS SecurityCodes

CONSTANTS
  Wallets,
  ZeroLed,      \* the keys whose address begins with a zero byte
  OwnWallets,   \* the wallets that have the key the application uses for them
  Requests,     \* bound: the requests that new devices may make
  Unattended,   \* requests made before, of devices that no longer wait; those of
                \* zero-led keys have been confirmed
  Confirmable,  \* bound: the keys that the owner may confirm
  MaxAnswers,   \* bound: the requests that the owner may confirm or deny
  MaxOpens      \* bound: how often the notifications page is opened

Row == [wallet : Wallets, key : Keys]

NoWallet == "none"
NoKey == "no address"

\* Keys are not used again: no new device has the key of an unattended request.
ASSUME DevicesAssumption ==
  /\ ZeroLed \subseteq Keys /\ OwnWallets \subseteq Wallets
  /\ NoWallet \notin Wallets /\ NoKey \notin Keys
  /\ Requests \subseteq Row /\ Unattended \subseteq Row
  /\ \A r \in Requests, u \in Unattended : r.key # u.key
  /\ MaxOpens \in Nat

VARIABLES
  page,         \* the wallet whose notifications page is open
  running,      \* ObserverRunner.state of the AuthorisationsObserver
  loops,        \* the loops that its calls of start began, oldest first
  last,         \* its lastAuthorisations: keys
  misled,       \* an answer for one wallet arrived on the page of another
  denials,      \* the denials on their way to the relayer's table
  rows,         \* the relayer's table of authorisations
  execution,    \* addKey of a key on a wallet, as the relayer executes it
  unhandled,    \* requests whose addKey was mined, but onTransactionSent never ran
  added,        \* on chain: whether a KeyAdded is in the last block or an older one
  device,       \* each new device: its request and its BlockchainObserver
  answered      \* history: the requests that the owner has confirmed or denied
                \* on the page of their wallet

owner == <<page, running, loops, last, misled>>
relayer == <<denials, rows, execution, unhandled>>
vars == <<owner, relayer, added, device, answered>>

\* A loop sleeps, asks, or has the answer on its way: the keys, or an error.
Loop ==
  [pc : {"none", "timer", "asked", "answered", "over"}, wallet : Wallets \cup {NoWallet},
   keys : SUBSET Keys, error : BOOLEAN]
NoLoop == [pc |-> "none", wallet |-> NoWallet, keys |-> {}, error |-> FALSE]
Asked(w) == [pc |-> "asked", wallet |-> w, keys |-> {}, error |-> FALSE]
Rejected == [NoLoop EXCEPT !.pc = "answered", !.error = TRUE]
LoopIds == 1..MaxOpens

\* The observer of a device reads the logs since its lastBlock, then the number
\* of the last block; it has passed an event older than its lastBlock.
Device ==
  [pc : {"new", "posted", "subscribed", "connected", "gone"}, wallet : Wallets \cup {NoWallet},
   logsRead : BOOLEAN, passed : BOOLEAN]

DevicesTypeOK ==
  /\ page \in Wallets \cup {NoWallet} /\ running = (page # NoWallet)
  /\ loops \in [LoopIds -> Loop]
  /\ \A i \in LoopIds :
       loops[i].pc \in {"asked", "answered"} /\ ~loops[i].error => loops[i].wallet \in Wallets
  /\ last \subseteq Keys /\ misled \in BOOLEAN
  /\ rows \subseteq Row /\ denials \subseteq Row /\ answered \subseteq Row
  /\ execution \in [Row -> {"none", "queued", "mined"}] /\ unhandled \subseteq rows
  /\ added \in [Row -> {"no", "last", "older"}]
  /\ device \in [Keys -> Device]

DevicesInit ==
  /\ page = NoWallet
  /\ running = FALSE /\ loops = [i \in LoopIds |-> NoLoop] /\ last = {} /\ misled = FALSE
  /\ rows = Unattended /\ denials = {} /\ answered = {}
  /\ execution = [r \in Row |-> "none"] /\ unhandled = {}
  /\ added = [r \in Row |-> IF r \in Unattended /\ r.key \in ZeroLed THEN "older" ELSE "no"]
  /\ device = [k \in Keys |->
       [pc |-> "new", wallet |-> NoWallet, logsRead |-> FALSE, passed |-> FALSE]]

\* isValidSignature of the wallet: the application's key is one of its keys.
Authorised(w) == w \in OwnWallets

HasKey(r) == r \in Row /\ added[r] # "no"
Asks(r) == device[r.key].wallet = r.wallet \/ r \in Unattended

-----------------------------------------------------------------------------
(***************************************************************************)
(* The owner's application: the notifications page, the observer.          *)
(***************************************************************************)
\* What the page shows: every callback hears lastAuthorisations when it
\* subscribes and whenever it changes.
Shown == IF page = NoWallet THEN {} ELSE last

Opened == {i \in LoopIds : loops[i] # NoLoop}
NewLoop == CHOOSE i \in LoopIds \ Opened : \A j \in LoopIds \ Opened : i <= j

\* The page of the wallet the application is signed in to: it may have signed
\* out of another since the last page.  subscribe's start finds the state
\* stopped and begins a loop, whatever loops of earlier subscriptions still
\* sleep or wait for an answer.
OpenPage(w) ==
  /\ page = NoWallet /\ Opened # LoopIds
  /\ page' = w /\ running' = TRUE
  /\ loops' = [loops EXCEPT ![NewLoop] = Asked(w)]
  /\ UNCHANGED <<last, misled, relayer, added, device, answered>>

\* Variant: unsubscribe keeps lastAuthorisations.
ClosePageKeepingList ==
  /\ page # NoWallet
  /\ page' = NoWallet /\ running' = FALSE
  /\ UNCHANGED <<loops, last, misled, relayer, added, device, answered>>

\* unsubscribe of the last callback.
ClosePage ==
  /\ page # NoWallet
  /\ page' = NoWallet /\ running' = FALSE /\ last' = {}
  /\ UNCHANGED <<loops, misled, relayer, added, device, answered>>

\* Variant: loop does not look at the state.
LoopAgainAnyway(i) ==
  /\ loops[i].pc = "timer"
  /\ loops' = [loops EXCEPT ![i] = Asked(page)]
  /\ UNCHANGED <<page, running, last, misled, relayer, added, device, answered>>

\* loop: over when the runner has stopped, else a tick for the present wallet.
LoopAgain(i) ==
  /\ loops[i].pc = "timer"
  /\ loops' = [loops EXCEPT ![i] = IF running THEN Asked(page) ELSE [NoLoop EXCEPT !.pc = "over"]]
  /\ UNCHANGED <<page, running, last, misled, relayer, added, device, answered>>

\* The relayer checks the signature (UnauthorisedAddress), then selects.
GetPending(i) ==
  LET w == loops[i].wallet
  IN /\ loops[i].pc = "asked"
     /\ loops' = [loops EXCEPT ![i] =
          IF Authorised(w)
          THEN [@ EXCEPT !.pc = "answered", !.keys = {k \in Keys : [wallet |-> w, key |-> k] \in rows}]
          ELSE Rejected]
     /\ UNCHANGED <<page, running, last, misled, relayer, added, device, answered>>

\* Variant: only a list that has grown is passed on.
DeliverGrowth(i) ==
  LET l == loops[i]
  IN /\ l.pc = "answered"
     /\ loops' = [loops EXCEPT ![i] = [NoLoop EXCEPT !.pc = IF l.error THEN "over" ELSE "timer"]]
     /\ last' = IF l.error \/ ~(last \subseteq l.keys) THEN last ELSE l.keys
     /\ misled' = (misled \/ (~l.error /\ l.wallet # page))
     /\ UNCHANGED <<page, running, relayer, added, device, answered>>

\* The rest of the tick.  An error ends the loop and leaves the state as it is;
\* otherwise the loop sleeps, stopped or not.
Deliver(i) ==
  LET l == loops[i]
  IN /\ l.pc = "answered"
     /\ loops' = [loops EXCEPT ![i] = [NoLoop EXCEPT !.pc = IF l.error THEN "over" ELSE "timer"]]
     /\ last' = IF l.error THEN last ELSE l.keys
     /\ misled' = (misled \/ (~l.error /\ l.wallet # page))
     /\ UNCHANGED <<page, running, relayer, added, device, answered>>

\* The query rejects.
GetPendingFails(i) ==
  /\ loops[i].pc = "asked"
  /\ loops' = [loops EXCEPT ![i] = Rejected]
  /\ UNCHANGED <<page, running, last, misled, relayer, added, device, answered>>

-----------------------------------------------------------------------------
(***************************************************************************)
(* Answering a request: sdk.addKey through the relayer, sdk.denyRequest.   *)
(***************************************************************************)
OnPage(k) == [wallet |-> page, key |-> k]

\* The owner answers what the page shows.
Answers(k) ==
  /\ k \in Shown
  /\ answered' = answered \cup ({OnPage(k)} \cap rows)
  /\ Cardinality(answered') <= MaxAnswers

\* Confirm, from the click on: the relayer takes a message signed by a key of
\* the wallet.
Confirm(k) ==
  /\ k \in Confirmable /\ Answers(k) /\ Authorised(page)
  /\ execution[OnPage(k)] = "none"
  /\ execution' = [execution EXCEPT ![OnPage(k)] = "queued"]
  /\ UNCHANGED <<owner, denials, rows, unhandled, added, device>>

Executes(r, status) ==
  /\ execution' = [execution EXCEPT ![r] = status]
  /\ UNCHANGED <<owner, denials, rows, device, answered>>

\* A new block: what was in the last one is in an older one.
Aged == [r \in Row |-> IF added[r] = "last" THEN "older" ELSE added[r]]

\* The transaction is mined; addKey may have failed: the key was there, the
\* nonce spent, the gas short.
MineAddKey(r) ==
  /\ execution[r] = "queued"
  /\ \/ added[r] = "no" /\ added' = [Aged EXCEPT ![r] = "last"]
     \/ added' = Aged
  /\ Executes(r, "mined")
  /\ UNCHANGED unhandled

\* The message ends in Error without a transaction; or the relayer ends after
\* the transaction and before onTransactionSent: the nonce is spent by now.
ExecutionFails(r) ==
  /\ execution[r] # "none"
  /\ unhandled' = IF execution[r] = "mined" THEN unhandled \cup ({r} \cap rows) ELSE unhandled
  /\ Executes(r, "none")
  /\ UNCHANGED added

\* Variant: removeRequest deletes all requests of the wallet.
RemoveAllRequests(r) == {s \in rows : s.wallet # r.wallet}

RemoveRequest(r) == rows \ {r}

\* Variant: the word keeps its padding.
KeyWithPadding(k) == NoKey

\* stripZeros takes more than the padding from an address that begins with zero.
KeyFromData(k) == IF k \in ZeroLed THEN NoKey ELSE k

\* onTransactionSent, whatever the transaction did.
OnTransactionSent(r) ==
  /\ execution[r] = "mined"
  /\ execution' = [execution EXCEPT ![r] = "none"]
  /\ rows' = RemoveRequest([r EXCEPT !.key = KeyFromData(@)])
  /\ unhandled' = unhandled \cap rows'
  /\ UNCHANGED <<owner, denials, added, device, answered>>

\* What denyRequest signs: the wallet and the key of the request.
CancelRequest(k) == OnPage(k)

\* Reject: sdk.denyRequest sends the cancellation, and the page goes on.  That
\* of a request no longer in the table would change nothing.
Deny(k) ==
  /\ Answers(k)
  /\ denials' = denials \cup ({CancelRequest(k)} \cap rows)
  /\ UNCHANGED <<owner, rows, execution, unhandled, added, device>>

\* removeAuthorisationRequest: the signature is checked on chain, then the row
\* is deleted, whatever page is open by now.
RemoveDenied(r) ==
  /\ r \in denials
  /\ denials' = denials \ {r}
  /\ rows' = IF Authorised(r.wallet) THEN RemoveRequest(r) ELSE rows
  /\ unhandled' = unhandled \cap rows'
  /\ UNCHANGED <<owner, execution, added, device, answered>>

\* The cancellation is lost on the way, or a query rejects.
DenialFails(r) ==
  /\ r \in denials
  /\ denials' = denials \ {r}
  /\ UNCHANGED <<owner, rows, execution, unhandled, added, device, answered>>

\* Transactions of others.
MineOther ==
  /\ added' = Aged
  /\ UNCHANGED <<owner, relayer, device, answered>>

-----------------------------------------------------------------------------
(***************************************************************************)
(* The new device: sdk.connect, sdk.subscribe, BlockchainObserver.         *)
(***************************************************************************)
DeviceBecomes(k, d) ==
  /\ device' = [device EXCEPT ![k] = d]
  /\ UNCHANGED <<owner, denials, execution, unhandled, added, answered>>

\* The relayer stores the request; its answer is on the way back.  The observer
\* runs since sdk.start and is anywhere between two of its queries.
Connect(k, w) ==
  /\ device[k].pc = "new" /\ [wallet |-> w, key |-> k] \in Requests
  /\ rows' = rows \cup {[wallet |-> w, key |-> k]}
  /\ \E logsRead \in BOOLEAN :
       DeviceBecomes(k, [pc |-> "posted", wallet |-> w, logsRead |-> logsRead, passed |-> FALSE])

Subscribe(k) ==
  /\ device[k].pc = "posted"
  /\ DeviceBecomes(k, [device[k] EXCEPT !.pc = "subscribed"])
  /\ UNCHANGED rows

RowOf(k) == [wallet |-> device[k].wallet, key |-> k]

\* No later query of the observer matters.
Leaving(k, pc) == [device[k] EXCEPT !.pc = pc, !.logsRead = FALSE, !.passed = FALSE]

\* fetchEventsOfType("KeyAdded"): getLogs from lastBlock on, filtered by wallet
\* and key, emitted to whoever has subscribed by now.
FetchEvents(k) ==
  /\ device[k].pc \in {"posted", "subscribed"} /\ ~device[k].logsRead
  /\ DeviceBecomes(k, IF device[k].pc = "subscribed" /\ HasKey(RowOf(k)) /\ ~device[k].passed
                      THEN Leaving(k, "connected") ELSE [device[k] EXCEPT !.logsRead = TRUE])
  /\ UNCHANGED rows

\* Variant: logs are read from the block after lastBlock.
PassedByLastToo(r) == added[r] # "no"

PassedBy(r) == added[r] = "older"

\* lastBlock becomes the number of the last block, whose logs may not be read.
FetchBlockNumber(k) ==
  /\ device[k].pc \in {"posted", "subscribed"} /\ device[k].logsRead
  /\ DeviceBecomes(k, [device[k] EXCEPT !.logsRead = FALSE, !.passed = PassedBy(RowOf(k))])
  /\ UNCHANGED rows

\* The device is closed, or a query of its loop rejects: the loop is dead.
GiveUp(k) ==
  /\ device[k].pc \in {"posted", "subscribed"}
  /\ DeviceBecomes(k, Leaving(k, "gone"))
  /\ UNCHANGED rows

-----------------------------------------------------------------------------
ObserverSteps(i) == LoopAgain(i) \/ GetPending(i) \/ Deliver(i)
OwnerNext ==
  \/ \E w \in Wallets : OpenPage(w)
  \/ ClosePage
  \/ \E i \in LoopIds : ObserverSteps(i) \/ GetPendingFails(i)
  \/ \E k \in Keys : Confirm(k) \/ Deny(k)

RelayerNext ==
  \E r \in Row :
    \/ MineAddKey(r) \/ ExecutionFails(r) \/ OnTransactionSent(r)
    \/ RemoveDenied(r) \/ DenialFails(r)

DeviceSteps(k) == Subscribe(k) \/ FetchEvents(k) \/ FetchBlockNumber(k)
DeviceNext(k) == DeviceSteps(k) \/ GiveUp(k) \/ \E w \in Wallets : Connect(k, w)

DevicesNext == OwnerNext \/ RelayerNext \/ MineOther \/ \E k \in Keys : DeviceNext(k)

DevicesSpec == DevicesInit /\ [][DevicesNext]_vars

\* Timers fire and queries are answered; nobody has to confirm anything.
FairDevicesSpec ==
  /\ DevicesSpec
  /\ \A i \in LoopIds : WF_vars(ObserverSteps(i))
  /\ \A r \in Requests : WF_vars(DeviceSteps(r.key))

-----------------------------------------------------------------------------
(***************************************************************************)
(* Properties.                                                             *)
(***************************************************************************)
\* The observer serves one wallet at a time, so an owner who confirms what the
\* page shows adds a key only to the wallet that its device asked; only an
\* answer that arrives on the page of another wallet, or on none, breaks this.
KeysWhereAsked == \A r \in Row : HasKey(r) => Asks(r) \/ misled

\* No request is lost unanswered: whoever has asked is in the table until the
\* owner has seen the request on the page of that wallet and answered it, though
\* rows are deleted long after the click, on another page or on none, and by
\* callbacks of other requests (AuthorisationService.ts:12-17,
\* MessageHandler.ts:43-66).
RequestsStayUnanswered == \A r \in Row : Asks(r) => r \in rows \/ r \in answered

\* A request does not stay on the page of an owner who has confirmed it: it is
\* gone once its key is on chain and the relayer has seen the transaction.  The
\* exceptions are a relayer that ended in between and a zero-led address.
ConfirmedRequestsLeave ==
  \A r \in rows : HasKey(r) => execution[r] # "none" \/ r \in unhandled \/ r.key \in ZeroLed

\* Whatever the notifications page shows, the code that the new device shows can
\* be entered on the owner's panel and is recognised as the code of that key.
CodeCanBeEntered == Shown \subseteq Recognisable

\* Sleeping loops of closed pages, late answers and lists of any other wallet
\* do not keep a request from the page: while a loop is alive, it gets there.
Polling == \E i \in LoopIds : loops[i].pc \in {"timer", "asked", "answered"}
RequestsShown ==
  \A r \in Requests \cup Unattended :
    <>[](r \in rows /\ page = r.wallet /\ Polling) => <>[](r.key \in Shown)

\* A device whose key is added hears of it, also when the block comes between
\* two queries of its observer; unless the observer has passed that block, which
\* takes another block before the number is read, or an answer that comes late.
ConnectionSeen ==
  \A k \in {r.key : r \in Requests} :
    (device[k].pc = "subscribed" /\ HasKey(RowOf(k))) ~>
      \/ device[k].pc \in {"connected", "gone"}
      \/ device[k].passed /\ added[RowOf(k)] = "older"
=============================================================================
