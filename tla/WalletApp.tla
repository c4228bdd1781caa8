------------------------------ MODULE WalletApp ------------------------------
(***************************************************************************)
(* The wallet application in one browser tab: its pages, the modal of the  *)
(* page, the one wallet it is signed in to (WalletService), the selector   *)
(* that suggests names, and the callbacks that are still waiting: creating *)
(* a wallet, connecting to one, a transfer.  A callback outlives the page  *)
(* that started it and continues between any two clicks; a reload forgets  *)
(* all of them.  What the SDK promises a creation is module FutureWallets. *)
(***************************************************************************)
EXTENDS FutureWallets, Suggestions, FiniteSets

CONSTANTS
  Attempts,    \* bound: connections that are asked for, each with its own key
  Texts,       \* what is typed into the selector
  Revisited,   \* bound: the pages the Back button returns to
  MaxLoads     \* bound: how often the tab is reloaded

VARIABLES
  page,        \* the page shown
  from,        \* location.state.from: where the login page leads
  modal,       \* the modal the page shows; lost with the page
  service,     \* WalletService
  selector,    \* WalletSelector and its DebouncedSuggestionsService
  flow,        \* onCreateClick, for the key it creates
  attempt,     \* onConnectionClick
  approved,    \* the attempts whose key another device has added
  transfer,    \* whether a transfer is waited for
  visited, loads

ui == <<page, from, modal, visited, loads>>
calls == <<flow, attempt, transfer>>
vars == <<fvars, ui, service, selector, calls, approved>>

PrivatePages == {"/", "/transferring", "/notifications", "/settings"}
SignedInPages == PrivatePages \ {"/transferring"}   \* the ones with a sidebar
Pages == PrivatePages \cup
  {"/welcome", "/terms", "/create", "/login", "/approve", "/recovery", "crashed"}
WithModal == {"/", "/create", "/login"}
WithSelector == {"/create", "/login"}

\* The links and buttons that change the page and nothing else.
WelcomeLinks == {"/login", "/terms"}
TermsLinks == {"/welcome", "/login"}
ApproveLinks == {"/recovery", "/login"}
RecoveryLinks == {"/login"}
Links(p) ==
  CASE p = "/welcome" -> WelcomeLinks
    [] p = "/terms" -> TermsLinks
    [] p = "/approve" -> ApproveLinks
    [] p = "/recovery" -> RecoveryLinks
    [] p \in SignedInPages -> SignedInPages
    [] OTHER -> {}

TopUpModals == {"topUpAccount", "topUpChosen"}
WaitingModals == {"waitingForDeploy", "waitingForTransfer"}
Closable == {"transfer", "request"}
Modal == {"none"} \cup TopUpModals \cup WaitingModals \cup Closable

NoKey == "noKey"
SignedOut == [state |-> "None", key |-> NoKey, name |-> NoName]
NoText == [parts |-> 0]
Idle == [timer |-> NoText, asked |-> {}, busy |-> FALSE, shown |-> Nothing]

ASSUME AppAssumption ==
  /\ Keys \cap (Attempts \cup {NoKey, Free, Other}) = {} /\ NoKey \notin Attempts
  /\ NoName \notin Names
  /\ Revisited \subseteq Pages /\ MaxLoads \in Nat

\* The names that the texts typed may stand for.
Offered ==
  {NoName} \cup UNION {InDomains(t, Domains \cup t.startingWith \cup {t.domain}) : t \in Texts}

Service ==
  [state : {"None", "Future", "Deployed"}, key : Keys \cup Attempts \cup {NoKey}, name : Offered]
Selector ==
  [timer : Texts \cup {NoText}, asked : SUBSET Texts, busy : BOOLEAN,
   shown : [connections : SUBSET Offered, creations : SUBSET Offered]]
Flow ==
  [pc : {"idle", "creating", "waiting", "deploying", "over"}, name : Offered, from : PrivatePages]
Attempted ==
  [pc : {"idle", "resolving", "posting", "subscribed", "over"}, name : Offered,
   from : PrivatePages, posted : BOOLEAN]

AppTypeOK ==
  /\ future \in [Keys -> [state : FutureState, name : Names \cup {NoName}]]
  /\ owner \in [Names -> Keys \cup {Free, Other}]
  /\ page \in Pages /\ from \in PrivatePages /\ modal \in Modal
  /\ service \in Service /\ selector \in Selector
  /\ flow \in [Keys -> Flow] /\ attempt \in [Attempts -> Attempted]
  /\ approved \subseteq Attempts /\ transfer \in BOOLEAN
  /\ visited \subseteq Revisited /\ loads \in 0..MaxLoads

AppInit ==
  /\ FutureInit
  /\ page = "/welcome" /\ from = "/" /\ modal = "none"
  /\ service = SignedOut /\ selector = Idle
  /\ flow = [k \in Keys |-> [pc |-> "idle", name |-> NoName, from |-> "/"]]
  /\ attempt = [a \in Attempts |->
       [pc |-> "idle", name |-> NoName, from |-> "/", posted |-> FALSE]]
  /\ approved = {} /\ transfer = FALSE /\ visited = {} /\ loads = 0

-----------------------------------------------------------------------------
(***************************************************************************)
(* Pages.                                                                  *)
(***************************************************************************)
\* Variant: the login page remembers any page it replaces.
GoRememberingAny(p) ==
  /\ page' = p /\ from' = p /\ modal' = "none" /\ selector' = Idle
  /\ visited' = visited \cup ({p} \cap Revisited)
  /\ UNCHANGED loads

\* App renders p for the wallet in service'.  A private page without a wallet
\* redirects to the login page, which remembers it; the approval page of
\* nobody throws, and React unmounts the application for good.
Go(p) ==
  LET redirected == p \in PrivatePages /\ service'.state # "Deployed"
      shown ==
        IF page = "crashed" \/ (p = "/approve" /\ service'.state # "Deployed") THEN "crashed"
        ELSE IF redirected THEN "/login" ELSE p
  IN /\ page' = shown
     /\ from' = IF redirected THEN p ELSE IF shown = page THEN from ELSE "/"
     /\ modal' = IF shown = page THEN modal ELSE "none"
     /\ selector' = IF shown = page THEN selector ELSE Idle
     /\ visited' = visited \cup ({shown} \cap Revisited)
     /\ UNCHANGED loads

\* The modal of the page shown hears an event of ModalService, nobody else does.
Show(m) == modal' = IF page \in WithModal THEN m ELSE modal

Alive == page # "crashed"
Unobstructed == Alive /\ modal = "none"

FollowLink ==
  /\ Unobstructed
  /\ service' = service
  /\ \E p \in Links(page) : Go(p)
  /\ UNCHANGED <<fvars, calls, approved>>

GoBack ==
  /\ Alive
  /\ service' = service
  /\ \E p \in visited \ {page} : Go(p)
  /\ UNCHANGED <<fvars, calls, approved>>

\* An address is typed or the page reloaded: every key was only in memory.
Load(p) ==
  /\ loads < MaxLoads /\ loads' = loads + 1
  /\ service' = SignedOut
  /\ page' = IF p \in PrivatePages THEN "/login" ELSE IF p = "/approve" THEN "crashed" ELSE p
  /\ from' = IF p \in PrivatePages THEN p ELSE "/"
  /\ modal' = "none" /\ selector' = Idle /\ transfer' = FALSE
  /\ visited' = {page'} \cap Revisited
  /\ flow' = [k \in Keys |-> [flow[k] EXCEPT !.pc = IF @ = "idle" THEN @ ELSE "over"]]
  /\ attempt' = [a \in Attempts |-> [attempt[a] EXCEPT !.pc = IF @ = "idle" THEN @ ELSE "over"]]
  /\ Forget
  /\ UNCHANGED approved

-----------------------------------------------------------------------------
(***************************************************************************)
(* The selector: debounced suggestions, answered in any order.             *)
(***************************************************************************)
Select(s) == selector' = s /\ UNCHANGED <<fvars, ui, service, calls, approved>>

Type(text) ==
  /\ Unobstructed /\ page \in WithSelector
  /\ Select([selector EXCEPT !.timer = text, !.busy = TRUE, !.shown = Nothing])

TimerFires ==
  /\ selector.timer # NoText
  /\ Select([selector EXCEPT !.timer = NoText, !.asked = @ \cup {selector.timer}])

Exist == {n \in Names : owner[n] # Free}
Answer(text) ==
  /\ text \in selector.asked
  /\ Select([selector EXCEPT !.asked = @ \ {text}, !.busy = FALSE,
       !.shown = GetSuggestions(text, Exist,
                                IF page = "/create" THEN {"create"} ELSE AllActions)])
-----------------------------------------------------------------------------
(***************************************************************************)
(* Creating a wallet: onCreateClick of Login and CreateAccount.            *)
(***************************************************************************)
\* The suggestions stay until the modal covers them: a second click is possible.
ClickCreate(k, n) ==
  /\ Unobstructed /\ page \in WithSelector /\ n \in selector.shown.creations
  /\ flow[k].pc = "idle"
  /\ flow' = [flow EXCEPT ![k] = [pc |-> "creating", name |-> n, from |-> from]]
  /\ UNCHANGED <<fvars, ui, service, selector, attempt, transfer, approved>>

FlowGoes(k, pc) == flow' = [flow EXCEPT ![k].pc = pc]

\* Variant: setFutureWallet does not ensure that the state is None.
SetFutureWalletAnyway(k) ==
  /\ service' = [state |-> "Future", key |-> k, name |-> NoName]
  /\ Begin(k) /\ FlowGoes(k, "waiting") /\ Show("topUpAccount")

\* WalletService.setFutureWallet, and on to waitForBalance (or WalletOverriden).
SetFutureWallet(k) ==
  IF service.state = "None"
  THEN /\ service' = [state |-> "Future", key |-> k, name |-> NoName]
       /\ Begin(k) /\ FlowGoes(k, "waiting") /\ Show("topUpAccount")
  ELSE FlowGoes(k, "over") /\ UNCHANGED <<fvars, service, modal>>

FutureCreated(k) ==
  /\ flow[k].pc = "creating"
  /\ SetFutureWallet(k)
  /\ UNCHANGED <<page, from, visited, loads, selector, attempt, transfer, approved>>

\* waitForBalance has resolved: deploy is called for the name clicked.  A name
\* in a domain that nobody serves is rejected at once.
BalanceArrived(k) ==
  /\ flow[k].pc = "waiting" /\ future[k].state = "funded"
  /\ IF flow[k].name \in Names
     THEN AskFor(k, flow[k].name) /\ FlowGoes(k, "deploying")
     ELSE Lost(k) /\ FlowGoes(k, "over")
  /\ Show("waitingForDeploy")
  /\ UNCHANGED <<page, from, visited, loads, service, selector, attempt, transfer, approved>>

\* Variant: setDeployed ensures the wrong state.
SetDeployedTwice(name) ==
  service' = IF service.state = "Deployed" THEN [service EXCEPT !.name = name] ELSE service

\* WalletService.setDeployed (or FutureWalletNotSet).
SetDeployed(name) ==
  service' = IF service.state = "Future"
             THEN [service EXCEPT !.state = "Deployed", !.name = name] ELSE service

\* Variant: the callback does not await waitToBeSuccess of the deployment.
DeployNotAwaited(k) ==
  /\ flow[k].pc = "deploying"
  /\ SetDeployed(flow[k].name) /\ FlowGoes(k, "over")
  /\ IF service.state = "Future" THEN Go(flow[k].from) ELSE UNCHANGED <<ui, selector>>
  /\ UNCHANGED <<fvars, attempt, transfer, approved>>

DeployResolved(k) ==
  /\ flow[k].pc = "deploying" /\ future[k].state = "deployed"
  /\ SetDeployed(flow[k].name) /\ FlowGoes(k, "over")
  /\ IF service.state = "Future" THEN Go(flow[k].from) ELSE UNCHANGED <<ui, selector>>
  /\ UNCHANGED <<fvars, attempt, transfer, approved>>

\* createFutureWallet or deploy rejects, or the latter will never settle.
FlowFails(k) ==
  /\ \/ flow[k].pc = "creating" /\ UNCHANGED fvars
     \/ flow[k].pc \in {"waiting", "deploying"} /\ Lost(k)
  /\ FlowGoes(k, "over")
  /\ UNCHANGED <<ui, service, selector, attempt, transfer, approved>>

\* A method is chosen in the modal, once; for a credit card there is no
\* component, and TopUp throws.
ChooseTopUp ==
  /\ modal = "topUpAccount" /\ modal' = "topUpChosen"
  /\ UNCHANGED <<fvars, page, from, visited, loads, service, selector, calls, approved>>
ChooseCreditCard ==
  /\ modal = "topUpAccount"
  /\ page' = "crashed" /\ modal' = "none" /\ selector' = Idle
  /\ UNCHANGED <<fvars, from, visited, loads, service, calls, approved>>

-----------------------------------------------------------------------------
(***************************************************************************)
(* Connecting to a wallet: onConnectionClick, ConnectToWallet.             *)
(***************************************************************************)
Attempt(a, pc, posted) == attempt' = [attempt EXCEPT ![a].pc = pc, ![a].posted = posted]

ClickConnect(a, n) ==
  /\ Unobstructed /\ page = "/login" /\ n \in selector.shown.connections
  /\ attempt[a].pc = "idle"
  /\ attempt' = [attempt EXCEPT ![a] =
       [pc |-> "resolving", name |-> n, from |-> from, posted |-> FALSE]]
  /\ UNCHANGED <<fvars, ui, service, selector, flow, transfer, approved>>

\* sdk.getWalletContractAddress, then the POST of sdk.connect.
ContractResolved(a) ==
  /\ attempt[a].pc = "resolving"
  /\ Attempt(a, "posting", FALSE)
  /\ UNCHANGED <<fvars, ui, service, selector, flow, transfer, approved>>

\* The answer: WalletService.connect (or WalletOverriden, after the relayer has
\* the request), the subscription, and the page that waits for approval.
Connect(a) ==
  IF service.state = "None"
  THEN /\ service' = [state |-> "Deployed", key |-> a, name |-> attempt[a].name]
       /\ Attempt(a, "subscribed", TRUE) /\ Go("/approve")
  ELSE Attempt(a, "over", TRUE) /\ UNCHANGED <<ui, service, selector>>

RequestPosted(a) ==
  /\ attempt[a].pc = "posting"
  /\ Connect(a)
  /\ UNCHANGED <<fvars, flow, transfer, approved>>

AttemptFails(a) ==
  /\ attempt[a].pc \in {"resolving", "posting"}
  /\ \E posted \in {FALSE, attempt[a].pc = "posting"} : Attempt(a, "over", posted)
  /\ UNCHANGED <<fvars, ui, service, selector, flow, transfer, approved>>

\* Another device of the wallet adds the key: its request may be an orphan.
Approve(a) ==
  /\ attempt[a].posted /\ a \notin approved
  /\ approved' = approved \cup {a}
  /\ UNCHANGED <<fvars, ui, service, selector, calls>>

\* loginAndChangeScreen, whatever page is shown by now.
KeyAdded(a) ==
  /\ attempt[a].pc = "subscribed" /\ a \in approved
  /\ Attempt(a, "over", TRUE)
  /\ service' = service /\ Go(attempt[a].from)
  /\ UNCHANGED <<fvars, flow, transfer, approved>>

-----------------------------------------------------------------------------
(***************************************************************************)
(* The pages of a wallet.                                                  *)
(***************************************************************************)
\* Variant: the page stays after disconnect.
DisconnectAndStay ==
  /\ Unobstructed /\ page \in SignedInPages
  /\ service' = SignedOut
  /\ UNCHANGED <<ui, selector, fvars, calls, approved>>

Disconnect ==
  /\ Unobstructed /\ page \in SignedInPages
  /\ service' = SignedOut
  /\ Go("/login")
  /\ UNCHANGED <<fvars, calls, approved>>

OnlyModal(m) ==
  Show(m) /\ UNCHANGED <<fvars, page, from, visited, loads, service, selector, flow, attempt, approved>>

OpenModal(m) == Unobstructed /\ page = "/" /\ OnlyModal(m) /\ UNCHANGED transfer
HideModal == modal \in Closable /\ OnlyModal("none") /\ UNCHANGED transfer

\* onGenerateClick of ModalTransfer, until its transfer has been mined.
GenerateTransaction ==
  modal = "transfer" /\ ~transfer /\ OnlyModal("waitingForTransfer") /\ transfer' = TRUE

\* hideModal is heard by whatever modal is shown by then.
TransferMined == transfer /\ OnlyModal("none") /\ transfer' = FALSE

\* A rejected transfer leaves its modal, which cannot be closed.
TransferFails == transfer /\ OnlyModal(modal) /\ transfer' = FALSE

-----------------------------------------------------------------------------
Flows(k) == FutureCreated(k) \/ BalanceArrived(k) \/ DeployResolved(k)
App == <<ui, service, selector, calls, approved>>
ObserverSees(k) == Deployed(k) /\ UNCHANGED App
Sdk(k) == (Funded(k) \/ Deployed(k) \/ Register(k)) /\ UNCHANGED App
OthersTakeNames == Elsewhere /\ UNCHANGED App

AppNext ==
  \/ FollowLink \/ GoBack \/ \E p \in Pages \ {"crashed"} : Load(p)
  \/ TimerFires \/ \E text \in Texts : Type(text) \/ Answer(text)
  \/ \E k \in Keys :
       \/ Flows(k) \/ Sdk(k) \/ FlowFails(k)
       \/ \E n \in selector.shown.creations : ClickCreate(k, n)
  \/ ChooseTopUp \/ ChooseCreditCard \/ OthersTakeNames
  \/ \E a \in Attempts :
       \/ ContractResolved(a) \/ RequestPosted(a) \/ AttemptFails(a) \/ Approve(a) \/ KeyAdded(a)
       \/ \E n \in selector.shown.connections : ClickConnect(a, n)
  \/ Disconnect \/ HideModal \/ \E m \in Closable : OpenModal(m)
  \/ GenerateTransaction \/ TransferMined \/ TransferFails

AppSpec == AppInit /\ [][AppNext]_vars

\* Only JavaScript is fair: a promise that has settled continues its callback,
\* and an observer sees what is on chain.
FairAppSpec ==
  AppSpec /\ \A k \in Keys : WF_vars(Flows(k)) /\ WF_vars(ObserverSees(k))

-----------------------------------------------------------------------------
(***************************************************************************)
(* Properties.                                                             *)
(***************************************************************************)
\* The private pages take the wallet of the service for granted, and throw
\* without it: no click, callback or reload in any order shows one to nobody.
PrivatePagesHaveWallet == page \in PrivatePages => service.state = "Deployed"

\* While a creation waits, its key is the one the service keeps: no second
\* click, connection or disconnection makes the application forget the key
\* of an address that the user is sending funds to.
FundedKeyKept ==
  \A k \in Keys : flow[k].pc \in {"waiting", "deploying"} =>
    service = [state |-> "Future", key |-> k, name |-> NoName]

\* Signed in through a creation means that the name shown is the wallet's,
\* whatever else was clicked before the deployment was seen.
CreatedWalletOwnsName ==
  (service.state = "Deployed" /\ service.key \in Keys) =>
    (service.name \in Names /\ owner[service.name] = service.key)

\* However late and out of order suggestions arrive, a connection is offered
\* and asked for only to a wallet that exists.
ConnectionsExist ==
  /\ selector.shown.connections \subseteq Exist
  /\ \A a \in Attempts : attempt[a].pc # "idle" => attempt[a].name \in Exist

\* A creation whose name is registered ends with the user signed in to that
\* wallet, unless the callback was lost to a failing query or to a reload.
CreationCompletes ==
  \A k \in Keys, l \in 0..MaxLoads :
    (flow[k].pc = "deploying" /\ owner[flow[k].name] = k /\ loads = l) ~>
      (service.key = k /\ service.state = "Deployed") \/ future[k].state = "lost" \/ loads > l
=============================================================================
