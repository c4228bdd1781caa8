--------------------------- MODULE WalletAppProofs ---------------------------
(***************************************************************************)
(* Safety of the wallet application for any keys, connections, names,      *)
(* texts and reloads.  The inductive invariant relates the three places    *)
(* that know of a creation: the callback, the service and the promise.     *)
(***************************************************************************)
EXTENDS WalletApp, TLAPS

\* A callback that deploys asked for the name that was clicked.
DeployingAskedFor ==
  \A k \in Keys : flow[k].pc = "deploying" =>
    flow[k].name \in Names /\ future[k].name = flow[k].name

\* A promise of a name is kept for ever.
DeployedOwns ==
  \A k \in Keys : future[k].state = "deployed" =>
    future[k].name \in Names /\ owner[future[k].name] = k

IInv ==
  /\ AppTypeOK
  /\ PrivatePagesHaveWallet /\ FundedKeyKept
  /\ DeployingAskedFor /\ DeployedOwns /\ CreatedWalletOwnsName
  /\ ConnectionsExist

-----------------------------------------------------------------------------
(***************************************************************************)
(* What the parts of the actions do.                                       *)
(***************************************************************************)
\* Of the names that a text stands for, only existing ones can be connected to.
LEMMA SuggestionsOffered ==
  ASSUME NEW text \in Texts, NEW exist, NEW actions
  PROVE  /\ GetSuggestions(text, exist, actions)
              \in [connections : SUBSET Offered, creations : SUBSET Offered]
         /\ GetSuggestions(text, exist, actions).connections \subseteq exist
<1> DEFINE Fits(s) == /\ s \in [connections : SUBSET Offered, creations : SUBSET Offered]
                      /\ s.connections \subseteq exist
<1>1. Fits(Nothing)
  BY DEF Nothing
<1>2. ASSUME NEW names \in SUBSET Offered, NEW acts PROVE Fits(SplitByExistence(names, exist, acts))
  BY DEF SplitByExistence
<1>3. /\ InDomains(text, Domains) \subseteq Offered
      /\ InDomains(text, text.startingWith) \subseteq Offered
      /\ {<<text.label, text.domain>>} \subseteq Offered
  BY DEF Offered, InDomains
<1>4. \/ GetSuggestions(text, exist, actions) = Nothing
      \/ \E names \in SUBSET Offered, acts \in {actions, AllActions} :
           GetSuggestions(text, exist, actions) = SplitByExistence(names, exist, acts)
  <2> HIDE DEF Fits
  <2> QED BY <1>3 DEF GetSuggestions
<1> HIDE DEF Fits
<1>5. Fits(GetSuggestions(text, exist, actions))
  BY <1>1, <1>2, <1>4
<1> QED BY <1>5 DEF Fits

LEMMA IdleType ==
  /\ Idle \in Selector /\ Idle.shown.connections = {} /\ SignedOut \in Service
  /\ NoText \in Texts \cup {NoText}
BY DEF Idle, Selector, Nothing, SignedOut, Service, Offered

\* A page shown by the router is private only for a wallet that is deployed.
LEMMA GoShows ==
  ASSUME AppTypeOK, NEW p \in Pages, Go(p)
  PROVE  /\ page' \in Pages /\ from' \in PrivatePages /\ modal' \in Modal
         /\ selector' \in Selector /\ visited' \subseteq Revisited /\ loads' = loads
         /\ page' \in PrivatePages => service'.state = "Deployed"
         /\ selector' \in {selector, Idle}
<1> USE AppAssumption, IdleType
<1>1. page' \in Pages
  BY DEF Go, AppTypeOK, Pages
<1>2. from' \in PrivatePages
  BY DEF Go, AppTypeOK, PrivatePages
<1>3. modal' \in Modal
  BY DEF Go, AppTypeOK, Modal
<1>4. selector' \in {selector, Idle} /\ selector' \in Selector
  BY DEF Go, AppTypeOK
<1>5. visited' \subseteq Revisited /\ loads' = loads
  BY DEF Go, AppTypeOK
<1>6. page' \in PrivatePages => service'.state = "Deployed"
  BY DEF Go, PrivatePages
<1> QED BY <1>1, <1>2, <1>3, <1>4, <1>5, <1>6

\* The steps of the promises.
FutureTypeOK ==
  /\ future \in [Keys -> [state : FutureState, name : Names \cup {NoName}]]
  /\ owner \in [Names -> Keys \cup {Free, Other}]

LEMMA PromiseFacts ==
  ASSUME FutureTypeOK, NEW k \in Keys, NEW states, NEW to \in FutureState, Promise(k, states, to)
  PROVE  /\ FutureTypeOK' /\ owner' = owner /\ future[k].state \in states
         /\ \A j \in Keys : /\ future'[j].name = future[j].name
                            /\ future'[j].state = IF j = k THEN to ELSE future[j].state
BY DEF Promise, FutureTypeOK

LEMMA TakeFacts ==
  ASSUME FutureTypeOK, NEW n \in Names, NEW o \in Keys \cup {Other}, Take(n, o)
  PROVE  /\ FutureTypeOK' /\ future' = future
         /\ \A m \in Names : owner[m] # Free => owner'[m] = owner[m]
         /\ Exist \subseteq Exist'
<1>1. /\ owner[n] = Free /\ owner' = [owner EXCEPT ![n] = o] /\ future' = future
      /\ owner \in [Names -> Keys \cup {Free, Other}]
  BY DEF Take, FutureTypeOK
<1>2. o # Free
  BY AppAssumption DEF Free, Other
<1> QED BY <1>1, <1>2 DEF FutureTypeOK, Exist

LEMMA AskForFacts ==
  ASSUME FutureTypeOK, NEW k \in Keys, NEW n \in Names, AskFor(k, n)
  PROVE  /\ FutureTypeOK' /\ owner' = owner
         /\ future'[k].state = "deploying" /\ future'[k].name = n
         /\ \A j \in Keys \ {k} : future'[j] = future[j]
BY DEF AskFor, FutureTypeOK, FutureState

-----------------------------------------------------------------------------
(***************************************************************************)
(* Type correctness.                                                       *)
(***************************************************************************)
LEMMA TypeInit == AppInit => AppTypeOK
<1> SUFFICES ASSUME AppInit PROVE AppTypeOK
  OBVIOUS
<1>1. /\ future \in [Keys -> [state : FutureState, name : Names \cup {NoName}]]
      /\ owner \in [Names -> Keys \cup {Free, Other}]
  BY DEF AppInit, FutureInit, FutureState
<1>2. /\ page \in Pages /\ from \in PrivatePages /\ modal \in Modal
      /\ visited \subseteq Revisited /\ loads \in 0..MaxLoads
  BY AppAssumption DEF AppInit, Pages, PrivatePages, Modal
<1>3. flow \in [Keys -> Flow]
  BY DEF AppInit, Flow, Offered, PrivatePages
<1>4. attempt \in [Attempts -> Attempted]
  BY DEF AppInit, Attempted, Offered, PrivatePages
<1> QED BY <1>1, <1>2, <1>3, <1>4, IdleType DEF AppInit, AppTypeOK

\* AppTypeOK by the parts that an action changes.
UiTypeOK ==
  /\ page \in Pages /\ from \in PrivatePages /\ modal \in Modal
  /\ visited \subseteq Revisited /\ loads \in 0..MaxLoads
FlowTypeOK == flow \in [Keys -> Flow]
AttemptTypeOK == attempt \in [Attempts -> Attempted]

TypeParts ==
  /\ FutureTypeOK /\ UiTypeOK /\ service \in Service /\ selector \in Selector
  /\ FlowTypeOK /\ AttemptTypeOK /\ approved \subseteq Attempts /\ transfer \in BOOLEAN

LEMMA PartsType == (AppTypeOK <=> TypeParts) /\ (AppTypeOK <=> TypeParts)'
BY DEF TypeParts, AppTypeOK, FutureTypeOK, UiTypeOK, FlowTypeOK, AttemptTypeOK

LEMMA FlowGoesType ==
  ASSUME FlowTypeOK, NEW k \in Keys, NEW pc \in {"waiting", "deploying", "over"}, FlowGoes(k, pc)
  PROVE  /\ FlowTypeOK'
         /\ \A j \in Keys : /\ flow'[j].name = flow[j].name
                            /\ flow'[j].pc = IF j = k THEN pc ELSE flow[j].pc
BY DEF FlowTypeOK, FlowGoes, Flow

LEMMA AttemptType ==
  ASSUME AttemptTypeOK, NEW a \in Attempts, NEW pc \in {"posting", "subscribed", "over"},
         NEW posted \in BOOLEAN, Attempt(a, pc, posted)
  PROVE  /\ AttemptTypeOK'
         /\ \A b \in Attempts : /\ attempt'[b].name = attempt[b].name
                                /\ attempt'[b].pc = IF b = a THEN pc ELSE attempt[b].pc
BY DEF AttemptTypeOK, Attempt, Attempted

LEMMA ShowType == ASSUME UiTypeOK, NEW m \in Modal, Show(m) PROVE modal' \in Modal
BY DEF Show, UiTypeOK

\* Going to a page is all that changes the page.
LEMMA GoType ==
  ASSUME AppTypeOK, NEW p \in Pages, Go(p) PROVE UiTypeOK' /\ selector' \in Selector
BY GoShows DEF UiTypeOK, AppTypeOK

LEMMA LinksArePages == \A p \in Pages : Links(p) \subseteq Pages
BY DEF Links, Pages, PrivatePages, SignedInPages, WelcomeLinks, TermsLinks, ApproveLinks, RecoveryLinks

LEMMA SetDeployedType ==
  ASSUME service \in Service, NEW n \in Offered, SetDeployed(n) PROVE service' \in Service
BY DEF SetDeployed, Service

LEMMA LoadType == ASSUME AppTypeOK, NEW p \in Pages \ {"crashed"}, Load(p) PROVE AppTypeOK'
<1> USE AppAssumption
<1>1. FutureTypeOK'
  BY DEF Load, Forget, Awaited, AppTypeOK, FutureTypeOK, FutureState
<1>2. UiTypeOK'
  <2>1. page' \in Pages /\ from' \in PrivatePages /\ modal' \in Modal
    BY DEF Load, Pages, PrivatePages, Modal
  <2>2. visited' \subseteq Revisited /\ loads' \in 0..MaxLoads
    BY DEF Load, AppTypeOK
  <2> QED BY <2>1, <2>2 DEF UiTypeOK
<1>3. FlowTypeOK'
  BY DEF Load, AppTypeOK, FlowTypeOK, Flow
<1>4. AttemptTypeOK'
  BY DEF Load, AppTypeOK, AttemptTypeOK, Attempted
<1>5. service' \in Service /\ selector' \in Selector /\ approved' \subseteq Attempts /\ transfer' \in BOOLEAN
  BY IdleType DEF Load, AppTypeOK
<1> QED BY <1>1, <1>2, <1>3, <1>4, <1>5, PartsType DEF TypeParts

LEMMA TypeStep == AppTypeOK /\ [AppNext]_vars => AppTypeOK'
<1> SUFFICES ASSUME AppTypeOK, [AppNext]_vars PROVE TypeParts'
  BY PartsType
<1> USE AppAssumption, IdleType
<1>0. TypeParts
  BY PartsType
<1> USE DEF TypeParts
<1>1. CASE FollowLink
  BY <1>0, <1>1, GoType, LinksArePages
  DEF FollowLink, calls, fvars, FutureTypeOK, FlowTypeOK, AttemptTypeOK, UiTypeOK
<1>2. CASE GoBack
  <2>1. PICK p \in visited \ {page} : Go(p)
    BY <1>2 DEF GoBack
  <2>2. p \in Pages
    BY <1>0 DEF UiTypeOK
  <2> QED BY <1>0, <1>2, <2>1, <2>2, GoType
    DEF GoBack, calls, fvars, FutureTypeOK, FlowTypeOK, AttemptTypeOK
<1>3. ASSUME NEW p \in Pages \ {"crashed"}, Load(p) PROVE TypeParts'
  BY <1>3, LoadType, PartsType
<1>4. ASSUME NEW s \in Selector, Select(s) PROVE TypeParts'
  BY <1>0, <1>4 DEF Select, fvars, ui, calls, FutureTypeOK, FlowTypeOK, AttemptTypeOK, UiTypeOK
<1>5. ASSUME NEW text \in Texts, Type(text) PROVE TypeParts'
  <2>1. [selector EXCEPT !.timer = text, !.busy = TRUE, !.shown = Nothing] \in Selector
    BY <1>0 DEF Selector, Nothing
  <2> QED BY <1>4, <1>5, <2>1 DEF Type
<1>6. CASE TimerFires
  <2>1. [selector EXCEPT !.timer = NoText, !.asked = @ \cup {selector.timer}] \in Selector
    BY <1>0, <1>6 DEF Selector, TimerFires
  <2> QED BY <1>4, <1>6, <2>1 DEF TimerFires
<1>7. ASSUME NEW text \in Texts, Answer(text) PROVE TypeParts'
  <2> DEFINE shown == GetSuggestions(text, Exist, IF page = "/create" THEN {"create"} ELSE AllActions)
  <2>1. shown \in [connections : SUBSET Offered, creations : SUBSET Offered]
    BY SuggestionsOffered
  <2> HIDE DEF shown
  <2>2. [selector EXCEPT !.asked = @ \ {text}, !.busy = FALSE, !.shown = shown] \in Selector
    BY <1>0, <2>1 DEF Selector
  <2> QED BY <1>4, <1>7, <2>2 DEF Answer, shown
<1>8. ASSUME NEW k \in Keys, NEW n \in selector.shown.creations, ClickCreate(k, n) PROVE TypeParts'
  <2>1. [pc |-> "creating", name |-> n, from |-> from] \in Flow
    BY <1>0, <1>8 DEF Selector, Flow, UiTypeOK
  <2>2. FlowTypeOK'
    BY <1>0, <1>8, <2>1 DEF ClickCreate, FlowTypeOK
  <2> QED BY <1>0, <1>8, <2>2 DEF ClickCreate, fvars, ui, FutureTypeOK, AttemptTypeOK, UiTypeOK
<1>9. ASSUME NEW k \in Keys, FutureCreated(k) PROVE TypeParts'
  <2>1. CASE service.state = "None"
    <3>1. FutureTypeOK'
      BY <1>0, <1>9, <2>1, PromiseFacts DEF FutureCreated, SetFutureWallet, Begin, FutureState
    <3>2. FlowTypeOK'
      BY <1>0, <1>9, <2>1, FlowGoesType DEF FutureCreated, SetFutureWallet
    <3>3. service' \in Service
      BY <1>9, <2>1 DEF FutureCreated, SetFutureWallet, Service, Offered
    <3>4. modal' \in Modal
      BY <1>0, <1>9, <2>1, ShowType DEF FutureCreated, SetFutureWallet, Modal, TopUpModals
    <3> QED BY <1>0, <1>9, <3>1, <3>2, <3>3, <3>4 DEF FutureCreated, UiTypeOK, AttemptTypeOK
  <2>2. CASE service.state # "None"
    <3>1. FlowTypeOK'
      BY <1>0, <1>9, <2>2, FlowGoesType DEF FutureCreated, SetFutureWallet
    <3> QED BY <1>0, <1>9, <2>2, <3>1
      DEF FutureCreated, SetFutureWallet, fvars, FutureTypeOK, UiTypeOK, AttemptTypeOK
  <2> QED BY <2>1, <2>2
<1>10. ASSUME NEW k \in Keys, BalanceArrived(k) PROVE TypeParts'
  <2>1. FutureTypeOK'
    BY <1>0, <1>10, PromiseFacts, AskForFacts DEF BalanceArrived, Lost, FutureState
  <2>2. FlowTypeOK'
    BY <1>0, <1>10, FlowGoesType DEF BalanceArrived
  <2>3. modal' \in Modal
    BY <1>0, <1>10, ShowType DEF BalanceArrived, Modal, WaitingModals
  <2> QED BY <1>0, <1>10, <2>1, <2>2, <2>3 DEF BalanceArrived, UiTypeOK, AttemptTypeOK
<1>11. ASSUME NEW k \in Keys, DeployResolved(k) PROVE TypeParts'
  <2>1. flow[k].name \in Offered /\ flow[k].from \in Pages
    BY <1>0 DEF FlowTypeOK, Flow, Pages
  <2>2. service' \in Service
    BY <1>0, <1>11, <2>1, SetDeployedType DEF DeployResolved
  <2>3. FlowTypeOK'
    BY <1>0, <1>11, FlowGoesType DEF DeployResolved
  <2>4. UiTypeOK' /\ selector' \in Selector
    BY <1>0, <1>11, <2>1, GoType DEF DeployResolved, ui, UiTypeOK
  <2> QED BY <1>0, <1>11, <2>2, <2>3, <2>4 DEF DeployResolved, fvars, FutureTypeOK, AttemptTypeOK
<1>12. ASSUME NEW k \in Keys, FlowFails(k) PROVE TypeParts'
  <2>1. FutureTypeOK'
    BY <1>0, <1>12, PromiseFacts DEF FlowFails, Lost, FutureState, fvars, FutureTypeOK
  <2>2. FlowTypeOK'
    BY <1>0, <1>12, FlowGoesType DEF FlowFails
  <2> QED BY <1>0, <1>12, <2>1, <2>2 DEF FlowFails, ui, UiTypeOK, AttemptTypeOK
<1>13. CASE ChooseTopUp \/ ChooseCreditCard
  <2>1. UiTypeOK' /\ selector' \in Selector
    BY <1>0, <1>13 DEF ChooseTopUp, ChooseCreditCard, UiTypeOK, Pages, Modal, TopUpModals
  <2> QED BY <1>0, <1>13, <2>1
    DEF ChooseTopUp, ChooseCreditCard, fvars, calls, FutureTypeOK, FlowTypeOK, AttemptTypeOK
<1>14. ASSUME NEW a \in Attempts, NEW n \in selector.shown.connections, ClickConnect(a, n)
       PROVE  TypeParts'
  <2>1. [pc |-> "resolving", name |-> n, from |-> from, posted |-> FALSE] \in Attempted
    BY <1>0, <1>14 DEF Selector, Attempted, UiTypeOK
  <2>2. AttemptTypeOK'
    BY <1>0, <1>14, <2>1 DEF ClickConnect, AttemptTypeOK
  <2> QED BY <1>0, <1>14, <2>2 DEF ClickConnect, fvars, ui, FutureTypeOK, FlowTypeOK, UiTypeOK
<1>15. ASSUME NEW a \in Attempts, ContractResolved(a) \/ AttemptFails(a) PROVE TypeParts'
  <2>1. AttemptTypeOK'
    BY <1>0, <1>15, AttemptType DEF ContractResolved, AttemptFails
  <2> QED BY <1>0, <1>15, <2>1
    DEF ContractResolved, AttemptFails, fvars, ui, FutureTypeOK, FlowTypeOK, UiTypeOK
<1>16. ASSUME NEW a \in Attempts, RequestPosted(a) PROVE TypeParts'
  <2>1. AttemptTypeOK'
    BY <1>0, <1>16, AttemptType DEF RequestPosted, Connect
  <2>2. attempt[a].name \in Offered
    BY <1>0 DEF AttemptTypeOK, Attempted
  <2>3. service' \in Service
    <3>1. [state |-> "Deployed", key |-> a, name |-> attempt[a].name] \in Service
      BY <2>2 DEF Service
    <3> QED BY <1>0, <1>16, <3>1 DEF RequestPosted, Connect
  <2>4. UiTypeOK' /\ selector' \in Selector
    BY <1>0, <1>16, GoType DEF RequestPosted, Connect, ui, UiTypeOK, Pages
  <2> QED BY <1>0, <1>16, <2>1, <2>3, <2>4 DEF RequestPosted, fvars, FutureTypeOK, FlowTypeOK
<1>17. ASSUME NEW a \in Attempts, Approve(a) PROVE TypeParts'
  BY <1>0, <1>17
  DEF Approve, fvars, ui, calls, FutureTypeOK, FlowTypeOK, AttemptTypeOK, UiTypeOK
<1>18. ASSUME NEW a \in Attempts, KeyAdded(a) PROVE TypeParts'
  <2>1. AttemptTypeOK'
    BY <1>0, <1>18, AttemptType DEF KeyAdded
  <2>2. attempt[a].from \in Pages
    BY <1>0 DEF AttemptTypeOK, Attempted, Pages
  <2> QED BY <1>0, <1>18, <2>1, <2>2, GoType DEF KeyAdded, fvars, FutureTypeOK, FlowTypeOK
<1>19. CASE Disconnect
  BY <1>0, <1>19, GoType
  DEF Disconnect, Pages, fvars, calls, FutureTypeOK, FlowTypeOK, AttemptTypeOK
<1>20. ASSUME NEW m \in Modal, OnlyModal(m), transfer' \in BOOLEAN PROVE TypeParts'
  BY <1>0, <1>20, ShowType
  DEF OnlyModal, fvars, FutureTypeOK, FlowTypeOK, AttemptTypeOK, UiTypeOK
<1>21. CASE HideModal \/ GenerateTransaction \/ TransferMined \/ TransferFails
  BY <1>0, <1>20, <1>21
  DEF HideModal, GenerateTransaction, TransferMined, TransferFails, UiTypeOK, Modal, WaitingModals
<1>22. ASSUME NEW m \in Closable, OpenModal(m) PROVE TypeParts'
  BY <1>0, <1>20, <1>22 DEF OpenModal, Modal
<1>23. ASSUME NEW k \in Keys, Sdk(k) PROVE TypeParts'
  <2>1. FutureTypeOK'
    BY <1>0, <1>23, PromiseFacts, TakeFacts DEF Sdk, Funded, Deployed, Register, FutureState
  <2> QED BY <1>0, <1>23, <2>1 DEF Sdk, App, ui, calls, FlowTypeOK, AttemptTypeOK, UiTypeOK
<1>24. CASE OthersTakeNames
  <2>1. FutureTypeOK'
    BY <1>0, <1>24, TakeFacts DEF OthersTakeNames, Elsewhere
  <2> QED BY <1>0, <1>24, <2>1 DEF OthersTakeNames, App, ui, calls, FlowTypeOK, AttemptTypeOK, UiTypeOK
<1>25. CASE UNCHANGED vars
  BY <1>0, <1>25
  DEF vars, fvars, ui, calls, FutureTypeOK, FlowTypeOK, AttemptTypeOK, UiTypeOK
<1> QED
  BY <1>1, <1>2, <1>3, <1>5, <1>6, <1>7, <1>8, <1>9, <1>10, <1>11, <1>12, <1>13, <1>14, <1>15,
     <1>16, <1>17, <1>18, <1>19, <1>21, <1>22, <1>23, <1>24, <1>25
  DEF AppNext, Flows

-----------------------------------------------------------------------------
(***************************************************************************)
(* The pages and the service.                                              *)
(***************************************************************************)
LEMMA PrivateStep ==
  ASSUME AppTypeOK, PrivatePagesHaveWallet, [AppNext]_vars PROVE PrivatePagesHaveWallet'
<1> USE DEF PrivatePagesHaveWallet
<1>1. ASSUME NEW p \in Pages, Go(p) PROVE PrivatePagesHaveWallet'
  BY <1>1, GoShows
<1>2. ASSUME page' = page, service' = service PROVE PrivatePagesHaveWallet'
  BY <1>2
<1>3. CASE FollowLink \/ GoBack
  <2>1. visited \subseteq Pages
    BY AppAssumption DEF AppTypeOK
  <2>2. page \in Pages
    BY DEF AppTypeOK
  <2> QED BY <1>1, <1>3, <2>1, <2>2, LinksArePages DEF FollowLink, GoBack
<1>4. ASSUME NEW p \in Pages \ {"crashed"}, Load(p) PROVE PrivatePagesHaveWallet'
  BY <1>4 DEF Load, PrivatePages
<1>5. ASSUME NEW k \in Keys, FutureCreated(k) PROVE PrivatePagesHaveWallet'
  BY <1>5 DEF FutureCreated, SetFutureWallet
<1>6. ASSUME NEW k \in Keys, DeployResolved(k) PROVE PrivatePagesHaveWallet'
  <2>1. flow[k].from \in Pages
    BY DEF AppTypeOK, Flow, Pages
  <2> QED BY <1>1, <1>2, <1>6, <2>1 DEF DeployResolved, SetDeployed, ui
<1>7. CASE ChooseCreditCard
  BY <1>7 DEF ChooseCreditCard, PrivatePages
<1>8. ASSUME NEW a \in Attempts, RequestPosted(a) PROVE PrivatePagesHaveWallet'
  BY <1>1, <1>2, <1>8 DEF RequestPosted, Connect, ui, Pages
<1>9. ASSUME NEW a \in Attempts, KeyAdded(a) PROVE PrivatePagesHaveWallet'
  <2>1. attempt[a].from \in Pages
    BY DEF AppTypeOK, Attempted, Pages
  <2> QED BY <1>1, <1>9, <2>1 DEF KeyAdded
<1>10. CASE Disconnect
  BY <1>1, <1>10 DEF Disconnect, Pages
<1>11. CASE UNCHANGED <<page, service>>
  BY <1>2, <1>11
<1> QED
  BY <1>3, <1>4, <1>5, <1>6, <1>7, <1>8, <1>9, <1>10, <1>11
  DEF AppNext, Flows, Sdk, OthersTakeNames, App, ui, vars, Type, TimerFires, Answer, Select,
      ClickCreate, BalanceArrived, FlowFails, ChooseTopUp, ContractResolved, AttemptFails, Approve,
      ClickConnect, HideModal, OpenModal, GenerateTransaction, TransferMined, TransferFails, OnlyModal

LEMMA FundedStep ==
  ASSUME AppTypeOK, PrivatePagesHaveWallet, FundedKeyKept, [AppNext]_vars PROVE FundedKeyKept'
<1>0. FlowTypeOK
  BY DEF AppTypeOK, FlowTypeOK
<1> DEFINE Waits(k) == flow[k].pc \in {"waiting", "deploying"}
<1>1. \A k \in Keys : Waits(k) => service.state = "Future" /\ service.key = k
  BY DEF FundedKeyKept
<1>2. ASSUME NEW k \in Keys, FutureCreated(k) PROVE FundedKeyKept'
  <2>1. CASE service.state = "None"
    BY <1>0, <1>1, <1>2, <2>1, FlowGoesType DEF FutureCreated, SetFutureWallet, FundedKeyKept
  <2>2. CASE service.state # "None"
    BY <1>0, <1>2, <2>2, FlowGoesType DEF FutureCreated, SetFutureWallet, FundedKeyKept
  <2> QED BY <2>1, <2>2
<1>3. ASSUME NEW k \in Keys, BalanceArrived(k) PROVE FundedKeyKept'
  BY <1>0, <1>3, FlowGoesType DEF BalanceArrived, FundedKeyKept
<1>4. ASSUME NEW k \in Keys, DeployResolved(k) PROVE FundedKeyKept'
  <2>1. \A j \in Keys : ~Waits(j)'
    BY <1>0, <1>1, <1>4, FlowGoesType DEF DeployResolved
  <2> QED BY <2>1 DEF FundedKeyKept
<1>5. ASSUME NEW k \in Keys, FlowFails(k) PROVE FundedKeyKept'
  BY <1>0, <1>5, FlowGoesType DEF FlowFails, FundedKeyKept
<1>6. ASSUME NEW p \in Pages \ {"crashed"}, Load(p) PROVE FundedKeyKept'
  BY <1>0, <1>6 DEF Load, FundedKeyKept, FlowTypeOK, Flow
<1>7. ASSUME NEW k \in Keys, NEW n \in selector.shown.creations, ClickCreate(k, n)
      PROVE  FundedKeyKept'
  BY <1>0, <1>7 DEF ClickCreate, FundedKeyKept, FlowTypeOK, Flow
<1>8. ASSUME NEW a \in Attempts, RequestPosted(a) PROVE FundedKeyKept'
  BY <1>1, <1>8 DEF RequestPosted, Connect, FundedKeyKept
<1>9. CASE Disconnect
  BY <1>1, <1>9 DEF Disconnect, SignedInPages, PrivatePagesHaveWallet, calls, FundedKeyKept
<1>10. CASE UNCHANGED <<flow, service>>
  BY <1>10 DEF FundedKeyKept
<1> QED
  BY <1>2, <1>3, <1>4, <1>5, <1>6, <1>7, <1>8, <1>9, <1>10
  DEF AppNext, Flows, Sdk, OthersTakeNames, App, calls, vars, FollowLink, GoBack, Type, TimerFires,
      Answer, Select, ChooseTopUp, ChooseCreditCard, ContractResolved, AttemptFails, Approve,
      KeyAdded, ClickConnect, HideModal, OpenModal, GenerateTransaction, TransferMined,
      TransferFails, OnlyModal

-----------------------------------------------------------------------------
(***************************************************************************)
(* Promises and names.                                                     *)
(***************************************************************************)
\* A name changes hands once, from nobody to somebody.
OwnersStay ==
  /\ \A n \in Names : owner[n] # Free => owner'[n] = owner[n]
  /\ Exist \subseteq Exist'

\* What the promises are worth to the callbacks: a name asked for stays, and a
\* promise is settled only on a name that the wallet owns.
PromisesKept ==
  /\ OwnersStay
  /\ DeployedOwns'
  /\ \A k \in Keys : flow[k].pc = "deploying" => future'[k].name = future[k].name

LEMMA PromiseKept ==
  ASSUME FutureTypeOK, DeployedOwns, NEW k \in Keys, NEW states, NEW to \in FutureState \ {"deployed"},
         Promise(k, states, to)
  PROVE  PromisesKept
<1>1. owner' = owner
  BY DEF Promise
<1>2. DeployedOwns'
  BY <1>1, PromiseFacts DEF DeployedOwns
<1>3. OwnersStay
  BY <1>1 DEF OwnersStay, Exist
<1> QED BY <1>2, <1>3, PromiseFacts DEF PromisesKept

LEMMA TakeKept ==
  ASSUME FutureTypeOK, DeployedOwns, NEW n \in Names, NEW o \in Keys \cup {Other}, Take(n, o)
  PROVE  PromisesKept
<1>1. OwnersStay /\ future' = future
  BY TakeFacts DEF OwnersStay
<1>2. DeployedOwns'
  BY <1>1, AppAssumption DEF DeployedOwns, OwnersStay
<1> QED BY <1>1, <1>2 DEF PromisesKept

LEMMA PromisesStep ==
  ASSUME AppTypeOK, DeployedOwns, [AppNext]_vars
  PROVE  \/ PromisesKept
         \/ \E k \in Keys : BalanceArrived(k) /\ OwnersStay /\ DeployedOwns'
         \/ \E p \in Pages \ {"crashed"} : Load(p) /\ OwnersStay /\ DeployedOwns'
<1>0. FutureTypeOK
  BY DEF AppTypeOK, FutureTypeOK
<1>1. ASSUME future' = future, owner' = owner PROVE PromisesKept
  BY <1>1 DEF PromisesKept, OwnersStay, Exist, DeployedOwns
<1>2. ASSUME NEW k \in Keys, Begin(k) \/ Funded(k) \/ Lost(k) PROVE PromisesKept
  BY <1>0, <1>2, PromiseKept DEF Begin, Funded, Lost, FutureState
<1>3. ASSUME NEW k \in Keys, FutureCreated(k) PROVE PromisesKept
  BY <1>1, <1>2, <1>3 DEF FutureCreated, SetFutureWallet, fvars
<1>4. ASSUME NEW k \in Keys, BalanceArrived(k) PROVE OwnersStay /\ DeployedOwns'
  <2>1. CASE flow[k].name \in Names
    <3>1. AskFor(k, flow[k].name)
      BY <1>4, <2>1 DEF BalanceArrived
    <3>2. owner' = owner
      BY <3>1 DEF AskFor
    <3>3. \A j \in Keys : future'[j].state = "deployed" => future'[j] = future[j]
      BY <1>0, <2>1, <3>1, AskForFacts
    <3> QED BY <3>2, <3>3 DEF OwnersStay, Exist, DeployedOwns
  <2>2. CASE flow[k].name \notin Names
    BY <1>2, <1>4, <2>2 DEF BalanceArrived, PromisesKept
  <2> QED BY <2>1, <2>2
<1>5. ASSUME NEW k \in Keys, FlowFails(k) PROVE PromisesKept
  BY <1>1, <1>2, <1>5 DEF FlowFails, fvars
<1>6. ASSUME NEW p \in Pages \ {"crashed"}, Load(p) PROVE OwnersStay /\ DeployedOwns'
  <2>1. owner' = owner
    BY <1>6 DEF Load, Forget
  <2>2. \A k \in Keys : future'[k].state = "deployed" => future'[k] = future[k]
    BY <1>0, <1>6 DEF Load, Forget, Awaited, FutureTypeOK
  <2> QED BY <2>1, <2>2 DEF OwnersStay, Exist, DeployedOwns
<1>7. ASSUME NEW k \in Keys, Deployed(k) PROVE PromisesKept
  <2>1. Promise(k, {"deploying"}, "deployed")
    BY <1>7 DEF Deployed
  <2>2. owner' = owner
    BY <2>1 DEF Promise
  <2>3. OwnersStay
    BY <2>2 DEF OwnersStay, Exist
  <2>4. /\ \A j \in Keys : /\ future'[j].name = future[j].name
                           /\ j # k => future'[j].state = future[j].state
    BY <1>0, <2>1, PromiseFacts DEF FutureState
  <2>5. DeployedOwns'
    BY <1>7, <2>2, <2>4 DEF Deployed, DeployedOwns
  <2> QED BY <2>3, <2>4, <2>5 DEF PromisesKept
<1>8. ASSUME NEW k \in Keys, Sdk(k) PROVE PromisesKept
  BY <1>0, <1>2, <1>7, <1>8, TakeKept DEF Sdk, Register
<1>9. CASE OthersTakeNames
  BY <1>0, <1>9, TakeKept DEF OthersTakeNames, Elsewhere
<1> QED
  BY <1>1, <1>3, <1>4, <1>5, <1>6, <1>8, <1>9
  DEF AppNext, Flows, vars, fvars, FollowLink, GoBack, Type, TimerFires, Answer, Select, ClickCreate,
      DeployResolved, ChooseTopUp, ChooseCreditCard, ContractResolved, RequestPosted, AttemptFails,
      Approve, KeyAdded, ClickConnect, Disconnect, HideModal, OpenModal, GenerateTransaction,
      TransferMined, TransferFails, OnlyModal

LEMMA DeployingStep ==
  ASSUME AppTypeOK, DeployingAskedFor, DeployedOwns, [AppNext]_vars PROVE DeployingAskedFor'
<1>0. FlowTypeOK /\ FutureTypeOK
  BY DEF AppTypeOK, FlowTypeOK, FutureTypeOK
<1>1. ASSUME PromisesKept,
             \A k \in Keys : flow'[k].pc = "deploying" =>
               flow[k].pc = "deploying" /\ flow'[k].name = flow[k].name
      PROVE  DeployingAskedFor'
  BY <1>1 DEF PromisesKept, DeployingAskedFor
<1>2. ASSUME NEW k \in Keys, BalanceArrived(k) PROVE DeployingAskedFor'
  <2>1. \A j \in Keys \ {k} : flow'[j].pc = flow[j].pc /\ flow'[j].name = flow[j].name
    BY <1>0, <1>2, FlowGoesType DEF BalanceArrived
  <2>2. \A j \in Keys \ {k} : future'[j].name = future[j].name
    BY <1>0, <1>2, AskForFacts, PromiseFacts DEF BalanceArrived, Lost, FutureState
  <2>3. flow'[k].pc = "deploying" =>
          flow'[k].name \in Names /\ future'[k].name = flow'[k].name
    BY <1>0, <1>2, FlowGoesType, AskForFacts DEF BalanceArrived
  <2> QED BY <2>1, <2>2, <2>3 DEF DeployingAskedFor
<1>3. ASSUME NEW p \in Pages \ {"crashed"}, Load(p) PROVE DeployingAskedFor'
  BY <1>0, <1>3 DEF Load, FlowTypeOK, Flow, DeployingAskedFor
<1>4. ASSUME PromisesKept PROVE DeployingAskedFor'
  <2>1. \A k \in Keys : flow'[k].pc = "deploying" =>
          \/ flow[k].pc = "deploying" /\ flow'[k].name = flow[k].name
          \/ BalanceArrived(k)
    <3>1. CASE UNCHANGED flow
      BY <3>1
    <3>2. ASSUME NEW k \in Keys, NEW n \in selector.shown.creations, ClickCreate(k, n)
          PROVE  \A j \in Keys : flow'[j].pc = "deploying" => j # k /\ flow'[j] = flow[j]
      BY <1>0, <3>2 DEF ClickCreate, FlowTypeOK
    <3>3. ASSUME NEW k \in Keys, NEW pc \in {"waiting", "over"}, FlowGoes(k, pc)
          PROVE  \A j \in Keys : flow'[j].pc = "deploying" =>
                   flow[j].pc = "deploying" /\ flow'[j].name = flow[j].name
      BY <1>0, <3>3, FlowGoesType
    <3>4. ASSUME NEW k \in Keys, BalanceArrived(k)
          PROVE  \A j \in Keys \ {k} : flow'[j].pc = flow[j].pc /\ flow'[j].name = flow[j].name
      BY <1>0, <3>4, FlowGoesType DEF BalanceArrived
    <3>5. ASSUME NEW p \in Pages \ {"crashed"}, Load(p)
          PROVE  \A j \in Keys : flow'[j].pc # "deploying"
      BY <1>0, <3>5 DEF Load, FlowTypeOK, Flow
    <3> QED
      BY <3>1, <3>2, <3>3, <3>4, <3>5
      DEF AppNext, Flows, Sdk, OthersTakeNames, App, calls, vars, FollowLink, GoBack, Type, TimerFires,
          Answer, Select, FutureCreated, SetFutureWallet, DeployResolved, FlowFails, ChooseTopUp,
          ChooseCreditCard, ContractResolved, RequestPosted, AttemptFails, Approve, KeyAdded,
          ClickConnect, Disconnect, HideModal, OpenModal, GenerateTransaction, TransferMined,
          TransferFails, OnlyModal
  <2>2. CASE \E k \in Keys : BalanceArrived(k)
    BY <1>2, <2>2
  <2>3. CASE \A k \in Keys : ~BalanceArrived(k)
    BY <1>1, <1>4, <2>1, <2>3
  <2> QED BY <2>2, <2>3
<1> QED BY <1>2, <1>3, <1>4, PromisesStep

-----------------------------------------------------------------------------
(***************************************************************************)
(* The name that is shown, and the connections.                            *)
(***************************************************************************)
LEMMA OwnsNameStep ==
  ASSUME AppTypeOK, FundedKeyKept, DeployingAskedFor, DeployedOwns, CreatedWalletOwnsName,
         OwnersStay, [AppNext]_vars
  PROVE  CreatedWalletOwnsName'
<1> USE AppAssumption
<1>1. ASSUME service' = service PROVE CreatedWalletOwnsName'
  BY <1>1 DEF CreatedWalletOwnsName, OwnersStay
<1>2. ASSUME service'.state # "Deployed" \/ service'.key \notin Keys PROVE CreatedWalletOwnsName'
  BY <1>2 DEF CreatedWalletOwnsName
<1>3. ASSUME NEW k \in Keys, DeployResolved(k) PROVE CreatedWalletOwnsName'
  <2>1. service = [state |-> "Future", key |-> k, name |-> NoName]
    BY <1>3 DEF DeployResolved, FundedKeyKept
  <2>2. service'.key = k /\ service'.name = flow[k].name
    BY <1>3, <2>1 DEF DeployResolved, SetDeployed
  <2>3. flow[k].name \in Names /\ owner[flow[k].name] = k
    BY <1>3 DEF DeployResolved, DeployingAskedFor, DeployedOwns
  <2>4. owner' = owner
    BY <1>3 DEF DeployResolved, fvars
  <2> QED BY <2>2, <2>3, <2>4 DEF CreatedWalletOwnsName
<1>4. ASSUME NEW p \in Pages \ {"crashed"}, Load(p) PROVE CreatedWalletOwnsName'
  BY <1>2, <1>4 DEF Load, SignedOut
<1>5. ASSUME NEW k \in Keys, FutureCreated(k) PROVE CreatedWalletOwnsName'
  BY <1>1, <1>2, <1>5 DEF FutureCreated, SetFutureWallet
<1>6. ASSUME NEW a \in Attempts, RequestPosted(a) PROVE CreatedWalletOwnsName'
  <2>1. CASE service.state = "None"
    <3>1. service'.key = a
      BY <1>6, <2>1 DEF RequestPosted, Connect
    <3> QED BY <1>2, <3>1
  <2>2. CASE service.state # "None"
    BY <1>1, <1>6, <2>2 DEF RequestPosted, Connect
  <2> QED BY <2>1, <2>2
<1>7. CASE Disconnect
  BY <1>2, <1>7 DEF Disconnect, SignedOut
<1> QED
  BY <1>1, <1>3, <1>4, <1>5, <1>6, <1>7
  DEF AppNext, Flows, Sdk, OthersTakeNames, App, vars, FollowLink, GoBack, Type, TimerFires, Answer,
      Select, ClickCreate, BalanceArrived, FlowFails, ChooseTopUp, ChooseCreditCard,
      ContractResolved, AttemptFails, Approve, KeyAdded, ClickConnect, HideModal, OpenModal,
      GenerateTransaction, TransferMined, TransferFails, OnlyModal

\* What the selector shows is nothing new, nothing at all, or an answer.
LEMMA ShownStep ==
  ASSUME AppTypeOK, ConnectionsExist, OwnersStay, [AppNext]_vars
  PROVE  (selector.shown.connections \subseteq Exist)'
<1>1. selector.shown.connections \subseteq Exist /\ Exist \subseteq Exist'
  BY DEF ConnectionsExist, OwnersStay
<1> SUFFICES selector'.shown.connections \subseteq Exist \/ selector'.shown.connections \subseteq Exist'
  BY <1>1
<1>2. ASSUME selector' \in {selector, Idle} PROVE selector'.shown.connections \subseteq Exist
  BY <1>1, <1>2, IdleType
<1>3. ASSUME NEW p \in Pages, Go(p) PROVE selector'.shown.connections \subseteq Exist
  BY <1>2, <1>3, GoShows
<1>4. CASE FollowLink \/ GoBack
  <2>1. visited \subseteq Pages
    BY AppAssumption DEF AppTypeOK
  <2>2. page \in Pages
    BY DEF AppTypeOK
  <2> QED BY <1>3, <1>4, <2>1, <2>2, LinksArePages DEF FollowLink, GoBack
<1>5. ASSUME NEW text \in Texts, Type(text) PROVE selector'.shown.connections \subseteq Exist
  BY <1>5 DEF Type, Select, Nothing, AppTypeOK, Selector
<1>6. CASE TimerFires
  BY <1>1, <1>6 DEF TimerFires, Select, AppTypeOK, Selector
<1>7. ASSUME NEW text \in Texts, Answer(text) PROVE selector'.shown.connections \subseteq Exist
  <2>1. PICK actions :
          selector' = [selector EXCEPT !.asked = @ \ {text}, !.busy = FALSE,
                                       !.shown = GetSuggestions(text, Exist, actions)]
    BY <1>7 DEF Answer, Select
  <2>2. selector'.shown = GetSuggestions(text, Exist, actions)
    BY <2>1 DEF AppTypeOK, Selector
  <2> QED BY <2>2, SuggestionsOffered
<1>8. ASSUME NEW k \in Keys, DeployResolved(k) PROVE selector'.shown.connections \subseteq Exist
  <2>1. flow[k].from \in Pages
    BY DEF AppTypeOK, Flow, Pages
  <2> QED BY <1>2, <1>3, <1>8, <2>1 DEF DeployResolved
<1>9. ASSUME NEW a \in Attempts, RequestPosted(a) PROVE selector'.shown.connections \subseteq Exist
  BY <1>2, <1>3, <1>9 DEF RequestPosted, Connect, Pages
<1>10. ASSUME NEW a \in Attempts, KeyAdded(a) PROVE selector'.shown.connections \subseteq Exist
  <2>1. attempt[a].from \in Pages
    BY DEF AppTypeOK, Attempted, Pages
  <2> QED BY <1>3, <1>10, <2>1 DEF KeyAdded
<1>11. CASE Disconnect
  BY <1>3, <1>11 DEF Disconnect, Pages
<1>12. ASSUME NEW p \in Pages \ {"crashed"}, Load(p) PROVE selector'.shown.connections \subseteq Exist
  BY <1>2, <1>12 DEF Load
<1>13. CASE ChooseCreditCard
  BY <1>2, <1>13 DEF ChooseCreditCard
<1>14. CASE UNCHANGED selector
  BY <1>2, <1>14
<1> QED
  BY <1>4, <1>5, <1>6, <1>7, <1>8, <1>9, <1>10, <1>11, <1>12, <1>13, <1>14
  DEF AppNext, Flows, Sdk, OthersTakeNames, App, vars, ClickCreate, FutureCreated, BalanceArrived,
      FlowFails, ChooseTopUp, ContractResolved, AttemptFails, Approve, ClickConnect, HideModal,
      OpenModal, GenerateTransaction, TransferMined, TransferFails, OnlyModal

\* An attempt is for a name that was shown, and stays for it.
LEMMA AttemptStep ==
  ASSUME AppTypeOK, ConnectionsExist, [AppNext]_vars, NEW a \in Attempts, attempt'[a].pc # "idle"
  PROVE  attempt'[a].name \in Exist
<1>0. AttemptTypeOK /\ \A b \in Attempts : attempt[b].pc # "idle" => attempt[b].name \in Exist
  BY DEF AppTypeOK, AttemptTypeOK, ConnectionsExist
<1>1. ASSUME attempt'[a].name = attempt[a].name, attempt[a].pc # "idle"
      PROVE  attempt'[a].name \in Exist
  BY <1>0, <1>1
<1>2. ASSUME NEW b \in Attempts, NEW pc \in {"posting", "subscribed", "over"}, NEW posted \in BOOLEAN,
             Attempt(b, pc, posted), attempt[b].pc # "idle"
      PROVE  attempt'[a].name \in Exist
  BY <1>0, <1>1, <1>2, AttemptType
<1>3. ASSUME NEW b \in Attempts, NEW n \in selector.shown.connections, ClickConnect(b, n)
      PROVE  attempt'[a].name \in Exist
  BY <1>0, <1>3 DEF ClickConnect, ConnectionsExist, AttemptTypeOK
<1>4. ASSUME NEW b \in Attempts,
             ContractResolved(b) \/ RequestPosted(b) \/ AttemptFails(b) \/ KeyAdded(b)
      PROVE  attempt'[a].name \in Exist
  BY <1>2, <1>4 DEF ContractResolved, RequestPosted, Connect, AttemptFails, KeyAdded
<1>5. ASSUME NEW p \in Pages \ {"crashed"}, Load(p) PROVE attempt'[a].name \in Exist
  BY <1>0, <1>5 DEF Load, AttemptTypeOK, Attempted
<1>6. CASE UNCHANGED attempt
  BY <1>0, <1>6
<1> QED
  BY <1>3, <1>4, <1>5, <1>6
  DEF AppNext, Flows, Sdk, OthersTakeNames, App, calls, vars, FollowLink, GoBack, Type, TimerFires,
      Answer, Select, ClickCreate, FutureCreated, BalanceArrived, DeployResolved, FlowFails,
      ChooseTopUp, ChooseCreditCard, Approve, Disconnect, HideModal, OpenModal, GenerateTransaction,
      TransferMined, TransferFails, OnlyModal

-----------------------------------------------------------------------------
(***************************************************************************)
(* The theorems.                                                           *)
(***************************************************************************)
LEMMA IInvInit == AppInit => IInv
<1> SUFFICES ASSUME AppInit PROVE IInv
  OBVIOUS
<1>1. PrivatePagesHaveWallet /\ FundedKeyKept /\ DeployingAskedFor
  BY DEF AppInit, PrivatePages, PrivatePagesHaveWallet, FundedKeyKept, DeployingAskedFor
<1>2. DeployedOwns /\ CreatedWalletOwnsName
  BY DEF AppInit, FutureInit, SignedOut, DeployedOwns, CreatedWalletOwnsName
<1>3. ConnectionsExist
  BY IdleType DEF AppInit, ConnectionsExist
<1> QED BY <1>1, <1>2, <1>3, TypeInit DEF IInv

LEMMA IInvStep == IInv /\ [AppNext]_vars => IInv'
<1> SUFFICES ASSUME IInv, [AppNext]_vars PROVE IInv'
  OBVIOUS
<1>1. OwnersStay /\ DeployedOwns'
  BY PromisesStep DEF IInv, PromisesKept
<1>2. DeployingAskedFor' /\ CreatedWalletOwnsName'
  BY <1>1, DeployingStep, OwnsNameStep DEF IInv
<1>3. ConnectionsExist'
  <2>1. \A a \in Attempts : attempt'[a].pc # "idle" => attempt'[a].name \in Exist'
    BY <1>1, AttemptStep DEF IInv, OwnersStay
  <2> QED BY <1>1, <2>1, ShownStep DEF IInv, ConnectionsExist
<1> QED BY <1>1, <1>2, <1>3, TypeStep, PrivateStep, FundedStep DEF IInv

LEMMA Invariance == AppSpec => []IInv
BY IInvInit, IInvStep, PTL DEF AppSpec

\* Every value of the state is of the kind the code gives it.
THEOREM TypesHold == AppSpec => []AppTypeOK
<1>1. IInv => AppTypeOK
  BY DEF IInv
<1> QED BY <1>1, Invariance, PTL

\* No click, callback, reload or redirect shows a page of a wallet (App.tsx,
\* PrivateRoute) to a user whose WalletService has none.
THEOREM PagesHaveWallet == AppSpec => []PrivatePagesHaveWallet
<1>1. IInv => PrivatePagesHaveWallet
  BY DEF IInv
<1> QED BY <1>1, Invariance, PTL

\* WalletService keeps the key of the address that funds are awaited on until
\* the wallet is deployed, whatever onConnectionClick or a second
\* onCreateClick does meanwhile.
THEOREM KeysKept == AppSpec => []FundedKeyKept
<1>1. IInv => FundedKeyKept
  BY DEF IInv
<1> QED BY <1>1, Invariance, PTL

\* setDeployed shows the name that belongs to the wallet on chain.
THEOREM NamesOwned == AppSpec => []CreatedWalletOwnsName
<1>1. IInv => CreatedWalletOwnsName
  BY DEF IInv
<1> QED BY <1>1, Invariance, PTL

\* The connections that WalletSelector offers, and the ones asked for, are to
\* wallets that exist, however late the answers of SuggestionsService are.
THEOREM ConnectionsReachWallets == AppSpec => []ConnectionsExist
<1>1. IInv => ConnectionsExist
  BY DEF IInv
<1> QED BY <1>1, Invariance, PTL

-----------------------------------------------------------------------------
(***************************************************************************)
(* The application and the promises it is built on.                        *)
(***************************************************************************)
\* Each callback stands where its promise does.  What onCreateClick asks of the
\* SDK next is then what the promise is ready for, and a callback that is over
\* has left no promise that it still waits for.
CallbacksFollowPromises ==
  \A k \in Keys :
    /\ flow[k].pc \in {"idle", "creating"} => future[k].state = "none"
    /\ flow[k].pc = "waiting" => future[k].state \in {"waiting", "funded"}
    /\ flow[k].pc = "deploying" => future[k].state \in {"deploying", "deployed"}
    /\ flow[k].pc = "over" => future[k].state \notin Awaited

\* The same of one callback and its promise.
Follows(pc, state) ==
  /\ pc \in {"idle", "creating"} => state = "none"
  /\ pc = "waiting" => state \in {"waiting", "funded"}
  /\ pc = "deploying" => state \in {"deploying", "deployed"}
  /\ pc = "over" => state \notin Awaited

LEMMA FollowsEach ==
  /\ CallbacksFollowPromises <=> \A k \in Keys : Follows(flow[k].pc, future[k].state)
  /\ CallbacksFollowPromises' <=> \A k \in Keys : Follows(flow'[k].pc, future'[k].state)
BY DEF CallbacksFollowPromises, Follows

LEMMA FollowStep ==
  ASSUME AppTypeOK, CallbacksFollowPromises, [AppNext]_vars PROVE CallbacksFollowPromises'
<1>0. FutureTypeOK /\ FlowTypeOK
  BY DEF AppTypeOK, FutureTypeOK, FlowTypeOK
<1>1. \A k \in Keys : Follows(flow[k].pc, future[k].state)
  BY FollowsEach
<1>2. SUFFICES \A j \in Keys : Follows(flow'[j].pc, future'[j].state)
  BY FollowsEach
<1>3. CASE UNCHANGED <<flow, future>>
  BY <1>1, <1>3
<1>4. ASSUME NEW p \in Pages \ {"crashed"}, Load(p)
      PROVE  \A j \in Keys : Follows(flow'[j].pc, future'[j].state)
  BY <1>0, <1>1, <1>4 DEF Load, Forget, Awaited, Follows, FlowTypeOK, FutureTypeOK, Flow, FutureState
<1>5. ASSUME NEW k \in Keys, NEW n \in selector.shown.creations, ClickCreate(k, n)
      PROVE  \A j \in Keys : Follows(flow'[j].pc, future'[j].state)
  BY <1>0, <1>1, <1>5 DEF ClickCreate, fvars, Follows, FlowTypeOK
<1>6. ASSUME NEW k \in Keys, NEW pc \in {"waiting", "deploying", "over"}, FlowGoes(k, pc),
             \A j \in Keys \ {k} : future'[j].state = future[j].state,
             Follows(pc, future'[k].state)
      PROVE  \A j \in Keys : Follows(flow'[j].pc, future'[j].state)
  BY <1>0, <1>1, <1>6, FlowGoesType
<1>7. ASSUME NEW k \in Keys, FutureCreated(k)
      PROVE  \A j \in Keys : Follows(flow'[j].pc, future'[j].state)
  <2>1. CASE service.state = "None"
    <3>1. FlowGoes(k, "waiting") /\ Promise(k, {"none"}, "waiting")
      BY <1>7, <2>1 DEF FutureCreated, SetFutureWallet, Begin
    <3> QED BY <1>0, <1>6, <3>1, PromiseFacts DEF Follows, FutureState
  <2>2. CASE service.state # "None"
    <3>1. FlowGoes(k, "over") /\ future' = future /\ future[k].state = "none"
      BY <1>1, <1>7, <2>2 DEF FutureCreated, SetFutureWallet, fvars, Follows
    <3> QED BY <1>6, <3>1 DEF Follows, Awaited
  <2> QED BY <2>1, <2>2
<1>8. ASSUME NEW k \in Keys, Lost(k), FlowGoes(k, "over")
      PROVE  \A j \in Keys : Follows(flow'[j].pc, future'[j].state)
  BY <1>0, <1>6, <1>8, PromiseFacts DEF Lost, Follows, Awaited, FutureState
<1>9. ASSUME NEW k \in Keys, BalanceArrived(k)
      PROVE  \A j \in Keys : Follows(flow'[j].pc, future'[j].state)
  <2>1. CASE flow[k].name \in Names
    <3>1. FlowGoes(k, "deploying") /\ AskFor(k, flow[k].name)
      BY <1>9, <2>1 DEF BalanceArrived
    <3> QED BY <1>0, <1>6, <2>1, <3>1, AskForFacts DEF Follows
  <2>2. CASE flow[k].name \notin Names
    BY <1>8, <1>9, <2>2 DEF BalanceArrived
  <2> QED BY <2>1, <2>2
<1>10. ASSUME NEW k \in Keys, DeployResolved(k)
       PROVE  \A j \in Keys : Follows(flow'[j].pc, future'[j].state)
  <2>1. FlowGoes(k, "over") /\ future' = future /\ future[k].state = "deployed"
    BY <1>10 DEF DeployResolved, fvars
  <2> QED BY <1>6, <2>1 DEF Follows, Awaited
<1>11. ASSUME NEW k \in Keys, FlowFails(k)
       PROVE  \A j \in Keys : Follows(flow'[j].pc, future'[j].state)
  <2>1. CASE Lost(k)
    BY <1>8, <1>11, <2>1 DEF FlowFails
  <2>2. CASE flow[k].pc = "creating" /\ UNCHANGED fvars
    <3>1. FlowGoes(k, "over") /\ future' = future /\ future[k].state = "none"
      BY <1>1, <1>11, <2>2 DEF FlowFails, fvars, Follows
    <3> QED BY <1>6, <3>1 DEF Follows, Awaited
  <2> QED BY <1>11, <2>1, <2>2 DEF FlowFails
<1>12. ASSUME NEW k \in Keys, Sdk(k)
       PROVE  \A j \in Keys : Follows(flow'[j].pc, future'[j].state)
  <2>1. flow' = flow
    BY <1>12 DEF Sdk, App, calls
  <2>2. ASSUME NEW was \in {"waiting", "deploying"}, NEW to \in {"funded", "deployed"},
               Promise(k, {was}, to), was = "waiting" <=> to = "funded"
        PROVE  \A j \in Keys : Follows(flow'[j].pc, future'[j].state)
    <3>1. future[k].state = was /\ future'[k].state = to
      BY <1>0, <2>2, PromiseFacts DEF FutureState
    <3>2. \A j \in Keys \ {k} : future'[j].state = future[j].state
      BY <1>0, <2>2, PromiseFacts DEF FutureState
    <3>3. Follows(flow[k].pc, to)
      BY <1>1, <2>2, <3>1 DEF Follows, Awaited
    <3> QED BY <1>1, <2>1, <3>1, <3>2, <3>3
  <2>3. CASE Funded(k)
    BY <2>2, <2>3 DEF Funded
  <2>4. CASE Deployed(k)
    BY <2>2, <2>4 DEF Deployed
  <2>5. CASE Register(k)
    BY <1>3, <2>1, <2>5 DEF Register, Take
  <2> QED BY <1>12, <2>3, <2>4, <2>5 DEF Sdk
<1>13. CASE OthersTakeNames
  BY <1>3, <1>13 DEF OthersTakeNames, Elsewhere, Take, App, calls
<1> QED
  BY <1>3, <1>4, <1>5, <1>7, <1>9, <1>10, <1>11, <1>12, <1>13
  DEF AppNext, Flows, vars, fvars, calls, FollowLink, GoBack, Type, TimerFires, Answer, Select,
      ChooseTopUp, ChooseCreditCard, ContractResolved, RequestPosted, AttemptFails, Approve,
      KeyAdded, ClickConnect, Disconnect, HideModal, OpenModal, GenerateTransaction,
      TransferMined, TransferFails, OnlyModal

\* onCreateClick never asks the SDK for what its future wallet is not ready
\* for, and no click, reload or failure leaves a promise that somebody awaits
\* without the callback that does.
THEOREM CallbacksFollow == AppSpec => []CallbacksFollowPromises
<1>1. AppInit => CallbacksFollowPromises
  <2> SUFFICES ASSUME AppInit, NEW k \in Keys PROVE Follows(flow[k].pc, future[k].state)
    BY FollowsEach
  <2>1. flow[k].pc = "idle" /\ future[k].state = "none"
    BY DEF AppInit, FutureInit
  <2> QED BY <2>1 DEF Follows
<1>2. AppTypeOK /\ CallbacksFollowPromises /\ [AppNext]_vars => CallbacksFollowPromises'
  BY FollowStep
<1> QED BY <1>1, <1>2, TypesHold, PTL DEF AppSpec

\* Every step of the application, of its users and of what they start is one
\* that FutureWallets allows, or none of its business.
THEOREM AppKeepsToPromises == AppSpec => FutureWalletsSpec
<1>1. AppInit => FutureInit
  BY DEF AppInit
<1>2. [AppNext]_vars => [FutureNext]_fvars
  <2> SUFFICES ASSUME [AppNext]_vars PROVE [FutureNext]_fvars
    OBVIOUS
  <2>1. CASE \E p \in Pages \ {"crashed"} : Load(p)
    BY <2>1 DEF Load, FutureNext
  <2>2. ASSUME NEW k \in Keys, FutureCreated(k) \/ FlowFails(k) PROVE [FutureNext]_fvars
    BY <2>2 DEF FutureCreated, SetFutureWallet, FlowFails, FutureNext
  <2>3. ASSUME NEW k \in Keys, BalanceArrived(k) PROVE [FutureNext]_fvars
    BY <2>3 DEF BalanceArrived, FutureNext
  <2>4. ASSUME NEW k \in Keys, Sdk(k) PROVE [FutureNext]_fvars
    BY <2>4 DEF Sdk, FutureNext
  <2>5. CASE OthersTakeNames
    BY <2>5 DEF OthersTakeNames, FutureNext
  <2>6. CASE UNCHANGED fvars
    BY <2>6
  <2> QED
    BY <2>1, <2>2, <2>3, <2>4, <2>5, <2>6
    DEF AppNext, Flows, vars, FollowLink, GoBack, Type, TimerFires, Answer, Select, ClickCreate,
        DeployResolved, ChooseTopUp, ChooseCreditCard, ContractResolved, RequestPosted, AttemptFails,
        Approve, KeyAdded, ClickConnect, Disconnect, HideModal, OpenModal, GenerateTransaction,
        TransferMined, TransferFails, OnlyModal
<1> QED BY <1>1, <1>2, PTL DEF AppSpec, FutureWalletsSpec

\* A name that belongs to somebody belongs to them after this step.
NamesStay == \A n \in Names : owner[n] # Free => owner'[n] = owner[n]

\* FutureWallets is not too little to promise: from it alone, whatever
\* implements it, deploy resolves only on a name that is the wallet's
\* (FutureWalletFactory.ts), and no name changes hands.
THEOREM PromisesSuffice == FutureWalletsSpec => []DeployedOwns /\ [][NamesStay]_fvars
<1>1. FutureInit => FutureTypeOK /\ DeployedOwns
  BY DEF FutureInit, FutureTypeOK, FutureState, DeployedOwns
<1>2. FutureTypeOK /\ DeployedOwns /\ [FutureNext]_fvars
        => FutureTypeOK' /\ DeployedOwns' /\ [NamesStay]_fvars
  <2> SUFFICES ASSUME FutureTypeOK, DeployedOwns, [FutureNext]_fvars
               PROVE  FutureTypeOK' /\ DeployedOwns' /\ NamesStay
    OBVIOUS
  <2>1. ASSUME NEW k \in Keys, Begin(k) \/ Funded(k) \/ Lost(k)
        PROVE  FutureTypeOK' /\ DeployedOwns' /\ NamesStay
    BY <2>1, PromiseFacts DEF Begin, Funded, Lost, FutureState, DeployedOwns, NamesStay
  <2>2. ASSUME NEW k \in Keys, Deployed(k) PROVE FutureTypeOK' /\ DeployedOwns' /\ NamesStay
    BY <2>2, PromiseFacts DEF Deployed, FutureState, DeployedOwns, NamesStay
  <2>3. ASSUME NEW k \in Keys, NEW n \in Names, AskFor(k, n)
        PROVE  FutureTypeOK' /\ DeployedOwns' /\ NamesStay
    BY <2>3, AskForFacts DEF DeployedOwns, NamesStay
  <2>4. ASSUME NEW n \in Names, NEW o \in Keys \cup {Other}, Take(n, o)
        PROVE  FutureTypeOK' /\ DeployedOwns' /\ NamesStay
    BY <2>4, TakeFacts, AppAssumption DEF DeployedOwns, NamesStay
  <2>5. CASE Forget
    <3>1. FutureTypeOK' /\ owner' = owner
      BY <2>5 DEF Forget, Awaited, FutureTypeOK, FutureState
    <3>2. \A k \in Keys : future'[k].state = "deployed" => future'[k] = future[k]
      BY <2>5 DEF Forget, Awaited, FutureTypeOK
    <3> QED BY <3>1, <3>2 DEF DeployedOwns, NamesStay
  <2>6. CASE UNCHANGED fvars
    BY <2>6 DEF fvars, FutureTypeOK, DeployedOwns, NamesStay
  <2> QED BY <2>1, <2>2, <2>3, <2>4, <2>5, <2>6 DEF FutureNext, Register, Elsewhere
<1> QED BY <1>1, <1>2, PTL DEF FutureWalletsSpec
=============================================================================
