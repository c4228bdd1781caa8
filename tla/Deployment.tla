----------------------------- MODULE Deployment -----------------------------
(***************************************************************************)
(* How a wallet contract comes to exist: a client of the SDK creates a     *)
(* future wallet and waits for its funds, the relayer checks the request   *)
(* and calls the factory, the factory creates the proxy, initialises it    *)
(* and registers its ENS name in one transaction, the client watches for   *)
(* the code.  The other way, sdk.create, has the relayer deploy the proxy  *)
(* itself.  Meanwhile an operator runs the scripts that set up the ENS     *)
(* domain and take names of their own, and the relayer may restart.        *)
(*                                                                         *)
(* A wallet's address is computed from the key it is made for (create2     *)
(* with the key as salt), so a key also stands for the wallet.             *)
(***************************************************************************)
EXTENDS Naturals, FiniteSets

CONSTANTS
  Keys,         \* fresh key pairs; each makes at most one wallet
  Names,        \* labels under the one ENS domain of the relayer
  FirstStage,   \* how far the domain is set up when the relayer first starts
  Costs,        \* gas price options: the refund as a multiple of minimalAmount
  MaxEther,     \* bound: how often an address is topped up with minimalAmount;
                \* one that holds ether is sent no token, nor the other way round
  MaxRestarts   \* bound: restarts of the relayer

ASSUME DeploymentAssumption ==
  /\ FirstStage \in 1..4
  /\ 1 \in Costs /\ Costs \subseteq Nat \ {0} /\ MaxEther \in Nat /\ MaxRestarts \in Nat
  /\ IsFiniteSet(Keys)
  /\ Keys \cap {"nobody", "operator", "free", "other"} = {}
  /\ << >> \notin Names

VARIABLES
  wallet,    \* on chain: what the address of each key holds
  ens,       \* on chain: registry and resolver entry of each name
  domain,    \* on chain: how far DomainRegistrar has set up the domain
  balance,   \* on chain: what each address holds of the supported tokens
  tx,        \* the deployment transaction broadcast for each key
  granted,   \* wallets the token granting relayer has given tokens
  relayer,   \* the relayer's start, and what it has read of the domain
  request,   \* where the relayer stands with the request for each key
  client,    \* where the SDK stands with each key
  restarts   \* how often the relayer has restarted

chain == <<wallet, ens, domain, balance, tx, granted>>
dvars == <<chain, relayer, request, client, restarts>>

Nobody == "nobody"
OPERATOR == "operator"

\* What is read of a domain: the owner of its node, and its resolver.
DomainInfo == [owner : {"nobody", "operator", "registrar"}, resolver : BOOLEAN]
NoInfo == [owner |-> Nobody, resolver |-> FALSE]

\* The transactions of DomainRegistrar.start, in order: the script registers
\* the domain for itself, sets its resolver, and hands it to a new registrar.
DomainStages ==
  << NoInfo,
     [owner |-> OPERATOR, resolver |-> FALSE],
     [owner |-> OPERATOR, resolver |-> TRUE],
     [owner |-> "registrar", resolver |-> TRUE] >>
CurrentInfo == DomainStages[domain]
Ready(info) == info = DomainStages[4]

Wallet == {"none", "deployed"}
Owner == Keys \cup {Nobody, OPERATOR}
Entry == [owner : Owner, resolver : BOOLEAN, addr : Owner]
Tx == [status : {"none", "sent", "mined", "reverted"}]
DeployArgs == [name : Names, cost : Costs, info : DomainInfo]
NoArgs == [name |-> << >>, cost |-> 0, info |-> NoInfo]
Request ==
  [pc : {"none", "resolveName", "argsFor", "checkBalance", "send", "sent", "over"},
   via : {"factory", "proxy"}, args : DeployArgs \cup {NoArgs}]
\* A client is lost when its promise was rejected or its page is gone.  It
\* hangs when nothing will ever settle the promise that it waits for.
ClientPC ==
  {"none", "funding", "funded", "resolver", "owner", "posted", "observing", "deployed",
   "creating", "mining", "created", "lost", "hanging"}

DeploymentTypeOK ==
  /\ wallet \in [Keys -> Wallet]
  /\ ens \in [Names -> Entry]
  /\ domain \in DOMAIN DomainStages
  /\ balance \in [Keys -> [ether : 0..MaxEther, token : BOOLEAN]]
  /\ tx \in [Keys -> Tx]
  /\ granted \subseteq Keys
  /\ relayer \in [pc : {"resolver", "owner", "started"}, info : DomainInfo]
  /\ request \in [Keys -> Request]
  /\ client \in [Keys -> [pc : ClientPC, args : DeployArgs \cup {NoArgs}]]
  /\ restarts \in 0..MaxRestarts

DeploymentInit ==
  /\ wallet = [k \in Keys |-> "none"]
  /\ ens = [n \in Names |-> [owner |-> Nobody, resolver |-> FALSE, addr |-> Nobody]]
  /\ domain = FirstStage
  /\ balance = [k \in Keys |-> [ether |-> 0, token |-> FALSE]]
  /\ tx = [k \in Keys |-> [status |-> "none"]]
  /\ granted = {}
  /\ relayer = [pc |-> "resolver", info |-> NoInfo]
  /\ request = [k \in Keys |-> [pc |-> "none", via |-> "factory", args |-> NoArgs]]
  /\ client = [k \in Keys |-> [pc |-> "none", args |-> NoArgs]]
  /\ restarts = 0

-----------------------------------------------------------------------------
(***************************************************************************)
(* The chain.                                                              *)
(***************************************************************************)
\* DomainRegistrar sends its next transaction.
SetUpDomain ==
  /\ domain < 4
  /\ domain' = domain + 1
  /\ UNCHANGED <<wallet, ens, balance, tx, granted, relayer, request, client, restarts>>

\* ENSNameRegistrar: three transactions, each of them a state of the name.
OperatorTakesName(n) ==
  /\ Ready(CurrentInfo)
  /\ \/ /\ ens[n].owner = Nobody
        /\ ens' = [ens EXCEPT ![n].owner = OPERATOR]
     \/ /\ ens[n].owner = OPERATOR /\ ~ens[n].resolver
        /\ ens' = [ens EXCEPT ![n].resolver = TRUE]
     \/ /\ ens[n].owner = OPERATOR /\ ens[n].resolver /\ ens[n].addr = Nobody
        /\ ens' = [ens EXCEPT ![n].addr = OPERATOR]
  /\ UNCHANGED <<wallet, domain, balance, tx, granted, relayer, request, client, restarts>>

ViaProxy(k) == k \in Keys /\ request[k].via = "proxy"

\* Somebody who was given the address of a future wallet sends it ether or
\* another supported token.
TopUp(k) ==
  /\ client[k].pc # "none" /\ ~ViaProxy(k)
  /\ ~balance[k].token
  /\ \/ balance[k].ether < MaxEther /\ balance' = [balance EXCEPT ![k].ether = @ + 1]
     \/ balance[k].ether = 0 /\ balance' = [balance EXCEPT ![k].token = TRUE]
  /\ UNCHANGED <<wallet, ens, domain, tx, granted, relayer, request, client, restarts>>

\* Variant: the registrar gives a name again.
RegistrableTwice(n, info) == Ready(info)

\* FIFSRegistrar.register, and the two calls registerENS makes as the owner.
Registrable(n, info) == Ready(info) /\ ens[n].owner = Nobody
RegisterENS(k, n) == [ens EXCEPT ![n] = [owner |-> k, resolver |-> TRUE, addr |-> k]]

\* initializeWithRefund pays the deployment in ether, whichever token the
\* relayer found on the address.
\* Variant: the result of the transfer is not required.
RefundableAlways(k, cost) == TRUE
Refundable(k, cost) == balance[k].ether >= cost

\* What initializeWithENS leaves behind, and what a revert does.
InitializeWithENS(k, args) ==
  /\ wallet' = [wallet EXCEPT ![k] = "deployed"]
  /\ ens' = RegisterENS(k, args.name)
  /\ tx' = [tx EXCEPT ![k].status = "mined"]
Reverts(k) ==
  /\ tx' = [tx EXCEPT ![k].status = "reverted"]
  /\ UNCHANGED <<wallet, ens, balance>>

\* createContract: code at the address of the key, initialised and named, and
\* the relayer refunded, or no change at all.
CreateContract(k, args) ==
  IF wallet[k] = "none" /\ Registrable(args.name, args.info) /\ Refundable(k, args.cost)
  THEN InitializeWithENS(k, args) /\ balance' = [balance EXCEPT ![k].ether = @ - args.cost]
  ELSE Reverts(k)

\* The proxy deployed by the relayer: its constructor runs the initialising call.
CreateProxy(k, args) ==
  IF Registrable(args.name, args.info)
  THEN InitializeWithENS(k, args) /\ UNCHANGED balance
  ELSE Reverts(k)

Mine(k) ==
  /\ tx[k].status = "sent"
  /\ IF request[k].via = "factory"
     THEN CreateContract(k, request[k].args) ELSE CreateProxy(k, request[k].args)
  /\ UNCHANGED <<domain, granted, relayer, request, client, restarts>>

-----------------------------------------------------------------------------
(***************************************************************************)
(* The relayer: ENSService, WalletService, the hooks.                      *)
(***************************************************************************)
\* ENSService.start reads the domain while the server already answers.
StartENS ==
  /\ \/ /\ relayer.pc = "resolver"
        /\ relayer' = [pc |-> "owner", info |-> [NoInfo EXCEPT !.resolver = CurrentInfo.resolver]]
     \/ /\ relayer.pc = "owner"
        /\ relayer' = [pc |-> "started", info |-> [relayer.info EXCEPT !.owner = CurrentInfo.owner]]
  /\ UNCHANGED <<chain, request, client, restarts>>

Continue(k, from, test, to) ==
  /\ request[k].pc = from
  /\ request' = [request EXCEPT ![k].pc = IF test THEN to ELSE "over"]
  /\ UNCHANGED <<chain, relayer, client, restarts>>

\* argsFor knows no domain before ENSService has started (InvalidENSDomain).
ArgsFor == relayer.pc = "started"

\* EnsNameTaken: a resolver is all it takes.
ResolveName(k) ==
  Continue(k, "resolveName", ~ens[request[k].args.name].resolver /\ ArgsFor, "checkBalance")

\* findTokenWithRequiredBalance: any supported token will do (NotEnoughBalance).
HasRequiredBalance(k) == balance[k].ether >= 1 \/ balance[k].token

\* The signature is over the initialising call, which both sides encode
\* from what they have read of the domain (InvalidSignature).
SignedFor(k) == request[k].args.info = relayer.info

CheckBalance(k) == Continue(k, "checkBalance", HasRequiredBalance(k) /\ SignedFor(k), "send")

\* WalletService.create makes no check but argsFor, and encodes its own args.
CreateArgsFor(k) ==
  /\ request[k].pc = "argsFor"
  /\ request' = [request EXCEPT ![k] =
       IF ArgsFor
       THEN [pc |-> "send", via |-> @.via, args |-> [@.args EXCEPT !.info = relayer.info]]
       ELSE [@ EXCEPT !.pc = "over"]]
  /\ UNCHANGED <<chain, relayer, client, restarts>>

Send(k) ==
  /\ request[k].pc = "send"
  /\ request' = [request EXCEPT ![k].pc = "sent"]
  /\ tx' = [tx EXCEPT ![k].status = "sent"]
  /\ UNCHANGED <<wallet, ens, domain, balance, granted, relayer, client, restarts>>

\* The hook `created` of the relayers that give tokens to new wallets.
Hooked(k) == request[k].pc = "sent" /\ request[k].via = "proxy" /\ k \notin granted

\* Variant: the hook does not look at the status of the receipt.
GrantTokensUnchecked(k) ==
  /\ Hooked(k) /\ tx[k].status \in {"mined", "reverted"}
  /\ granted' = granted \cup {k}
  /\ UNCHANGED <<wallet, ens, domain, balance, tx, relayer, request, client, restarts>>

GrantTokens(k) ==
  /\ Hooked(k) /\ tx[k].status = "mined"
  /\ granted' = granted \cup {k}
  /\ UNCHANGED <<wallet, ens, domain, balance, tx, relayer, request, client, restarts>>

\* A query of the relayer rejects, and with it the request.
RequestFails(k) ==
  /\ request[k].pc \in {"resolveName", "checkBalance", "send"}
  /\ request' = [request EXCEPT ![k].pc = "over"]
  /\ UNCHANGED <<chain, relayer, client, restarts>>

\* A restart forgets requests, hooks and the domain, not what was broadcast.
Restart ==
  /\ restarts < MaxRestarts /\ restarts' = restarts + 1
  /\ relayer' = [pc |-> "resolver", info |-> NoInfo]
  /\ request' = [k \in Keys |->
       IF request[k].pc = "none" THEN request[k] ELSE [request[k] EXCEPT !.pc = "over"]]
  /\ UNCHANGED <<chain, client>>

-----------------------------------------------------------------------------
(***************************************************************************)
(* The client: FutureWalletFactory, its observers, sdk.create.             *)
(***************************************************************************)
Post(k, via, pc, args) ==
  request' = [request EXCEPT ![k] = [pc |-> pc, via |-> via, args |-> args]]

Advance(k, from, to) ==
  /\ client[k].pc = from
  /\ client' = [client EXCEPT ![k].pc = to]
  /\ UNCHANGED <<chain, relayer, request, restarts>>

\* createFutureWallet, once the relayer's configuration is loaded, and waitForBalance.
CreateFutureWallet(k) == Advance(k, "none", "funding")

ObserveBalance(k) == HasRequiredBalance(k) /\ Advance(k, "funding", "funded")

\* futureWallet.deploy: ENSService.argsFor reads the domain in two queries.
Deploy(k, n, cost) ==
  /\ client[k].pc = "funded"
  /\ client' = [client EXCEPT ![k] =
       [pc |-> "resolver", args |-> [name |-> n, cost |-> cost, info |-> NoInfo]]]
  /\ UNCHANGED <<chain, relayer, request, restarts>>

ReadResolver(k) ==
  /\ client[k].pc = "resolver"
  /\ client' = [client EXCEPT ![k] =
       [pc |-> "owner", args |-> [@.args EXCEPT !.info.resolver = CurrentInfo.resolver]]]
  /\ UNCHANGED <<chain, relayer, request, restarts>>

\* A domain without owner or resolver has no arguments to encode.
ReadOwnerAndPost(k) ==
  LET args == [client[k].args EXCEPT !.info.owner = CurrentInfo.owner]
      known == args.info.owner # Nobody /\ args.info.resolver
  IN /\ client[k].pc = "owner"
     /\ client' = [client EXCEPT ![k] =
          [pc |-> IF known THEN "posted" ELSE "lost", args |-> args]]
     /\ IF known THEN Post(k, "factory", "resolveName", args) ELSE request' = request
     /\ UNCHANGED <<chain, relayer, restarts>>

\* Variant: deploy does not wait for the code.
AnsweredAtOnce(k) ==
  \/ request[k].pc = "sent" /\ Advance(k, "posted", "deployed")
  \/ request[k].pc = "sent" /\ Advance(k, "creating", "mining")
  \/ request[k].pc = "over" /\ \E pc \in {"posted", "creating"} : Advance(k, pc, "lost")

\* Variant: a request that ends in an error is never answered.
AnsweredUnlessOver(k) ==
  \/ request[k].pc = "sent" /\ Advance(k, "posted", "observing")
  \/ request[k].pc = "sent" /\ Advance(k, "creating", "mining")

Answered(k) ==
  \/ request[k].pc = "sent" /\ Advance(k, "posted", "observing")
  \/ request[k].pc = "sent" /\ Advance(k, "creating", "mining")
  \/ request[k].pc = "over" /\ \E pc \in {"posted", "creating"} : Advance(k, pc, "lost")

\* DeploymentObserver finds code, whitelisted since the factory has one proxy.
ObserveDeployment(k) == wallet[k] # "none" /\ Advance(k, "observing", "deployed")

\* sdk.create(ensName) waits for the receipt and does not look at its status.
Create(k, n) ==
  /\ client[k].pc = "none"
  /\ LET args == [name |-> n, cost |-> 1, info |-> NoInfo]
     IN /\ client' = [client EXCEPT ![k] = [pc |-> "creating", args |-> args]]
        /\ Post(k, "proxy", "argsFor", args)
  /\ UNCHANGED <<chain, relayer, restarts>>

WaitForContractDeploy(k) ==
  tx[k].status \in {"mined", "reverted"} /\ Advance(k, "mining", "created")

Observing == {"funding", "observing"}

\* A query of the client rejects, and with it the promise, unless an observer
\* made it.  Or the page is closed or reloaded: the key was only in its memory.
Lose(k) ==
  /\ client[k].pc \notin {"none", "deployed", "created", "lost", "hanging"}
  /\ client' = [client EXCEPT ![k].pc = "lost"]
  /\ UNCHANGED <<chain, relayer, request, restarts>>

\* The tick of an observer rejects: nobody schedules the next one, and nobody
\* who waits for the observer hears of it.
ObserverDies(k) == \E pc \in Observing : Advance(k, pc, "hanging")

-----------------------------------------------------------------------------
Environment ==
  \/ SetUpDomain
  \/ \E n \in Names : OperatorTakesName(n)
  \/ \E k \in Keys : TopUp(k)

RelayerProgress(k) == ResolveName(k) \/ CheckBalance(k) \/ CreateArgsFor(k) \/ Send(k)
RelayerNext ==
  \/ StartENS \/ Restart
  \/ \E k \in Keys : RelayerProgress(k) \/ Mine(k) \/ GrantTokens(k) \/ RequestFails(k)

Polls(k) ==
  ObserveBalance(k) \/ ReadResolver(k) \/ ReadOwnerAndPost(k) \/ Answered(k) \/ ObserveDeployment(k)
    \/ WaitForContractDeploy(k)
ClientNext(k) ==
  \/ CreateFutureWallet(k)
  \/ \E n \in Names, cost \in Costs : Deploy(k, n, cost)
  \/ \E n \in Names : Create(k, n)
  \/ Polls(k) \/ Lose(k) \/ ObserverDies(k)

DeploymentNext == Environment \/ RelayerNext \/ \E k \in Keys : ClientNext(k)

DeploymentSpec == DeploymentInit /\ [][DeploymentNext]_dvars

\* The loops of observers tick every second, the relayer answers what it was
\* asked, miners take what was broadcast.  Nothing is assumed of people.
FairDeploymentSpec ==
  /\ DeploymentSpec
  /\ \A k \in Keys : WF_dvars(RelayerProgress(k)) /\ WF_dvars(Mine(k)) /\ WF_dvars(Polls(k))

-----------------------------------------------------------------------------
(***************************************************************************)
(* Properties.                                                             *)
(***************************************************************************)
\* A wallet contract is known by its name: whatever code is on chain has the
\* name it was deployed for, registered, resolved and addressed in the same
\* transaction, though requests for a name overlap and the operator takes names
\* step by step (ProxyCounterfactualFactory.sol:20-27).
DeployedMeansNamed ==
  \A k \in Keys : wallet[k] = "deployed" =>
    ens[request[k].args.name] = [owner |-> k, resolver |-> TRUE, addr |-> k]

\* The token granting relayer pays for wallets that exist, once each, though
\* the transaction it waits for may revert.
GrantsReachWallets == \A k \in granted : wallet[k] = "deployed"

\* What applications rely on: a deploy that resolves has the wallet own its
\* name, and no name changes hands, though two requests may both find it free.
FutureStateOf(k) ==
  CASE client[k].pc \in {"none", "creating", "mining", "created"} \/ ViaProxy(k) -> "none"
    [] client[k].pc = "funding" -> "waiting"
    [] client[k].pc \in {"resolver", "owner", "posted", "observing"} -> "deploying"
    [] client[k].pc = "hanging" -> "lost"
    [] OTHER -> client[k].pc
NameAskedFor(k) ==
  IF client[k].args = NoArgs \/ ViaProxy(k) THEN << >> ELSE client[k].args.name
OwnerOf(o) ==
  CASE o = Nobody -> "free" [] o = OPERATOR \/ ViaProxy(o) -> "other" [] OTHER -> o

Promised == INSTANCE FutureWallets WITH
  future <- [k \in Keys |-> [state |-> FutureStateOf(k), name |-> NameAskedFor(k)]],
  owner <- [n \in Names |-> OwnerOf(ens[n].owner)]
FutureWalletsPromised == Promised!FutureWalletsSpec

\* A deploy that was asked for resolves or rejects.  Two things leave its client
\* waiting for ever: a transaction that reverts after the checks of the relayer,
\* when no code comes, and an observer that died of a failing query, when nobody
\* looks for it (FutureWalletFactory.ts, ObserverRunner.ts:10-20).
DeploySettles ==
  \A k \in Keys : client[k].pc = "resolver" ~>
    (client[k].pc \in {"deployed", "lost", "hanging"} \/ tx[k].status = "reverted")
=============================================================================
