-------------------------- MODULE DeploymentProofs --------------------------
(***************************************************************************)
(* Invariants of Deployment for any keys, names, prices and bounds, and    *)
(* that it implements FutureWallets.  The inductive invariant ties what    *)
(* the client stands for to what the relayer was asked, that to what was   *)
(* broadcast, and that to what the chain holds.                            *)
(***************************************************************************)
EXTENDS Deployment, TLAPS

\* A client asks the relayer once; what it asks for is complete by then, and
\* the request is for the name the client was given.
AskedOnce ==
  \A k \in Keys :
    /\ client[k].pc \in {"none", "funding", "funded"} => client[k].args = NoArgs
    /\ client[k].pc \in {"resolver", "owner"} => client[k].args \in DeployArgs
    /\ client[k].pc \in {"none", "funding", "funded", "resolver", "owner"} => request[k].pc = "none"
    /\ client[k].pc \in {"posted", "observing", "deployed"} => request[k].pc # "none"
    /\ request[k].pc # "none" =>
         /\ request[k].args \in DeployArgs /\ client[k].args \in DeployArgs
         /\ request[k].args.name = client[k].args.name

\* A proxy is deployed for the clients of sdk.create and nobody else.
ProxyAsCreated ==
  \A k \in Keys :
    /\ request[k].pc = "none" => request[k].via = "factory"
    /\ client[k].pc \in {"creating", "mining", "created"} => request[k].via = "proxy"
    /\ request[k].via = "proxy" => client[k].pc \in {"creating", "mining", "created", "lost"}

\* A transaction is broadcast at the end of a request, and is what initialises.
SentAtTheEnd ==
  \A k \in Keys :
    /\ request[k].pc \notin {"sent", "over"} => tx[k].status = "none"
    /\ tx[k].status = "mined" <=> wallet[k] = "deployed"

\* A name that belongs to a wallet is the one that wallet was deployed for.
NamedMeansDeployed ==
  \A n \in Names : \A k \in Keys : ens[n].owner = k =>
    wallet[k] = "deployed" /\ request[k].args.name = n

IInv ==
  /\ DeploymentTypeOK
  /\ AskedOnce /\ ProxyAsCreated /\ SentAtTheEnd
  /\ DeployedMeansNamed /\ NamedMeansDeployed /\ GrantsReachWallets

-----------------------------------------------------------------------------
\* What is read of the domain is always one of its four stages.
LEMMA DomainFacts ==
  /\ DOMAIN DomainStages = 1..4
  /\ \A i \in 1..4 : DomainStages[i] \in DomainInfo
  /\ NoInfo \in DomainInfo
BY DEF DomainStages, DomainInfo, NoInfo, Nobody, OPERATOR

LEMMA TypeInit == DeploymentInit => DeploymentTypeOK
BY DeploymentAssumption, DomainFacts
DEF DeploymentInit, DeploymentTypeOK, Owner, Entry, Tx, DeployArgs, NoArgs, NoInfo, Request, ClientPC,
    Wallet, DomainInfo, chain, Nobody, OPERATOR

\* The loops of a client only move its program counter.
LEMMA AdvanceType ==
  ASSUME DeploymentTypeOK, NEW k \in Keys, NEW from, NEW to \in ClientPC, Advance(k, from, to)
  PROVE  DeploymentTypeOK'
BY DEF Advance, DeploymentTypeOK, chain

\* The checks of the relayer only move the program counter of a request.
LEMMA ContinueType ==
  ASSUME DeploymentTypeOK, NEW k \in Keys, NEW pc \in {"checkBalance", "send", "sent", "over"},
         request' = [request EXCEPT ![k].pc = pc]
  PROVE  request' \in [Keys -> Request]
BY DEF DeploymentTypeOK, Request

\* A deployment that succeeds sets the wallet, its name and the transaction,
\* and pays the relayer from what the address holds.
LEMMA MineType ==
  ASSUME DeploymentTypeOK, AskedOnce, NEW k \in Keys, Mine(k), request[k].pc # "none"
  PROVE  /\ wallet' \in [Keys -> Wallet]
         /\ ens' \in [Names -> Entry]
         /\ balance' \in [Keys -> [ether : 0..MaxEther, token : BOOLEAN]]
         /\ tx' \in [Keys -> Tx]
<1> DEFINE args == request[k].args
<1>1. args \in DeployArgs
  BY DEF AskedOnce
<1>2. args.name \in Names /\ args.cost \in Nat \ {0}
  BY <1>1, DeploymentAssumption DEF DeployArgs
<1> HIDE DEF args
<1>3. CASE InitializeWithENS(k, args) /\ UNCHANGED balance
  BY <1>2, <1>3 DEF InitializeWithENS, RegisterENS, DeploymentTypeOK, Wallet, Entry, Owner, Tx
<1>4. CASE /\ Refundable(k, args.cost)
           /\ InitializeWithENS(k, args) /\ balance' = [balance EXCEPT ![k].ether = @ - args.cost]
  <2>1. balance' \in [Keys -> [ether : 0..MaxEther, token : BOOLEAN]]
    <3>1. balance \in [Keys -> [ether : 0..MaxEther, token : BOOLEAN]]
      BY DEF DeploymentTypeOK
    <3>2. balance[k].ether - args.cost \in 0..MaxEther
      BY <1>2, <1>4, <3>1, DeploymentAssumption DEF Refundable
    <3> QED BY <1>4, <3>1, <3>2
  <2> QED BY <1>2, <1>4, <2>1
          DEF InitializeWithENS, RegisterENS, DeploymentTypeOK, Wallet, Entry, Owner, Tx
<1>5. CASE Reverts(k)
  BY <1>5 DEF Reverts, DeploymentTypeOK, Tx
<1> QED BY <1>3, <1>4, <1>5 DEF args, Mine, CreateContract, CreateProxy

LEMMA TypeStep ==
  DeploymentTypeOK /\ AskedOnce /\ SentAtTheEnd /\ [DeploymentNext]_dvars => DeploymentTypeOK'
<1> SUFFICES ASSUME DeploymentTypeOK, AskedOnce, SentAtTheEnd, [DeploymentNext]_dvars
             PROVE  DeploymentTypeOK'
  OBVIOUS
<1> USE DeploymentAssumption, DomainFacts
<1>1. CASE SetUpDomain
  BY <1>1 DEF SetUpDomain, DeploymentTypeOK, chain
<1>2. ASSUME NEW n \in Names, OperatorTakesName(n) PROVE DeploymentTypeOK'
  <2>1. OPERATOR \in Owner
    BY DEF Owner
  <2>2. ens \in [Names -> Entry]
    BY DEF DeploymentTypeOK
  <2>3. ens' \in [Names -> Entry]
    <3>1. CASE ens' = [ens EXCEPT ![n].owner = OPERATOR]
      BY <2>1, <2>2, <3>1 DEF Entry
    <3>2. CASE ens' = [ens EXCEPT ![n].resolver = TRUE]
      BY <2>2, <3>2 DEF Entry
    <3>3. CASE ens' = [ens EXCEPT ![n].addr = OPERATOR]
      BY <2>1, <2>2, <3>3 DEF Entry
    <3> QED BY <1>2, <3>1, <3>2, <3>3 DEF OperatorTakesName
  <2> QED BY <1>2, <2>3 DEF OperatorTakesName, DeploymentTypeOK
<1>3. CASE StartENS
  <2>1. CurrentInfo \in DomainInfo
    BY DEF CurrentInfo, DeploymentTypeOK
  <2>2. relayer' \in [pc : {"resolver", "owner", "started"}, info : DomainInfo]
    <3>1. relayer \in [pc : {"resolver", "owner", "started"}, info : DomainInfo]
      BY DEF DeploymentTypeOK
    <3>2. /\ [NoInfo EXCEPT !.resolver = CurrentInfo.resolver] \in DomainInfo
          /\ [relayer.info EXCEPT !.owner = CurrentInfo.owner] \in DomainInfo
      BY <2>1, <3>1 DEF DomainInfo
    <3> QED BY <1>3, <3>2 DEF StartENS
  <2> QED BY <1>3, <2>2 DEF StartENS, DeploymentTypeOK, chain
<1>4. CASE Restart
  <2>1. request' \in [Keys -> Request]
    <3>1. request \in [Keys -> Request]
      BY DEF DeploymentTypeOK
    <3>2. \A k \in Keys : [request[k] EXCEPT !.pc = "over"] \in Request
      BY <3>1 DEF Request
    <3> QED BY <1>4, <3>1, <3>2 DEF Restart
  <2> QED BY <1>4, <2>1 DEF Restart, DeploymentTypeOK, chain
<1>5. ASSUME NEW k \in Keys, TopUp(k) PROVE DeploymentTypeOK'
  <2>1. balance' \in [Keys -> [ether : 0..MaxEther, token : BOOLEAN]]
    <3>1. balance \in [Keys -> [ether : 0..MaxEther, token : BOOLEAN]]
      BY DEF DeploymentTypeOK
    <3>2. CASE balance[k].ether < MaxEther /\ balance' = [balance EXCEPT ![k].ether = @ + 1]
      BY <3>1, <3>2
    <3>3. CASE balance' = [balance EXCEPT ![k].token = TRUE]
      BY <3>1, <3>3
    <3> QED BY <1>5, <3>2, <3>3 DEF TopUp
  <2> QED BY <1>5, <2>1 DEF TopUp, DeploymentTypeOK
<1>6. ASSUME NEW k \in Keys, Mine(k) PROVE DeploymentTypeOK'
  <2>1. request[k].pc # "none"
    BY <1>6 DEF Mine, SentAtTheEnd
  <2> QED BY <1>6, <2>1, MineType DEF Mine, DeploymentTypeOK
<1>7. ASSUME NEW k \in Keys, ResolveName(k) PROVE DeploymentTypeOK'
  BY <1>7, ContinueType DEF ResolveName, Continue, DeploymentTypeOK, chain
<1>8. ASSUME NEW k \in Keys, CheckBalance(k) PROVE DeploymentTypeOK'
  BY <1>8, ContinueType DEF CheckBalance, Continue, DeploymentTypeOK, chain
<1>9. ASSUME NEW k \in Keys, CreateArgsFor(k) PROVE DeploymentTypeOK'
  <2>1. request[k].args \in DeployArgs
    BY <1>9 DEF CreateArgsFor, AskedOnce
  <2>2. [request[k].args EXCEPT !.info = relayer.info] \in DeployArgs
    BY <2>1 DEF DeployArgs, DeploymentTypeOK
  <2>3. request' \in [Keys -> Request]
    <3>1. request \in [Keys -> Request]
      BY DEF DeploymentTypeOK
    <3>2. [pc |-> "send", via |-> request[k].via,
           args |-> [request[k].args EXCEPT !.info = relayer.info]] \in Request
      BY <2>2, <3>1 DEF Request
    <3>3. [request[k] EXCEPT !.pc = "over"] \in Request
      BY <3>1 DEF Request
    <3> QED BY <1>9, <3>1, <3>2, <3>3 DEF CreateArgsFor
  <2> QED BY <1>9, <2>3 DEF CreateArgsFor, DeploymentTypeOK, chain
<1>10. ASSUME NEW k \in Keys, Send(k) PROVE DeploymentTypeOK'
  <2>1. tx' \in [Keys -> Tx]
    BY <1>10 DEF Send, DeploymentTypeOK, Tx
  <2> QED BY <1>10, <2>1, ContinueType DEF Send, DeploymentTypeOK, chain
<1>11. ASSUME NEW k \in Keys, GrantTokens(k) PROVE DeploymentTypeOK'
  BY <1>11 DEF GrantTokens, Hooked, DeploymentTypeOK, chain
<1>12. ASSUME NEW k \in Keys, RequestFails(k) PROVE DeploymentTypeOK'
  BY <1>12, ContinueType DEF RequestFails, DeploymentTypeOK, chain
<1>13. ASSUME NEW k \in Keys, CreateFutureWallet(k) PROVE DeploymentTypeOK'
  BY <1>13, AdvanceType DEF CreateFutureWallet, ClientPC
<1>14. ASSUME NEW k \in Keys, ObserveBalance(k) PROVE DeploymentTypeOK'
  BY <1>14, AdvanceType DEF ObserveBalance, ClientPC
<1>15. ASSUME NEW k \in Keys, ReadResolver(k) PROVE DeploymentTypeOK'
  <2>1. client[k].args \in DeployArgs /\ CurrentInfo \in DomainInfo
    BY <1>15 DEF ReadResolver, AskedOnce, CurrentInfo, DeploymentTypeOK
  <2>2. [client[k].args EXCEPT !.info.resolver = CurrentInfo.resolver] \in DeployArgs
    BY <2>1 DEF DeployArgs, DomainInfo
  <2>3. client' \in [Keys -> [pc : ClientPC, args : DeployArgs \cup {NoArgs}]]
    <3>1. client \in [Keys -> [pc : ClientPC, args : DeployArgs \cup {NoArgs}]]
      BY DEF DeploymentTypeOK
    <3> QED BY <1>15, <2>2, <3>1 DEF ReadResolver, ClientPC
  <2> QED BY <1>15, <2>3 DEF ReadResolver, DeploymentTypeOK, chain
<1>16. ASSUME NEW k \in Keys, ReadOwnerAndPost(k) PROVE DeploymentTypeOK'
  <2> DEFINE args == [client[k].args EXCEPT !.info.owner = CurrentInfo.owner]
  <2>1. client[k].args \in DeployArgs /\ CurrentInfo \in DomainInfo
    BY <1>16 DEF ReadOwnerAndPost, AskedOnce, CurrentInfo, DeploymentTypeOK
  <2>2. args \in DeployArgs
    BY <2>1 DEF DeployArgs, DomainInfo
  <2> HIDE DEF args
  <2>3. client' \in [Keys -> [pc : ClientPC, args : DeployArgs \cup {NoArgs}]]
    BY <1>16, <2>2 DEF args, ReadOwnerAndPost, DeploymentTypeOK, ClientPC
  <2>4. request' \in [Keys -> Request]
    <3>1. request \in [Keys -> Request]
      BY DEF DeploymentTypeOK
    <3>2. [pc |-> "resolveName", via |-> "factory", args |-> args] \in Request
      BY <2>2 DEF Request
    <3> QED BY <1>16, <3>1, <3>2 DEF args, ReadOwnerAndPost, Post
  <2> QED BY <1>16, <2>3, <2>4 DEF ReadOwnerAndPost, DeploymentTypeOK, chain
<1>17. ASSUME NEW k \in Keys, Answered(k) PROVE DeploymentTypeOK'
  BY <1>17, AdvanceType DEF Answered, ClientPC
<1>18. ASSUME NEW k \in Keys, ObserveDeployment(k) PROVE DeploymentTypeOK'
  BY <1>18, AdvanceType DEF ObserveDeployment, ClientPC
<1>19. ASSUME NEW k \in Keys, WaitForContractDeploy(k) PROVE DeploymentTypeOK'
  BY <1>19, AdvanceType DEF WaitForContractDeploy, ClientPC
<1>20. ASSUME NEW k \in Keys, Lose(k) PROVE DeploymentTypeOK'
  <2>1. Advance(k, client[k].pc, "lost")
    BY <1>20 DEF Lose, Advance
  <2> QED BY <2>1, AdvanceType DEF ClientPC
<1>24. ASSUME NEW k \in Keys, ObserverDies(k) PROVE DeploymentTypeOK'
  BY <1>24, AdvanceType DEF ObserverDies, ClientPC
<1>21. ASSUME NEW k \in Keys, NEW n \in Names, NEW cost \in Costs, Deploy(k, n, cost)
       PROVE  DeploymentTypeOK'
  <2>1. [name |-> n, cost |-> cost, info |-> NoInfo] \in DeployArgs
    BY DEF DeployArgs
  <2> QED BY <1>21, <2>1 DEF Deploy, DeploymentTypeOK, chain, ClientPC
<1>22. ASSUME NEW k \in Keys, NEW n \in Names, Create(k, n) PROVE DeploymentTypeOK'
  <2>1. [name |-> n, cost |-> 1, info |-> NoInfo] \in DeployArgs
    BY DEF DeployArgs
  <2> QED BY <1>22, <2>1 DEF Create, Post, DeploymentTypeOK, chain, ClientPC, Request
<1>23. CASE UNCHANGED dvars
  BY <1>23 DEF dvars, DeploymentTypeOK, chain
<1> QED
  BY <1>1, <1>2, <1>3, <1>4, <1>5, <1>6, <1>7, <1>8, <1>9, <1>10, <1>11, <1>12, <1>13,
     <1>14, <1>15, <1>16, <1>17, <1>18, <1>19, <1>20, <1>21, <1>22, <1>23, <1>24
  DEF DeploymentNext, Environment, RelayerNext, RelayerProgress, ClientNext, Polls

-----------------------------------------------------------------------------
\* What a step does to the program counters of one client, one request and
\* one transaction.
ClientTo(k, to) == client' = [client EXCEPT ![k].pc = to]
RequestTo(k, to) == request' = [request EXCEPT ![k].pc = to]
TxTo(k, to) == tx' = [tx EXCEPT ![k].status = to]

LEMMA ClientMoves ==
  ASSUME DeploymentTypeOK, NEW k \in Keys, NEW to, ClientTo(k, to)
  PROVE  \A j \in Keys : /\ client'[j].args = client[j].args
                         /\ client'[j].pc = IF j = k THEN to ELSE client[j].pc
<1>1. client \in [Keys -> [pc : ClientPC, args : DeployArgs \cup {NoArgs}]]
  BY DEF DeploymentTypeOK
<1> QED BY <1>1 DEF ClientTo

LEMMA RequestMoves ==
  ASSUME DeploymentTypeOK, NEW k \in Keys, NEW to, RequestTo(k, to)
  PROVE  \A j \in Keys : /\ request'[j].args = request[j].args
                         /\ request'[j].via = request[j].via
                         /\ request'[j].pc = IF j = k THEN to ELSE request[j].pc
<1>1. request \in [Keys -> Request]
  BY DEF DeploymentTypeOK
<1> QED BY <1>1 DEF Request, RequestTo

LEMMA TxMoves ==
  ASSUME DeploymentTypeOK, NEW k \in Keys, NEW to, TxTo(k, to)
  PROVE  \A j \in Keys : tx'[j].status = IF j = k THEN to ELSE tx[j].status
<1>1. tx \in [Keys -> Tx]
  BY DEF DeploymentTypeOK
<1> QED BY <1>1 DEF Tx, TxTo

\* What holds of the chain stands while only clients and requests move.
LEMMA ChainStands ==
  ASSUME IInv, UNCHANGED <<wallet, ens, granted>>,
         \A k \in Keys : request[k].pc # "none" => request'[k].args.name = request[k].args.name
  PROVE  /\ DeployedMeansNamed'
         /\ NamedMeansDeployed' /\ GrantsReachWallets'
<1>1. \A k \in Keys : wallet[k] = "deployed" => request[k].pc # "none"
  BY DEF IInv, SentAtTheEnd
<1> QED BY <1>1 DEF IInv, DeployedMeansNamed, NamedMeansDeployed,
                          GrantsReachWallets

\* A client that moves on without asking keeps the invariant, if where it
\* stands agrees with what the relayer was asked.
LEMMA AdvanceInv ==
  ASSUME IInv, DeploymentTypeOK', NEW k \in Keys, NEW from, NEW to, Advance(k, from, to),
         \/ from \in {"none", "funding"} /\ to \in {"funding", "funded"}
         \/ from \in {"posted", "observing"} /\ to \in {"observing", "deployed"}
         \/ from \in {"creating", "mining"} /\ to \in {"mining", "created"}
         \/ to = "lost"
         \/ from \in Observing /\ to = "hanging"
  PROVE  IInv'
<1>1. /\ client[k].pc = from
      /\ \A j \in Keys : /\ client'[j].args = client[j].args
                         /\ client'[j].pc = IF j = k THEN to ELSE client[j].pc
      /\ UNCHANGED <<wallet, ens, granted, tx, request>>
  <2>1. DeploymentTypeOK /\ client[k].pc = from /\ ClientTo(k, to)
    BY DEF Advance, IInv, ClientTo
  <2>2. UNCHANGED <<wallet, ens, granted, tx, request>>
    BY DEF Advance, chain
  <2> QED BY <2>1, <2>2, ClientMoves
<1>2. AskedOnce'
  BY <1>1 DEF IInv, AskedOnce
<1>3. ProxyAsCreated'
  <2>1. ASSUME to = "hanging" PROVE request[k].via # "proxy"
    BY <1>1, <2>1 DEF IInv, ProxyAsCreated, Observing
  <2> QED BY <1>1, <2>1 DEF IInv, ProxyAsCreated
<1>4. SentAtTheEnd'
  BY <1>1 DEF IInv, SentAtTheEnd
<1> QED BY <1>1, <1>2, <1>3, <1>4, ChainStands DEF IInv

\* So does a request that was posted and moves on without being sent.
LEMMA RequestInv ==
  ASSUME IInv, DeploymentTypeOK', NEW k \in Keys, NEW to \in {"checkBalance", "send", "over"},
         request[k].pc \notin {"none", "sent", "over"},
         RequestTo(k, to), UNCHANGED <<chain, client>>
  PROVE  IInv'
<1>1. /\ \A j \in Keys : /\ request'[j].args = request[j].args
                         /\ request'[j].via = request[j].via
                         /\ request'[j].pc = IF j = k THEN to ELSE request[j].pc
      /\ UNCHANGED <<wallet, ens, granted, tx, client>>
  <2>1. DeploymentTypeOK
    BY DEF IInv
  <2>2. UNCHANGED <<wallet, ens, granted, tx, client>>
    BY DEF chain
  <2> QED BY <2>1, <2>2, RequestMoves
<1>2. AskedOnce'
  BY <1>1 DEF IInv, AskedOnce
<1>3. ProxyAsCreated'
  BY <1>1 DEF IInv, ProxyAsCreated
<1>4. SentAtTheEnd'
  BY <1>1 DEF IInv, SentAtTheEnd
<1> QED BY <1>1, <1>2, <1>3, <1>4, ChainStands DEF IInv

\* A deployment that succeeds gives the key a name that nobody owned, and was
\* broadcast once: the key had no wallet before.
LEMMA MineInv ==
  ASSUME IInv, DeploymentTypeOK', NEW k \in Keys, Mine(k)
  PROVE  IInv'
<1> DEFINE n == request[k].args.name
<1>1. /\ request[k].pc \in {"sent", "over"} /\ n \in Names
      /\ tx[k].status = "sent" /\ wallet[k] # "deployed"
  BY DEF Mine, IInv, AskedOnce, SentAtTheEnd, DeployArgs
<1>2. AskedOnce' /\ ProxyAsCreated'
  BY DEF Mine, IInv, AskedOnce, ProxyAsCreated
<1>3. CASE /\ ens[n].owner = Nobody /\ InitializeWithENS(k, request[k].args)
  <2>1. ens' = [ens EXCEPT ![n] = [owner |-> k, resolver |-> TRUE, addr |-> k]]
    BY <1>3 DEF InitializeWithENS, RegisterENS
  <2>2. wallet' = [wallet EXCEPT ![k] = "deployed"] /\ TxTo(k, "mined")
    BY <1>3 DEF InitializeWithENS, TxTo
  <2>3. wallet \in [Keys -> Wallet] /\ ens \in [Names -> Entry] /\ DeploymentTypeOK
    BY DEF IInv, DeploymentTypeOK
  <2>4. UNCHANGED <<request, granted>>
    BY DEF Mine
  <2> HIDE DEF n
  <2>5. \A j \in Keys : tx'[j].status = IF j = k THEN "mined" ELSE tx[j].status
    BY <2>2, <2>3, TxMoves
  <2>6. SentAtTheEnd'
    BY <1>1, <2>2, <2>3, <2>4, <2>5 DEF IInv, SentAtTheEnd
  <2>7. GrantsReachWallets'
    BY <1>1, <2>2, <2>3, <2>4 DEF IInv, GrantsReachWallets
  <2>8. DeployedMeansNamed'
    <3> SUFFICES ASSUME NEW j \in Keys, wallet'[j] = "deployed"
                 PROVE  ens'[request[j].args.name] = [owner |-> j, resolver |-> TRUE, addr |-> j]
      BY <2>4 DEF DeployedMeansNamed
    <3>1. CASE j = k
      BY <1>1, <2>1, <2>3, <3>1 DEF n
    <3>2. CASE j # k
      <4>1. ens[request[j].args.name] = [owner |-> j, resolver |-> TRUE, addr |-> j]
        BY <2>2, <2>3, <3>2 DEF IInv, DeployedMeansNamed
      <4>2. j # Nobody
        BY DeploymentAssumption DEF Nobody
      <4> QED BY <1>3, <2>1, <2>3, <4>1, <4>2
    <3> QED BY <3>1, <3>2
  <2>9. NamedMeansDeployed'
    BY <1>1, <2>1, <2>2, <2>3, <2>4 DEF IInv, NamedMeansDeployed, n
  <2> QED BY <1>2, <2>6, <2>7, <2>8, <2>9 DEF IInv
<1>4. CASE Reverts(k)
  <2>1. TxTo(k, "reverted") /\ UNCHANGED <<wallet, ens, granted, request>> /\ DeploymentTypeOK
    BY <1>4 DEF Reverts, TxTo, Mine, IInv
  <2>2. \A j \in Keys : tx'[j].status = IF j = k THEN "reverted" ELSE tx[j].status
    BY <2>1, TxMoves
  <2>3. SentAtTheEnd'
    BY <1>1, <2>1, <2>2 DEF IInv, SentAtTheEnd
  <2> QED BY <1>2, <2>1, <2>3, ChainStands DEF IInv
<1> QED BY <1>3, <1>4 DEF Mine, CreateContract, CreateProxy, Registrable

\* The operator takes names that nobody owns, and sets up those it owns.
LEMMA OperatorInv ==
  ASSUME IInv, DeploymentTypeOK', NEW n \in Names, OperatorTakesName(n)
  PROVE  IInv'
<1>1. \A k \in Keys : k # Nobody /\ k # OPERATOR
  BY DeploymentAssumption DEF Nobody, OPERATOR
<1>2. ens \in [Names -> Entry]
  BY DEF IInv, DeploymentTypeOK
<1>3. /\ ens[n].owner \in {Nobody, OPERATOR} /\ ens'[n].owner = OPERATOR
      /\ \A m \in Names : m # n => ens'[m] = ens[m]
  BY <1>2 DEF OperatorTakesName, Entry
<1>4. UNCHANGED <<wallet, tx, granted, request, client>>
  BY DEF OperatorTakesName
<1>5. AskedOnce' /\ ProxyAsCreated' /\ SentAtTheEnd' /\ GrantsReachWallets'
  BY <1>4 DEF IInv, AskedOnce, ProxyAsCreated, SentAtTheEnd, GrantsReachWallets
<1>6. DeployedMeansNamed'
  <2>1. \A k \in Keys : wallet[k] = "deployed" => request[k].args.name \in Names
    BY DEF IInv, SentAtTheEnd, AskedOnce, DeployArgs
  <2> QED BY <1>1, <1>3, <1>4, <2>1 DEF IInv, DeployedMeansNamed
<1>7. NamedMeansDeployed'
  BY <1>1, <1>3, <1>4 DEF IInv, NamedMeansDeployed
<1> QED BY <1>5, <1>6, <1>7 DEF IInv

\* A request is posted once for a key, by a client that had asked for nothing.
LEMMA PostInv ==
  ASSUME IInv, DeploymentTypeOK', NEW k \in Keys, request[k].pc = "none",
         NEW args \in DeployArgs, NEW pc, NEW via,
         \/ /\ pc = "resolveName" /\ via = "factory"
            /\ client' = [client EXCEPT ![k] = [pc |-> "posted", args |-> args]]
         \/ /\ pc = "argsFor" /\ via = "proxy"
            /\ client' = [client EXCEPT ![k] = [pc |-> "creating", args |-> args]],
         Post(k, via, pc, args), UNCHANGED chain
  PROVE  IInv'
<1>1. client \in [Keys -> [pc : ClientPC, args : DeployArgs \cup {NoArgs}]] /\ request \in [Keys -> Request]
  BY DEF IInv, DeploymentTypeOK
<1>2. /\ request'[k] = [pc |-> pc, via |-> via, args |-> args]
      /\ client'[k].args = args
      /\ client'[k].pc = IF via = "proxy" THEN "creating" ELSE "posted"
      /\ \A j \in Keys : j # k => request'[j] = request[j] /\ client'[j] = client[j]
  BY <1>1 DEF Post
<1>3. UNCHANGED <<wallet, ens, granted, tx>>
  BY DEF chain
<1>4. AskedOnce'
  BY <1>2 DEF IInv, AskedOnce
<1>5. ProxyAsCreated'
  BY <1>2 DEF IInv, ProxyAsCreated
<1>6. SentAtTheEnd'
  BY <1>2, <1>3 DEF IInv, SentAtTheEnd
<1> QED BY <1>2, <1>3, <1>4, <1>5, <1>6, ChainStands DEF IInv

-----------------------------------------------------------------------------
LEMMA InitInv == DeploymentInit => IInv
<1> SUFFICES ASSUME DeploymentInit PROVE IInv
  OBVIOUS
<1>1. AskedOnce /\ ProxyAsCreated /\ SentAtTheEnd
  BY DEF DeploymentInit, AskedOnce, ProxyAsCreated, SentAtTheEnd
<1>2. DeployedMeansNamed /\ GrantsReachWallets
  BY DEF DeploymentInit, DeployedMeansNamed, GrantsReachWallets
<1>3. NamedMeansDeployed
  BY DeploymentAssumption DEF DeploymentInit, NamedMeansDeployed, Nobody
<1> QED BY TypeInit, <1>1, <1>2, <1>3 DEF IInv

\* Every step keeps the invariant, and so does a stuttering one.
LEMMA StepInv == IInv /\ [DeploymentNext]_dvars => IInv'
<1> SUFFICES ASSUME IInv, [DeploymentNext]_dvars PROVE IInv'
  OBVIOUS
<1>0. DeploymentTypeOK'
  BY TypeStep DEF IInv
<1>1. CASE SetUpDomain
  BY <1>0, <1>1, ChainStands
  DEF SetUpDomain, IInv, AskedOnce, ProxyAsCreated, SentAtTheEnd
<1>2. ASSUME NEW n \in Names, OperatorTakesName(n) PROVE IInv'
  BY <1>0, <1>2, OperatorInv
<1>3. CASE StartENS
  BY <1>0, <1>3, ChainStands
  DEF StartENS, chain, IInv, AskedOnce, ProxyAsCreated, SentAtTheEnd
<1>4. CASE Restart
  <2>1. request \in [Keys -> Request]
    BY DEF IInv, DeploymentTypeOK
  <2>2. \A k \in Keys : /\ request'[k].args = request[k].args /\ request'[k].via = request[k].via
                        /\ request'[k].pc = IF request[k].pc = "none" THEN "none" ELSE "over"
    BY <1>4, <2>1 DEF Restart, Request
  <2>3. UNCHANGED <<wallet, ens, tx, granted, client>>
    BY <1>4 DEF Restart, chain
  <2>4. AskedOnce' /\ ProxyAsCreated'
    BY <2>2, <2>3 DEF IInv, AskedOnce, ProxyAsCreated
  <2>5. SentAtTheEnd'
    BY <2>2, <2>3 DEF IInv, SentAtTheEnd
  <2> QED BY <1>0, <2>2, <2>3, <2>4, <2>5, ChainStands DEF IInv
<1>5. ASSUME NEW k \in Keys, TopUp(k) PROVE IInv'
  BY <1>0, <1>5, ChainStands DEF TopUp, IInv, AskedOnce, ProxyAsCreated, SentAtTheEnd
<1>6. ASSUME NEW k \in Keys, Mine(k) PROVE IInv'
  BY <1>0, <1>6, MineInv
<1>7. ASSUME NEW k \in Keys, ResolveName(k) PROVE IInv'
  BY <1>0, <1>7, RequestInv DEF ResolveName, Continue, RequestTo
<1>8. ASSUME NEW k \in Keys, CheckBalance(k) PROVE IInv'
  BY <1>0, <1>8, RequestInv DEF CheckBalance, Continue, RequestTo
<1>9. ASSUME NEW k \in Keys, CreateArgsFor(k) PROVE IInv'
  <2>1. request \in [Keys -> Request] /\ request[k].args \in DeployArgs
    BY <1>9 DEF CreateArgsFor, IInv, DeploymentTypeOK, AskedOnce
  <2>2. /\ request'[k].args.name = request[k].args.name /\ request'[k].via = request[k].via
        /\ request'[k].args \in DeployArgs /\ request'[k].pc \in {"send", "over"}
        /\ request[k].pc = "argsFor"
        /\ \A j \in Keys : j # k => request'[j] = request[j]
    <3>1. relayer.info \in DomainInfo
      BY DEF IInv, DeploymentTypeOK
    <3>2. /\ [request[k].args EXCEPT !.info = relayer.info] \in DeployArgs
          /\ [request[k].args EXCEPT !.info = relayer.info].name = request[k].args.name
      BY <2>1, <3>1 DEF DeployArgs
    <3> QED BY <1>9, <2>1, <3>2 DEF CreateArgsFor, Request
  <2>3. UNCHANGED <<wallet, ens, tx, granted, client>>
    BY <1>9 DEF CreateArgsFor, chain
  <2>4. AskedOnce'
    BY <2>2, <2>3 DEF IInv, AskedOnce
  <2>5. ProxyAsCreated'
    BY <2>2, <2>3 DEF IInv, ProxyAsCreated
  <2>6. SentAtTheEnd'
    BY <2>2, <2>3 DEF IInv, SentAtTheEnd
  <2> QED BY <1>0, <2>2, <2>3, <2>4, <2>5, <2>6, ChainStands DEF IInv
<1>10. ASSUME NEW k \in Keys, Send(k) PROVE IInv'
  <2>1. request[k].pc = "send" /\ RequestTo(k, "sent") /\ TxTo(k, "sent") /\ DeploymentTypeOK
    BY <1>10 DEF Send, RequestTo, TxTo, IInv
  <2>2. /\ \A j \in Keys : /\ request'[j].args = request[j].args
                           /\ request'[j].via = request[j].via
                           /\ request'[j].pc = IF j = k THEN "sent" ELSE request[j].pc
        /\ \A j \in Keys : tx'[j].status = IF j = k THEN "sent" ELSE tx[j].status
    BY <2>1, RequestMoves, TxMoves
  <2>3. UNCHANGED <<wallet, ens, granted, client>>
    BY <1>10 DEF Send
  <2>4. AskedOnce' /\ ProxyAsCreated'
    BY <2>1, <2>2, <2>3 DEF IInv, AskedOnce, ProxyAsCreated
  <2>5. SentAtTheEnd'
    BY <2>1, <2>2, <2>3 DEF IInv, SentAtTheEnd
  <2> QED BY <1>0, <2>2, <2>3, <2>4, <2>5, ChainStands DEF IInv
<1>11. ASSUME NEW k \in Keys, GrantTokens(k) PROVE IInv'
  BY <1>0, <1>11 DEF GrantTokens, IInv, AskedOnce, ProxyAsCreated, SentAtTheEnd,
     DeployedMeansNamed, NamedMeansDeployed, GrantsReachWallets
<1>12. ASSUME NEW k \in Keys, RequestFails(k) PROVE IInv'
  BY <1>0, <1>12, RequestInv DEF RequestFails, RequestTo
<1>13. ASSUME NEW k \in Keys, CreateFutureWallet(k) PROVE IInv'
  BY <1>0, <1>13, AdvanceInv DEF CreateFutureWallet
<1>14. ASSUME NEW k \in Keys, ObserveBalance(k) PROVE IInv'
  BY <1>0, <1>14, AdvanceInv DEF ObserveBalance
<1>15. ASSUME NEW k \in Keys, ReadResolver(k) PROVE IInv'
  <2>1. client \in [Keys -> [pc : ClientPC, args : DeployArgs \cup {NoArgs}]]
    BY DEF IInv, DeploymentTypeOK
  <2>2. client[k].pc = "resolver" /\ client[k].args \in DeployArgs /\ CurrentInfo \in DomainInfo
    BY <1>15, DomainFacts DEF ReadResolver, IInv, AskedOnce, CurrentInfo, DeploymentTypeOK
  <2>3. [client[k].args EXCEPT !.info.resolver = CurrentInfo.resolver] \in DeployArgs
    BY <2>2 DEF DeployArgs, DomainInfo
  <2>4. /\ client'[k].pc = "owner" /\ client'[k].args \in DeployArgs
        /\ \A j \in Keys : j # k => client'[j] = client[j]
    BY <1>15, <2>1, <2>3 DEF ReadResolver
  <2>5. UNCHANGED <<wallet, ens, tx, granted, request>>
    BY <1>15 DEF ReadResolver, chain
  <2> QED BY <1>0, <2>2, <2>4, <2>5, ChainStands
          DEF IInv, AskedOnce, ProxyAsCreated, SentAtTheEnd
<1>16. ASSUME NEW k \in Keys, ReadOwnerAndPost(k) PROVE IInv'
  <2> DEFINE args == [client[k].args EXCEPT !.info.owner = CurrentInfo.owner]
  <2>1. client \in [Keys -> [pc : ClientPC, args : DeployArgs \cup {NoArgs}]]
    BY DEF IInv, DeploymentTypeOK
  <2>2. /\ client[k].pc = "owner" /\ client[k].args \in DeployArgs /\ CurrentInfo \in DomainInfo
        /\ request[k].pc = "none"
    BY <1>16, DomainFacts DEF ReadOwnerAndPost, IInv, AskedOnce, CurrentInfo, DeploymentTypeOK
  <2>3. args \in DeployArgs
    BY <2>2 DEF DeployArgs, DomainInfo
  <2>4. UNCHANGED chain
    BY <1>16 DEF ReadOwnerAndPost
  <2> HIDE DEF args
  <2>5. CASE /\ client' = [client EXCEPT ![k] = [pc |-> "posted", args |-> args]]
             /\ Post(k, "factory", "resolveName", args)
    BY <1>0, <2>2, <2>3, <2>4, <2>5, PostInv
  <2>6. CASE client' = [client EXCEPT ![k] = [pc |-> "lost", args |-> args]] /\ request' = request
    <3>1. /\ client'[k].pc = "lost" /\ client'[k].args \in DeployArgs
          /\ \A j \in Keys : j # k => client'[j] = client[j]
      BY <2>1, <2>3, <2>6
    <3> QED BY <1>0, <2>2, <2>4, <2>6, <3>1, ChainStands
            DEF chain, IInv, AskedOnce, ProxyAsCreated, SentAtTheEnd
  <2> QED BY <1>16, <2>5, <2>6 DEF args, ReadOwnerAndPost
<1>17. ASSUME NEW k \in Keys, Answered(k) PROVE IInv'
  BY <1>0, <1>17, AdvanceInv DEF Answered
<1>18. ASSUME NEW k \in Keys, ObserveDeployment(k) PROVE IInv'
  BY <1>0, <1>18, AdvanceInv DEF ObserveDeployment
<1>19. ASSUME NEW k \in Keys, WaitForContractDeploy(k) PROVE IInv'
  BY <1>0, <1>19, AdvanceInv DEF WaitForContractDeploy
<1>20. ASSUME NEW k \in Keys, Lose(k) PROVE IInv'
  <2>1. Advance(k, client[k].pc, "lost")
    BY <1>20 DEF Lose, Advance
  <2> QED BY <1>0, <2>1, AdvanceInv
<1>24. ASSUME NEW k \in Keys, ObserverDies(k) PROVE IInv'
  BY <1>0, <1>24, AdvanceInv DEF ObserverDies
<1>21. ASSUME NEW k \in Keys, NEW n \in Names, NEW cost \in Costs, Deploy(k, n, cost)
       PROVE  IInv'
  <2> DEFINE args == [name |-> n, cost |-> cost, info |-> NoInfo]
  <2>1. args \in DeployArgs
    BY DomainFacts DEF DeployArgs
  <2>2. client \in [Keys -> [pc : ClientPC, args : DeployArgs \cup {NoArgs}]]
    BY DEF IInv, DeploymentTypeOK
  <2>3. /\ client[k].pc = "funded" /\ client'[k].pc = "resolver" /\ client'[k].args \in DeployArgs
        /\ \A j \in Keys : j # k => client'[j] = client[j]
    <3> HIDE DEF args
    <3> QED BY <1>21, <2>1, <2>2 DEF Deploy, args
  <2>4. UNCHANGED <<wallet, ens, tx, granted, request>>
    BY <1>21 DEF Deploy, chain
  <2> QED BY <1>0, <2>3, <2>4, ChainStands DEF IInv, AskedOnce, ProxyAsCreated, SentAtTheEnd
<1>22. ASSUME NEW k \in Keys, NEW n \in Names, Create(k, n) PROVE IInv'
  <2> DEFINE args == [name |-> n, cost |-> 1, info |-> NoInfo]
  <2>1. args \in DeployArgs
    BY DomainFacts, DeploymentAssumption DEF DeployArgs
  <2>2. request[k].pc = "none"
    BY <1>22 DEF Create, IInv, AskedOnce
  <2> HIDE DEF args
  <2> QED BY <1>0, <1>22, <2>1, <2>2, PostInv DEF Create, args
<1>23. CASE UNCHANGED dvars
  BY <1>0, <1>23, ChainStands DEF dvars, chain, IInv, AskedOnce, ProxyAsCreated, SentAtTheEnd
<1> QED
  BY <1>1, <1>2, <1>3, <1>4, <1>5, <1>6, <1>7, <1>8, <1>9, <1>10, <1>11, <1>12, <1>13,
     <1>14, <1>15, <1>16, <1>17, <1>18, <1>19, <1>20, <1>21, <1>22, <1>23, <1>24
  DEF DeploymentNext, Environment, RelayerNext, RelayerProgress, ClientNext, Polls

LEMMA Invariance == DeploymentSpec => []IInv
BY InitInv, StepInv, PTL DEF DeploymentSpec

\* The variables of a deployment stay within their types.
THEOREM TypesHold == DeploymentSpec => []DeploymentTypeOK
BY Invariance, PTL DEF IInv

\* A wallet keeps the name it was deployed for, whatever other requests, the
\* operator and restarts of the relayer do to the same name.
THEOREM AlwaysNamed == DeploymentSpec => []DeployedMeansNamed
BY Invariance, PTL DEF IInv

\* The hook of the token granting relayer pays wallets that were deployed.
THEOREM GrantsReach == DeploymentSpec => []GrantsReachWallets
BY Invariance, PTL DEF IInv

-----------------------------------------------------------------------------
(***************************************************************************)
(* Deployment implements FutureWallets: every step is one of its steps, or *)
(* leaves the promises and the owners of the names as they are.            *)
(***************************************************************************)
FutureOf(k) == [state |-> FutureStateOf(k), name |-> NameAskedFor(k)]
OwnersStand == \A n \in Names : OwnerOf(ens[n].owner)' = OwnerOf(ens[n].owner)
FuturesStand == \A k \in Keys : FutureOf(k)' = FutureOf(k)

\* The keys are not taken for one of the other owners.
LEMMA KeysAreKeys ==
  \A k \in Keys : k # Nobody /\ k # OPERATOR /\ k # "free" /\ k # "other"
BY DeploymentAssumption DEF Nobody, OPERATOR

LEMMA Stutters == FuturesStand /\ OwnersStand => UNCHANGED Promised!fvars
BY DEF FuturesStand, OwnersStand, FutureOf, Promised!fvars

\* A client that does not move, nor the way it was asked for, stands for the
\* same promise.
LEMMA FutureStands ==
  ASSUME NEW k \in Keys, client'[k] = client[k], request'[k].via = request[k].via
  PROVE  FutureOf(k)' = FutureOf(k)
BY DEF FutureOf, FutureStateOf, NameAskedFor, ViaProxy

\* No name changes hands while only clients and requests move: whoever owns
\* one was deployed, hence asked for, and is not asked for again.
LEMMA OwnersKept ==
  ASSUME IInv, ens' = ens,
         \A k \in Keys : request[k].pc # "none" => request'[k].via = request[k].via
  PROVE  OwnersStand
<1> SUFFICES ASSUME NEW n \in Names
             PROVE  OwnerOf(ens[n].owner)' = OwnerOf(ens[n].owner)
  BY DEF OwnersStand
<1> DEFINE o == ens[n].owner
<1>1. o' = o
  OBVIOUS
<1>2. o \in Keys => request'[o].via = request[o].via
  BY DEF IInv, NamedMeansDeployed, SentAtTheEnd
<1> QED BY <1>1, <1>2 DEF OwnerOf, ViaProxy

\* The step of one promise.
LEMMA PromiseMoves ==
  ASSUME NEW k \in Keys, NEW from, NEW to,
         FutureStateOf(k) \in from, FutureStateOf(k)' = to, NameAskedFor(k)' = NameAskedFor(k),
         \A j \in Keys : j # k => FutureOf(j)' = FutureOf(j),
         OwnersStand
  PROVE  Promised!Promise(k, from, to)
BY DEF Promised!Promise, FutureOf, OwnersStand

\* The step that asks for a name.
LEMMA PromiseAsked ==
  ASSUME NEW k \in Keys, NEW n \in Names,
         FutureStateOf(k) = "funded", FutureStateOf(k)' = "deploying", NameAskedFor(k)' = n,
         \A j \in Keys : j # k => FutureOf(j)' = FutureOf(j),
         OwnersStand
  PROVE  Promised!AskFor(k, n)
BY DEF Promised!AskFor, FutureOf, OwnersStand

\* The step of one name.
LEMMA NameTaken ==
  ASSUME NEW n \in Names, NEW o, FuturesStand,
         OwnerOf(ens[n].owner) = "free", OwnerOf(ens[n].owner)' = o,
         \A m \in Names : m # n => OwnerOf(ens[m].owner)' = OwnerOf(ens[m].owner)
  PROVE  Promised!Take(n, o)
BY DEF Promised!Take, Promised!Free, FutureOf, FuturesStand

LEMMA InitPromised == DeploymentInit => Promised!FutureInit
<1> SUFFICES ASSUME DeploymentInit PROVE Promised!FutureInit
  OBVIOUS
<1>1. \A k \in Keys : FutureStateOf(k) = "none" /\ NameAskedFor(k) = << >>
  BY DEF DeploymentInit, FutureStateOf, NameAskedFor
<1>2. \A n \in Names : OwnerOf(ens[n].owner) = "free"
  BY KeysAreKeys DEF DeploymentInit, OwnerOf, ViaProxy, Nobody, OPERATOR
<1> QED BY <1>1, <1>2 DEF Promised!FutureInit, Promised!Free, Promised!NoName

\* Where a client stands for one of these promises, it is not a client of
\* sdk.create.
LEMMA PromiseOf ==
  ASSUME IInv, NEW k \in Keys
  PROVE  /\ ViaProxy(k) => FutureStateOf(k) = "none"
         /\ client[k].pc \in {"none", "creating", "mining", "created"} => FutureStateOf(k) = "none"
         /\ client[k].pc = "funding" => FutureStateOf(k) = "waiting"
         /\ client[k].pc = "funded" => FutureStateOf(k) = "funded"
         /\ client[k].pc \in {"resolver", "owner", "posted", "observing"} => FutureStateOf(k) = "deploying"
         /\ client[k].pc = "deployed" => FutureStateOf(k) = "deployed"
         /\ client[k].pc = "lost" /\ ~ViaProxy(k) => FutureStateOf(k) = "lost"
         /\ client[k].pc \notin {"creating", "mining", "created", "lost"} => ~ViaProxy(k)
BY DEF IInv, ProxyAsCreated, FutureStateOf, ViaProxy

\* The name asked for, wherever a request has been posted for it.
LEMMA NameOf ==
  ASSUME IInv, NEW k \in Keys
  PROVE  /\ client[k].args = NoArgs => NameAskedFor(k) = << >>
         /\ ViaProxy(k) => NameAskedFor(k) = << >>
         /\ client[k].args \in DeployArgs /\ ~ViaProxy(k) =>
              NameAskedFor(k) = client[k].args.name /\ NameAskedFor(k) \in Names
<1>1. NoArgs \notin DeployArgs
  BY DeploymentAssumption DEF NoArgs, DeployArgs
<1> QED BY <1>1 DEF NameAskedFor, DeployArgs

\* The name a client asks for from now on.
LEMMA NameFrom ==
  ASSUME NEW k \in Keys, client'[k].args # NoArgs, request'[k].via # "proxy"
  PROVE  NameAskedFor(k)' = client'[k].args.name
<1>1. ~ViaProxy(k)'
  BY DEF ViaProxy
<1>2. NameAskedFor(k)' = IF client'[k].args = NoArgs \/ ViaProxy(k)'
                         THEN << >> ELSE client'[k].args.name
  BY DEF NameAskedFor, ViaProxy, NoArgs, NoInfo
<1> QED BY <1>1, <1>2

\* A client that moves on without asking moves its promise.
LEMMA AdvancePromise ==
  ASSUME IInv, IInv', NEW k \in Keys, NEW from, NEW to, Advance(k, from, to),
         NEW states
  PROVE  /\ FutureStateOf(k) = FutureStateOf(k)' => UNCHANGED Promised!fvars
         /\ FutureStateOf(k) \in states => Promised!Promise(k, states, FutureStateOf(k)')
         /\ ViaProxy(k)' = ViaProxy(k) /\ client[k].pc = from /\ client'[k].pc = to
<1>1. DeploymentTypeOK /\ client[k].pc = from /\ ClientTo(k, to) /\ client \in [Keys -> [pc : ClientPC, args : DeployArgs \cup {NoArgs}]]
  BY DEF Advance, IInv, ClientTo, DeploymentTypeOK
<1>2. /\ \A j \in Keys : j # k => client'[j] = client[j]
      /\ client'[k].args = client[k].args /\ client'[k].pc = to
  BY <1>1 DEF ClientTo
<1>3. UNCHANGED <<ens, request>>
  BY DEF Advance, chain
<1>4. OwnersStand
  BY <1>3, OwnersKept
<1>5. \A j \in Keys : j # k => FutureOf(j)' = FutureOf(j)
  BY <1>2, <1>3, FutureStands
<1>6. NameAskedFor(k)' = NameAskedFor(k) /\ ViaProxy(k)' = ViaProxy(k)
  BY <1>2, <1>3 DEF NameAskedFor, ViaProxy
<1>7. FutureStateOf(k) = FutureStateOf(k)' => FuturesStand
  BY <1>5, <1>6 DEF FuturesStand, FutureOf
<1> QED BY <1>1, <1>2, <1>4, <1>5, <1>6, <1>7, Stutters, PromiseMoves

\* So does a client whose promise is lost: it was waiting for one of these.
LEMMA LosePromise ==
  ASSUME IInv, IInv', NEW k \in Keys, NEW from, NEW to \in {"lost", "hanging"},
         Advance(k, from, to),
         from \notin {"none", "deployed", "created", "lost", "hanging"},
         to = "hanging" => from \in Observing
  PROVE  Promised!Lost(k) \/ UNCHANGED Promised!fvars
<1>1. /\ ViaProxy(k)' = ViaProxy(k) /\ client[k].pc = from /\ client'[k].pc = to
      /\ FutureStateOf(k) = FutureStateOf(k)' => UNCHANGED Promised!fvars
      /\ FutureStateOf(k) \in {"waiting", "funded", "deploying"}
           => Promised!Promise(k, {"waiting", "funded", "deploying"}, FutureStateOf(k)')
  BY AdvancePromise
<1>2. CASE ViaProxy(k)
  <2>1. FutureStateOf(k) = "none"
    BY <1>2, PromiseOf
  <2>2. to = "lost"
    BY <1>1, <1>2 DEF IInv, ProxyAsCreated, ViaProxy, Observing
  <2>3. FutureStateOf(k)' = "none"
    BY <1>1, <1>2, <2>2 DEF FutureStateOf, ViaProxy
  <2> QED BY <1>1, <2>1, <2>3
<1>3. CASE ~ViaProxy(k)
  <2>1. from \in {"funding", "funded", "resolver", "owner", "posted", "observing"}
    <3>1. client[k].pc \in ClientPC
      BY DEF IInv, DeploymentTypeOK
    <3> QED BY <1>1, <1>3, <3>1 DEF IInv, ProxyAsCreated, ViaProxy, ClientPC
  <2>2. FutureStateOf(k)' = "lost"
    BY <1>1, <1>3 DEF FutureStateOf, ViaProxy
  <2>3. FutureStateOf(k) \in {"waiting", "funded", "deploying"}
    BY <1>1, <2>1, PromiseOf
  <2> QED BY <1>1, <2>2, <2>3 DEF Promised!Lost, Promised!Awaited
<1> QED BY <1>2, <1>3

\* Steps that no promise can tell: they keep the clients, the way they were
\* asked for, and the names.
LEMMA UnseenStep ==
  ASSUME IInv, UNCHANGED <<client, ens>>, \A k \in Keys : request'[k].via = request[k].via
  PROVE  UNCHANGED Promised!fvars
<1>1. FuturesStand
  BY FutureStands DEF FuturesStand
<1>2. OwnersStand
  BY OwnersKept
<1> QED BY <1>1, <1>2, Stutters

\* The operator takes a name from those who could still have registered it.
LEMMA OperatorStep ==
  ASSUME IInv, NEW n \in Names, OperatorTakesName(n)
  PROVE  Promised!Elsewhere \/ UNCHANGED Promised!fvars
<1>1. ens \in [Names -> Entry] /\ UNCHANGED <<client, request>>
  BY DEF OperatorTakesName, IInv, DeploymentTypeOK
<1>2. /\ ens[n].owner \in {Nobody, OPERATOR} /\ ens'[n].owner = OPERATOR
      /\ \A m \in Names : m # n => ens'[m] = ens[m]
  BY <1>1 DEF OperatorTakesName, Entry
<1>3. FuturesStand
  BY <1>1, FutureStands DEF FuturesStand
<1>4. \A m \in Names : m # n => OwnerOf(ens[m].owner)' = OwnerOf(ens[m].owner)
  BY <1>1, <1>2 DEF OwnerOf, ViaProxy
<1>5. OwnerOf(ens[n].owner)' = "other"
  BY <1>2 DEF OwnerOf, ViaProxy, Nobody, OPERATOR
<1>6. CASE ens[n].owner = Nobody
  <2>1. OwnerOf(ens[n].owner) = "free"
    BY <1>6, KeysAreKeys DEF OwnerOf, ViaProxy, Nobody, OPERATOR
  <2>2. Promised!Take(n, "other")
    BY <1>3, <1>4, <1>5, <2>1, NameTaken
  <2> QED BY <2>2 DEF Promised!Elsewhere, Promised!Other
<1>7. CASE ens[n].owner = OPERATOR
  <2>1. OwnerOf(ens[n].owner) = "other"
    BY <1>7 DEF OwnerOf, ViaProxy, Nobody, OPERATOR
  <2>2. OwnersStand
    BY <1>4, <1>5, <2>1 DEF OwnersStand
  <2> QED BY <1>3, <2>2, Stutters
<1> QED BY <1>2, <1>6, <1>7

\* A deployment that succeeds registers the name for the key, or for one of
\* the wallets that no future wallet stands for.
LEMMA MineStep ==
  ASSUME IInv, NEW k \in Keys, Mine(k)
  PROVE  Promised!Register(k) \/ Promised!Elsewhere \/ UNCHANGED Promised!fvars
<1>0. PICK n \in Names : n = request[k].args.name
  BY DEF Mine, IInv, AskedOnce, SentAtTheEnd, DeployArgs
<1>1. /\ request[k].pc # "none" /\ client[k].args \in DeployArgs
      /\ n = client[k].args.name
      /\ wallet[k] # "deployed" /\ UNCHANGED <<client, request>>
      /\ client[k].pc \notin {"none", "funding", "funded", "resolver", "owner"}
  BY <1>0 DEF Mine, IInv, AskedOnce, SentAtTheEnd, DeployArgs
<1>2. CASE /\ ens[n].owner = Nobody /\ InitializeWithENS(k, request[k].args)
  <2>1. ens \in [Names -> Entry]
    BY DEF IInv, DeploymentTypeOK
  <2>2. ens'[n].owner = k /\ \A m \in Names : m # n => ens'[m] = ens[m]
    BY <1>0, <1>2, <2>1 DEF InitializeWithENS, RegisterENS
  <2>3. FuturesStand
    BY <1>1, FutureStands DEF FuturesStand
  <2>4. \A m \in Names : m # n => OwnerOf(ens[m].owner)' = OwnerOf(ens[m].owner)
    BY <1>1, <2>2 DEF OwnerOf, ViaProxy
  <2>5. OwnerOf(ens[n].owner) = "free"
    BY <1>2, KeysAreKeys DEF OwnerOf, ViaProxy, Nobody, OPERATOR
  <2>6. CASE ViaProxy(k)
    <3>1. OwnerOf(ens[n].owner)' = "other"
      BY <1>1, <2>2, <2>6, KeysAreKeys DEF OwnerOf, ViaProxy
    <3>2. Promised!Take(n, "other")
      BY <1>1, <2>3, <2>4, <2>5, <3>1, NameTaken
    <3> QED BY <1>1, <3>2 DEF Promised!Elsewhere, Promised!Other
  <2>7. CASE ~ViaProxy(k)
    <3>1. OwnerOf(ens[n].owner)' = k
      BY <1>1, <2>2, <2>7, KeysAreKeys DEF OwnerOf, ViaProxy
    <3>2. Promised!Take(n, k)
      BY <1>1, <2>3, <2>4, <2>5, <3>1, NameTaken
    <3>3. NameAskedFor(k) = n
      BY <1>1, <2>7, NameOf
    <3>4. \A m \in Names : OwnerOf(ens[m].owner) # k
      <4> SUFFICES ASSUME NEW m \in Names, OwnerOf(ens[m].owner) = k PROVE FALSE
        OBVIOUS
      <4>1. ens[m].owner = k
        BY KeysAreKeys DEF OwnerOf
      <4> QED BY <1>1, <4>1 DEF IInv, NamedMeansDeployed
    <3>5. ~Promised!Owns(k)
      BY <3>4 DEF Promised!Owns
    <3> QED BY <1>1, <3>2, <3>3, <3>5 DEF Promised!Register
  <2> QED BY <2>6, <2>7
<1>3. CASE Reverts(k)
  BY <1>1, <1>3, UnseenStep DEF Reverts
<1> QED BY <1>0, <1>2, <1>3 DEF Mine, CreateContract, CreateProxy, Registrable

\* The code that the observer finds is the wallet with the name asked for.
LEMMA DeployedStep ==
  ASSUME IInv, IInv', NEW k \in Keys, ObserveDeployment(k)
  PROVE  Promised!Deployed(k)
<1>1. client[k].pc = "observing" /\ wallet[k] # "none" /\ Advance(k, "observing", "deployed")
  BY DEF ObserveDeployment, Advance
<1>2. PICK n \in Names : n = request[k].args.name
  BY <1>1 DEF IInv, AskedOnce, DeployArgs
<1>3. ~ViaProxy(k) /\ FutureStateOf(k) = "deploying"
  BY <1>1, PromiseOf
<1>4. client[k].args \in DeployArgs /\ NameAskedFor(k) = n
  BY <1>1, <1>2, <1>3, NameOf DEF IInv, AskedOnce
<1>5. OwnerOf(ens[n].owner) = k
  <2>1. wallet[k] = "deployed"
    BY <1>1 DEF IInv, DeploymentTypeOK, Wallet
  <2>2. ens[n] = [owner |-> k, resolver |-> TRUE, addr |-> k]
    BY <1>2, <2>1 DEF IInv, DeployedMeansNamed
  <2> QED BY <1>3, <2>2, KeysAreKeys DEF OwnerOf
<1>6. /\ client'[k].pc = "deployed" /\ ViaProxy(k)' = ViaProxy(k)
      /\ Promised!Promise(k, {"deploying"}, FutureStateOf(k)')
  BY <1>1, <1>3, AdvancePromise
<1>7. FutureStateOf(k)' = "deployed"
  BY <1>3, <1>6 DEF FutureStateOf, ViaProxy
<1> QED BY <1>4, <1>5, <1>6, <1>7 DEF Promised!Deployed

\* A client that reads the domain still stands for the same promise.
LEMMA ClientKeepsPromise ==
  ASSUME IInv, NEW k \in Keys, UNCHANGED ens,
         \A j \in Keys : j # k => client'[j] = client[j] /\ request'[j].via = request[j].via,
         request[k].pc # "none" => request'[k].via = request[k].via,
         FutureStateOf(k)' = FutureStateOf(k), NameAskedFor(k)' = NameAskedFor(k)
  PROVE  UNCHANGED Promised!fvars
<1>1. \A j \in Keys : j # k => FutureOf(j)' = FutureOf(j)
  BY FutureStands
<1>2. FuturesStand
  BY <1>1 DEF FuturesStand, FutureOf
<1>3. OwnersStand
  BY OwnersKept
<1> QED BY <1>2, <1>3, Stutters

\* Every step of a deployment is a step of the promises, or stutters.
LEMMA StepPromised ==
  IInv /\ IInv' /\ [DeploymentNext]_dvars => [Promised!FutureNext]_Promised!fvars
<1> SUFFICES ASSUME IInv, IInv', [DeploymentNext]_dvars
             PROVE  Promised!FutureNext \/ UNCHANGED Promised!fvars
  OBVIOUS
<1> USE DEF Promised!FutureNext
<1>0. /\ client \in [Keys -> [pc : ClientPC, args : DeployArgs \cup {NoArgs}]]
      /\ request \in [Keys -> Request] /\ DeploymentTypeOK
  BY DEF IInv, DeploymentTypeOK
<1>1. CASE SetUpDomain \/ StartENS \/ (\E k \in Keys : TopUp(k) \/ GrantTokens(k)) \/ UNCHANGED dvars
  BY <1>1, UnseenStep DEF SetUpDomain, StartENS, TopUp, GrantTokens, dvars, chain
<1>2. ASSUME NEW n \in Names, OperatorTakesName(n)
      PROVE  Promised!FutureNext \/ UNCHANGED Promised!fvars
  BY <1>2, OperatorStep
<1>3. CASE Restart
  <2>1. \A k \in Keys : request'[k].via = request[k].via
    BY <1>0, <1>3 DEF Restart, Request
  <2> QED BY <1>3, <2>1, UnseenStep DEF Restart, chain
<1>4. ASSUME NEW k \in Keys, Mine(k)
      PROVE  Promised!FutureNext \/ UNCHANGED Promised!fvars
  BY <1>4, MineStep
<1>5. ASSUME NEW k \in Keys, ResolveName(k) \/ CheckBalance(k) \/ CreateArgsFor(k) \/ Send(k) \/ RequestFails(k)
      PROVE  UNCHANGED Promised!fvars
  <2>1. \A j \in Keys : request'[j].via = request[j].via
    BY <1>0, <1>5 DEF ResolveName, CheckBalance, CreateArgsFor, Send, RequestFails, Continue, Request
  <2>2. UNCHANGED <<client, ens>>
    BY <1>5 DEF ResolveName, CheckBalance, CreateArgsFor, Send, RequestFails, Continue, chain
  <2> QED BY <2>1, <2>2, UnseenStep
<1>6. ASSUME NEW k \in Keys, CreateFutureWallet(k) PROVE Promised!Begin(k)
  <2>1. FutureStateOf(k) = "none"
    BY <1>6, PromiseOf DEF CreateFutureWallet, Advance
  <2>2. /\ ~ViaProxy(k) /\ ViaProxy(k)' = ViaProxy(k) /\ client'[k].pc = "funding"
        /\ Promised!Promise(k, {"none"}, FutureStateOf(k)')
    BY <1>6, <2>1, PromiseOf, AdvancePromise DEF CreateFutureWallet
  <2>3. FutureStateOf(k)' = "waiting"
    BY <2>2 DEF FutureStateOf, ViaProxy
  <2> QED BY <2>2, <2>3 DEF Promised!Begin
<1>7. ASSUME NEW k \in Keys, ObserveBalance(k) PROVE Promised!Funded(k)
  <2>1. FutureStateOf(k) = "waiting"
    BY <1>7, PromiseOf DEF ObserveBalance, Advance
  <2>2. /\ ~ViaProxy(k) /\ ViaProxy(k)' = ViaProxy(k) /\ client'[k].pc = "funded"
        /\ Promised!Promise(k, {"waiting"}, FutureStateOf(k)')
    BY <1>7, <2>1, PromiseOf, AdvancePromise DEF ObserveBalance
  <2>3. FutureStateOf(k)' = "funded"
    BY <2>2 DEF FutureStateOf, ViaProxy
  <2> QED BY <2>2, <2>3 DEF Promised!Funded
<1>8. ASSUME NEW k \in Keys, ObserveDeployment(k) PROVE Promised!Deployed(k)
  BY <1>8, DeployedStep
<1>9. ASSUME NEW k \in Keys, Answered(k)
      PROVE  Promised!Lost(k) \/ UNCHANGED Promised!fvars
  <2>1. CASE Advance(k, "posted", "observing")
    <3>1. /\ client[k].pc = "posted" /\ client'[k].pc = "observing" /\ ViaProxy(k)' = ViaProxy(k)
          /\ FutureStateOf(k) = FutureStateOf(k)' => UNCHANGED Promised!fvars
      BY <2>1, AdvancePromise
    <3>2. ~ViaProxy(k) /\ FutureStateOf(k) = "deploying"
      BY <3>1, PromiseOf
    <3>3. FutureStateOf(k)' = "deploying"
      BY <3>1, <3>2 DEF FutureStateOf, ViaProxy
    <3> QED BY <3>1, <3>2, <3>3
  <2>2. CASE Advance(k, "creating", "mining")
    <3>1. /\ client[k].pc = "creating" /\ client'[k].pc = "mining"
          /\ FutureStateOf(k) = FutureStateOf(k)' => UNCHANGED Promised!fvars
      BY <2>2, AdvancePromise
    <3>2. FutureStateOf(k) = "none"
      BY <3>1, PromiseOf
    <3>3. FutureStateOf(k)' = "none"
      BY <3>1 DEF FutureStateOf, ViaProxy
    <3> QED BY <3>1, <3>2, <3>3
  <2>3. ASSUME NEW pc \in {"posted", "creating"}, Advance(k, pc, "lost")
        PROVE  Promised!Lost(k) \/ UNCHANGED Promised!fvars
    BY <2>3, LosePromise
  <2> QED BY <1>9, <2>1, <2>2, <2>3 DEF Answered
<1>10. ASSUME NEW k \in Keys, WaitForContractDeploy(k) PROVE UNCHANGED Promised!fvars
  <2>1. /\ client[k].pc = "mining" /\ client'[k].pc = "created"
        /\ FutureStateOf(k) = FutureStateOf(k)' => UNCHANGED Promised!fvars
    BY <1>10, AdvancePromise DEF WaitForContractDeploy
  <2>2. FutureStateOf(k) = "none"
    BY <2>1, PromiseOf
  <2>3. FutureStateOf(k)' = "none"
    BY <2>1 DEF FutureStateOf, ViaProxy
  <2> QED BY <2>1, <2>2, <2>3
<1>11. ASSUME NEW k \in Keys, Lose(k)
       PROVE  Promised!Lost(k) \/ UNCHANGED Promised!fvars
  <2>1. Advance(k, client[k].pc, "lost") /\ client[k].pc \notin {"none", "deployed", "created", "lost", "hanging"}
    BY <1>11 DEF Lose, Advance
  <2> QED BY <2>1, LosePromise
<1>16. ASSUME NEW k \in Keys, ObserverDies(k)
       PROVE  Promised!Lost(k) \/ UNCHANGED Promised!fvars
  <2>1. PICK pc \in Observing : Advance(k, pc, "hanging")
    BY <1>16 DEF ObserverDies
  <2>2. pc \notin {"none", "deployed", "created", "lost", "hanging"}
    BY DEF Observing
  <2> QED BY <2>1, <2>2, LosePromise
<1>12. ASSUME NEW k \in Keys, NEW n \in Names, NEW cost \in Costs, Deploy(k, n, cost)
       PROVE  Promised!AskFor(k, n)
  <2>1. /\ client[k].pc = "funded" /\ client'[k].pc = "resolver" /\ client'[k].args.name = n
        /\ client'[k].args.cost = cost
        /\ \A j \in Keys : j # k => client'[j] = client[j]
        /\ UNCHANGED <<ens, request>>
    BY <1>0, <1>12 DEF Deploy, chain
  <2>2. ~ViaProxy(k) /\ FutureStateOf(k) = "funded"
    BY <2>1, PromiseOf
  <2>3. FutureStateOf(k)' = "deploying"
    BY <2>1, <2>2 DEF FutureStateOf, ViaProxy
  <2>4. NameAskedFor(k)' = n
    <3>1. client'[k].args # NoArgs
      BY <2>1, DeploymentAssumption DEF NoArgs
    <3>2. request'[k].via # "proxy"
      BY <2>1, <2>2 DEF ViaProxy
    <3> QED BY <2>1, <3>1, <3>2, NameFrom
  <2>5. OwnersStand
    BY <2>1, OwnersKept
  <2>6. \A j \in Keys : j # k => FutureOf(j)' = FutureOf(j)
    BY <2>1, FutureStands
  <2> QED BY <2>2, <2>3, <2>4, <2>5, <2>6, PromiseAsked
<1>13. ASSUME NEW k \in Keys, ReadResolver(k) PROVE UNCHANGED Promised!fvars
  <2>1. client[k].pc = "resolver" /\ client[k].args \in DeployArgs /\ ~ViaProxy(k)
    BY <1>13, PromiseOf DEF ReadResolver, IInv, AskedOnce
  <2>2. /\ client'[k].pc = "owner"
        /\ client'[k].args = [client[k].args EXCEPT !.info.resolver = CurrentInfo.resolver]
        /\ \A j \in Keys : j # k => client'[j] = client[j]
        /\ UNCHANGED <<ens, request>>
    BY <1>0, <1>13 DEF ReadResolver, chain
  <2>3. client'[k].args.name = client[k].args.name /\ client'[k].args.cost = client[k].args.cost
    BY <2>1, <2>2 DEF DeployArgs
  <2>4. FutureStateOf(k)' = FutureStateOf(k)
    <3>1. FutureStateOf(k) = "deploying"
      BY <2>1, PromiseOf
    <3>2. FutureStateOf(k)' = "deploying"
      BY <2>1, <2>2 DEF FutureStateOf, ViaProxy
    <3> QED BY <3>1, <3>2
  <2>5. NameAskedFor(k)' = NameAskedFor(k)
    <3>1. NameAskedFor(k) = client[k].args.name
      BY <2>1, NameOf
    <3>2. client'[k].args # NoArgs /\ request'[k].via # "proxy"
      BY <2>1, <2>2, <2>3, DeploymentAssumption DEF NoArgs, DeployArgs, ViaProxy
    <3> QED BY <2>3, <3>1, <3>2, NameFrom
  <2> QED BY <2>2, <2>4, <2>5, ClientKeepsPromise
<1>14. ASSUME NEW k \in Keys, ReadOwnerAndPost(k)
       PROVE  Promised!Lost(k) \/ UNCHANGED Promised!fvars
  <2> DEFINE args == [client[k].args EXCEPT !.info.owner = CurrentInfo.owner]
  <2>1. /\ client[k].pc = "owner" /\ client[k].args \in DeployArgs
        /\ ~ViaProxy(k) /\ FutureStateOf(k) = "deploying" /\ request[k].pc = "none"
    BY <1>14, PromiseOf DEF ReadOwnerAndPost, IInv, AskedOnce
  <2>2. args.name = client[k].args.name /\ args.cost = client[k].args.cost
    BY <2>1 DEF DeployArgs
  <2> HIDE DEF args
  <2>3. /\ client'[k].args = args /\ client'[k].pc \in {"posted", "lost"}
        /\ \A j \in Keys : j # k => client'[j] = client[j] /\ request'[j] = request[j]
        /\ request'[k].via = "factory" /\ UNCHANGED ens
        /\ request[k].via = "factory"
    BY <1>0, <1>14, <2>1 DEF args, ReadOwnerAndPost, Post, chain, Request, IInv, ProxyAsCreated
  <2>4. NameAskedFor(k)' = NameAskedFor(k)
    <3>1. NameAskedFor(k) = client[k].args.name
      BY <2>1, NameOf
    <3>2. client'[k].args # NoArgs /\ request'[k].via # "proxy"
      BY <2>1, <2>2, <2>3, DeploymentAssumption DEF NoArgs, DeployArgs
    <3> QED BY <2>2, <2>3, <3>1, <3>2, NameFrom
  <2>5. CASE client'[k].pc = "posted"
    <3>1. FutureStateOf(k)' = FutureStateOf(k)
      <4>1. FutureStateOf(k)' = "deploying"
        BY <2>3, <2>5 DEF FutureStateOf, ViaProxy
      <4> QED BY <2>1, <4>1
    <3> QED BY <2>3, <2>4, <3>1, ClientKeepsPromise
  <2>6. CASE client'[k].pc = "lost"
    <3>1. FutureStateOf(k)' = "lost"
      BY <2>3, <2>6 DEF FutureStateOf, ViaProxy
    <3>2. OwnersStand
      BY <2>1, <2>3, OwnersKept
    <3>3. \A j \in Keys : j # k => FutureOf(j)' = FutureOf(j)
      BY <2>3, FutureStands
    <3> QED BY <2>1, <2>4, <3>1, <3>2, <3>3, PromiseMoves DEF Promised!Lost, Promised!Awaited
  <2> QED BY <2>3, <2>5, <2>6
<1>15. ASSUME NEW k \in Keys, NEW n \in Names, Create(k, n) PROVE UNCHANGED Promised!fvars
  <2>1. /\ client[k].pc = "none" /\ client[k].args = NoArgs /\ request[k].pc = "none"
        /\ FutureStateOf(k) = "none" /\ NameAskedFor(k) = << >>
    BY <1>15, PromiseOf, NameOf DEF Create, IInv, AskedOnce
  <2>2. /\ request'[k].via = "proxy" /\ client'[k].pc = "creating" /\ UNCHANGED ens
        /\ \A j \in Keys : j # k => client'[j] = client[j] /\ request'[j] = request[j]
    BY <1>0, <1>15 DEF Create, Post, chain
  <2>3. FutureStateOf(k)' = "none" /\ NameAskedFor(k)' = << >>
    BY <2>2 DEF FutureStateOf, NameAskedFor, ViaProxy
  <2> QED BY <2>1, <2>2, <2>3, ClientKeepsPromise
<1> QED
  BY <1>1, <1>2, <1>3, <1>4, <1>5, <1>6, <1>7, <1>8, <1>9, <1>10, <1>11, <1>12, <1>13, <1>14, <1>15, <1>16
  DEF DeploymentNext, Environment, RelayerNext, RelayerProgress, ClientNext, Polls

\* A deploy that resolves has given the wallet its name, a name belongs to one
\* wallet for ever, and a key to one wallet: with two clients of one name, an
\* operator taking names and a relayer that forgets, for any number of them.
THEOREM DeploymentImplementsPromises == DeploymentSpec => FutureWalletsPromised
<1>1. IInv /\ [DeploymentNext]_dvars => IInv'
  BY StepInv
<1> QED BY InitPromised, Invariance, StepPromised, <1>1, PTL
        DEF DeploymentSpec, FutureWalletsPromised, Promised!FutureWalletsSpec
=============================================================================
