---------------------------- MODULE FutureWallets ----------------------------
(***************************************************************************)
(* What the SDK promises to an application: waitForBalance resolves when   *)
(* the address of a future wallet is funded, deploy(name) resolves only    *)
(* when that name belongs to the wallet, a name belongs to one wallet for  *)
(* ever.  Either promise may be lost; a wallet may still come to own the   *)
(* name after its client has stopped waiting.  Module Deployment           *)
(* implements this, module WalletApp is built on it.                       *)
(***************************************************************************)
CONSTANTS Keys, Names

VARIABLES
  future,   \* each future wallet: the promise waited for, the name asked for
  owner     \* the wallet that each name belongs to

fvars == <<future, owner>>

Free == "free"
Other == "other"      \* not one of these future wallets
NoName == << >>

FutureState == {"none", "waiting", "funded", "deploying", "deployed", "lost"}

FutureInit ==
  /\ future = [k \in Keys |-> [state |-> "none", name |-> NoName]]
  /\ owner = [n \in Names |-> Free]

Promise(k, from, to) ==
  /\ future[k].state \in from
  /\ future' = [future EXCEPT ![k].state = to]
  /\ UNCHANGED owner

\* The promises that an application still waits for.
Awaited == {"waiting", "funded", "deploying"}

Begin(k) == Promise(k, {"none"}, "waiting")
Funded(k) == Promise(k, {"waiting"}, "funded")
Lost(k) == Promise(k, Awaited, "lost")
Deployed(k) ==
  /\ future[k].name \in Names /\ owner[future[k].name] = k
  /\ Promise(k, {"deploying"}, "deployed")

AskFor(k, n) ==
  /\ future[k].state = "funded"
  /\ future' = [future EXCEPT ![k] = [state |-> "deploying", name |-> n]]
  /\ UNCHANGED owner

Take(n, o) ==
  /\ owner[n] = Free
  /\ owner' = [owner EXCEPT ![n] = o]
  /\ UNCHANGED future

\* The application ends, and waits for nothing any more.
Forget ==
  /\ future' = [k \in Keys |->
       IF future[k].state \in Awaited THEN [future[k] EXCEPT !.state = "lost"] ELSE future[k]]
  /\ UNCHANGED owner

Owns(k) == \E n \in Names : owner[n] = k
Register(k) ==
  /\ future[k].name \in Names /\ ~Owns(k)
  /\ Take(future[k].name, k)

Elsewhere == \E n \in Names : Take(n, Other)

FutureNext ==
  \/ Elsewhere \/ Forget
  \/ \E k \in Keys :
       \/ Begin(k) \/ Funded(k) \/ Lost(k) \/ Deployed(k) \/ Register(k)
       \/ \E n \in Names : AskFor(k, n)

FutureWalletsSpec == FutureInit /\ [][FutureNext]_fvars
=============================================================================
