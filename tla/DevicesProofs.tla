---------------------------- MODULE DevicesProofs ----------------------------
(***************************************************************************)
(* Safety of connecting new devices, for any wallets, keys, requests and   *)
(* number of pages opened.  The inductive invariant follows a key: from    *)
(* the device that asks with it through the relayer's table, the answers   *)
(* and the page to the confirmation and the chain, it was asked for, and   *)
(* for that wallet unless an answer was misled.  The last part proves that *)
(* the code of every key can be entered on every panel.                    *)
(***************************************************************************)
EXTENDS Devices, TLAPS, NaturalsInduction, WellFoundedInduction

\* The device has asked with this key, or one that is gone had.
Known(k) == device[k].pc # "new" \/ \E r \in Unattended : r.key = k

NewAskNothing == \A k \in Keys : device[k].pc = "new" => device[k].wallet = NoWallet

\* Requests in the table are of devices that asked that wallet.
RowsAsked == \A r \in rows : Asks(r) /\ Known(r.key)

\* So are those in an answer on its way to the page of that wallet.
AnswerAsked(i) ==
  \A k \in loops[i].keys :
    /\ loops[i].wallet \in Wallets /\ Known(k)
    /\ Asks([wallet |-> loops[i].wallet, key |-> k])
AnswersAsked == \A i \in LoopIds : AnswerAsked(i)

\* What a page shows was asked, and of the wallet of the page.
PageAsked ==
  \A k \in last : Known(k) /\ (misled \/ (page # NoWallet /\ Asks(OnPage(k))))

\* So was what the owner has confirmed, and what has become a key.
ConfirmedAsked ==
  \A r \in Row : execution[r] # "none" \/ HasKey(r) => Known(r.key) /\ (misled \/ Asks(r))

\* A request whose key is on chain waits for the relayer to see the transaction.
AddedIsMined ==
  \A r \in rows : HasKey(r) => execution[r] = "mined" \/ r \in unhandled \/ r.key \in ZeroLed

\* Whatever may delete a row, a transaction or a denial, comes after the answer.
AnsweredFirst == \A r \in rows : execution[r] # "none" \/ r \in denials => r \in answered

DenialsKnown == \A r \in denials : Known(r.key)

AnswersInv == AnsweredFirst /\ DenialsKnown /\ RequestsStayUnanswered

IInv ==
  /\ DevicesTypeOK /\ NewAskNothing
  /\ RowsAsked /\ AnswersAsked /\ PageAsked /\ ConfirmedAsked /\ AddedIsMined
  /\ AnswersInv

-----------------------------------------------------------------------------
LEMMA RowFacts ==
  \A r \in Row : r.wallet \in Wallets /\ r.key \in Keys /\ r = [wallet |-> r.wallet, key |-> r.key]
BY DEF Row

LEMMA LoopKinds ==
  /\ NoLoop \in Loop /\ Rejected \in Loop /\ [NoLoop EXCEPT !.pc = "over"] \in Loop
  /\ [NoLoop EXCEPT !.pc = "timer"] \in Loop
  /\ \A w \in Wallets \cup {NoWallet} : Asked(w) \in Loop
BY DEF NoLoop, Rejected, Asked, Loop

LEMMA TypeInit == DevicesInit => DevicesTypeOK
<1> SUFFICES ASSUME DevicesInit PROVE DevicesTypeOK
  OBVIOUS
<1>1. loops \in [LoopIds -> Loop] /\ \A i \in LoopIds : loops[i].pc = "none"
  BY LoopKinds DEF DevicesInit, NoLoop
<1>2. device \in [Keys -> Device]
  BY DEF DevicesInit, Device
<1>3. added \in [Row -> {"no", "last", "older"}] /\ execution \in [Row -> {"none", "queued", "mined"}]
  BY DEF DevicesInit
<1> QED BY <1>1, <1>2, <1>3, DevicesAssumption DEF DevicesInit, DevicesTypeOK

\* The addition of a key and the passing of blocks.
LEMMA AgedType == DevicesTypeOK => Aged \in [Row -> {"no", "last", "older"}]
BY DEF DevicesTypeOK, Aged

LEMMA DeviceType ==
  ASSUME DevicesTypeOK, NEW k \in Keys, NEW d \in Device, DeviceBecomes(k, d),
         rows' \subseteq Row, rows \subseteq rows'
  PROVE  DevicesTypeOK'
BY DEF DevicesTypeOK, DeviceBecomes, owner

LEMMA TypeStep == DevicesTypeOK /\ [DevicesNext]_vars => DevicesTypeOK'
<1> SUFFICES ASSUME DevicesTypeOK, [DevicesNext]_vars PROVE DevicesTypeOK'
  OBVIOUS
<1> USE DevicesAssumption
<1>1. ASSUME NEW w \in Wallets, OpenPage(w) PROVE DevicesTypeOK'
  <2>1. loops' \in [LoopIds -> Loop]
    BY <1>1, LoopKinds DEF OpenPage, DevicesTypeOK
  <2>2. \A i \in LoopIds :
          (loops'[i].pc \in {"asked", "answered"} /\ ~loops'[i].error) => loops'[i].wallet \in Wallets
    BY <1>1 DEF OpenPage, DevicesTypeOK, Asked
  <2> QED BY <1>1, <2>1, <2>2 DEF OpenPage, DevicesTypeOK, relayer
<1>2. CASE ClosePage
  BY <1>2 DEF ClosePage, DevicesTypeOK, relayer
<1>3. ASSUME NEW i \in LoopIds, LoopAgain(i) PROVE DevicesTypeOK'
  BY <1>3, LoopKinds DEF LoopAgain, DevicesTypeOK, relayer, Asked, NoLoop
<1>4. ASSUME NEW i \in LoopIds, GetPending(i) PROVE DevicesTypeOK'
  BY <1>4, LoopKinds DEF GetPending, DevicesTypeOK, relayer, Loop, Rejected, NoLoop
<1>5. ASSUME NEW i \in LoopIds, Deliver(i) PROVE DevicesTypeOK'
  BY <1>5, LoopKinds DEF Deliver, DevicesTypeOK, relayer, Loop, NoLoop
<1>6. ASSUME NEW i \in LoopIds, GetPendingFails(i) PROVE DevicesTypeOK'
  BY <1>6, LoopKinds DEF GetPendingFails, DevicesTypeOK, relayer, Rejected, NoLoop
<1>7. ASSUME NEW k \in Keys, Confirm(k) PROVE DevicesTypeOK'
  BY <1>7 DEF Confirm, Answers, DevicesTypeOK, owner
<1>8. ASSUME NEW k \in Keys, Deny(k) PROVE DevicesTypeOK'
  BY <1>8 DEF Deny, Answers, DevicesTypeOK, owner
<1>9. ASSUME NEW r \in Row, MineAddKey(r) PROVE DevicesTypeOK'
  BY <1>9, AgedType DEF MineAddKey, Executes, DevicesTypeOK, owner
<1>10. ASSUME NEW r \in Row, ExecutionFails(r) PROVE DevicesTypeOK'
  BY <1>10 DEF ExecutionFails, Executes, DevicesTypeOK, owner
<1>11. ASSUME NEW r \in Row, OnTransactionSent(r) PROVE DevicesTypeOK'
  BY <1>11 DEF OnTransactionSent, RemoveRequest, DevicesTypeOK, owner
<1>12. CASE MineOther
  BY <1>12, AgedType DEF MineOther, DevicesTypeOK, owner, relayer
<1>13. ASSUME NEW k \in Keys, NEW w \in Wallets, Connect(k, w) PROVE DevicesTypeOK'
  BY <1>13, DeviceType DEF Connect, Device, Row, DevicesTypeOK
<1>14. ASSUME NEW k \in Keys, Subscribe(k) \/ FetchEvents(k) \/ FetchBlockNumber(k) \/ GiveUp(k)
       PROVE  DevicesTypeOK'
  <2>0. /\ device[k] \in Device
        /\ [device[k] EXCEPT !.pc = "subscribed"] \in Device
        /\ [device[k] EXCEPT !.logsRead = TRUE] \in Device
        /\ \A pc \in {"connected", "gone"} : Leaving(k, pc) \in Device
        /\ \A b \in BOOLEAN : [device[k] EXCEPT !.logsRead = FALSE, !.passed = b] \in Device
    BY DEF DevicesTypeOK, Device, Leaving
  <2>1. ASSUME NEW d \in Device, DeviceBecomes(k, d), UNCHANGED rows PROVE DevicesTypeOK'
    <3>1. rows \subseteq Row
      BY DEF DevicesTypeOK
    <3> QED BY <2>1, <3>1, DeviceType
  <2>2. CASE Subscribe(k)
    BY <2>0, <2>1, <2>2 DEF Subscribe
  <2>3. CASE FetchEvents(k)
    BY <2>0, <2>1, <2>3 DEF FetchEvents
  <2>4. CASE FetchBlockNumber(k)
    <3>1. PassedBy(RowOf(k)) \in BOOLEAN
      BY DEF PassedBy
    <3> QED BY <2>0, <2>1, <2>4, <3>1 DEF FetchBlockNumber
  <2>5. CASE GiveUp(k)
    BY <2>0, <2>1, <2>5 DEF GiveUp
  <2> QED BY <1>14, <2>2, <2>3, <2>4, <2>5
<1>15. ASSUME NEW r \in Row, RemoveDenied(r) \/ DenialFails(r) PROVE DevicesTypeOK'
  BY <1>15 DEF RemoveDenied, DenialFails, RemoveRequest, DevicesTypeOK, owner
<1>16. CASE UNCHANGED vars
  BY <1>16 DEF vars, owner, relayer, DevicesTypeOK
<1> QED
  BY <1>1, <1>2, <1>3, <1>4, <1>5, <1>6, <1>7, <1>8, <1>9, <1>10, <1>11, <1>12, <1>13, <1>14, <1>15, <1>16
  DEF DevicesNext, OwnerNext, ObserverSteps, RelayerNext, DeviceNext, DeviceSteps

-----------------------------------------------------------------------------
\* Who asked, and for which wallet, is settled when a device asks.
Settled ==
  /\ \A r \in Row : Asks(r) => Asks(r)'
  /\ \A k \in Keys : Known(k) => Known(k)'
  /\ NewAskNothing'

LEMMA SettledUnchanged == NewAskNothing /\ UNCHANGED device => Settled
BY DEF Settled, Asks, Known, NewAskNothing

LEMMA SettledByDevice ==
  ASSUME DevicesTypeOK, NewAskNothing, NEW k \in Keys, NEW d \in Device, DeviceBecomes(k, d),
         d.pc # "new", device[k].pc = "new" \/ d.wallet = device[k].wallet
  PROVE  Settled
<1>1. device \in [Keys -> Device] /\ device' = [device EXCEPT ![k] = d]
  BY DEF DeviceBecomes, DevicesTypeOK
<1>2. \A r \in Row : Asks(r) => Asks(r)'
  BY <1>1, RowFacts, DevicesAssumption DEF Asks, NewAskNothing
<1>3. \A j \in Keys : Known(j) => Known(j)'
  BY <1>1 DEF Known
<1>4. NewAskNothing'
  BY <1>1 DEF NewAskNothing
<1> QED BY <1>2, <1>3, <1>4 DEF Settled

LEMMA OnPageInRow ==
  ASSUME DevicesTypeOK, NEW k \in Keys
  PROVE  page # NoWallet => OnPage(k) \in Row
BY DEF OnPage, Row, DevicesTypeOK

\* The owner's application, the relayer and the chain keep what was asked as
\* long as they do not move.
LEMMA OwnerKeeps ==
  ASSUME IInv, Settled, UNCHANGED owner
  PROVE  AnswersAsked' /\ PageAsked'
<1>1. last \subseteq Keys /\ \A i \in LoopIds : loops[i].keys \subseteq Keys
  BY DEF IInv, DevicesTypeOK, Loop
<1>2. AnswersAsked'
  BY <1>1 DEF IInv, Settled, owner, AnswersAsked, AnswerAsked, Row
<1>3. PageAsked'
  BY <1>1, OnPageInRow DEF IInv, Settled, owner, PageAsked, OnPage
<1> QED BY <1>2, <1>3

LEMMA RowsKept ==
  ASSUME IInv, Settled, rows' \subseteq rows
  PROVE  RowsAsked'
BY RowFacts DEF IInv, DevicesTypeOK, RowsAsked, Settled

LEMMA ConfirmationsKept ==
  ASSUME IInv, Settled, misled => misled',
         \A r \in Row : execution'[r] # "none" \/ HasKey(r)' => execution[r] # "none" \/ HasKey(r)
  PROVE  ConfirmedAsked'
BY RowFacts DEF IInv, Settled, ConfirmedAsked

\* What was not answered stays, as long as rows leave after their answers and
\* nothing new is asked, sent or denied.
LEMMA AnswersKept ==
  ASSUME IInv, Settled, \A r \in Row : Asks(r)' => Asks(r),
         rows' \subseteq rows, rows \ rows' \subseteq answered, answered \subseteq answered',
         denials' \subseteq denials,
         \A r \in rows' : execution'[r] # "none" => execution[r] # "none"
  PROVE  AnswersInv'
<1>1. rows \subseteq Row /\ denials \subseteq Row
  BY DEF IInv, DevicesTypeOK
<1>2. AnsweredFirst'
  BY DEF IInv, AnswersInv, AnsweredFirst
<1>3. DenialsKnown'
  BY <1>1, RowFacts DEF IInv, AnswersInv, DenialsKnown, Settled
<1>4. RequestsStayUnanswered'
  BY DEF IInv, AnswersInv, RequestsStayUnanswered
<1> QED BY <1>2, <1>3, <1>4 DEF AnswersInv

LEMMA InitInv == DevicesInit => IInv
<1> SUFFICES ASSUME DevicesInit PROVE IInv
  OBVIOUS
<1>1. NewAskNothing /\ RowsAsked /\ PageAsked
  BY DEF DevicesInit, NewAskNothing, RowsAsked, PageAsked, Asks, Known
<1>2. AnswersAsked
  BY DEF DevicesInit, AnswersAsked, AnswerAsked, NoLoop
<1>3. ConfirmedAsked /\ AddedIsMined
  BY DEF DevicesInit, ConfirmedAsked, AddedIsMined, HasKey, Asks, Known
<1>4. AnswersInv
  <2>1. AnsweredFirst /\ DenialsKnown
    BY DevicesAssumption DEF DevicesInit, AnsweredFirst, DenialsKnown
  <2>2. RequestsStayUnanswered
    BY RowFacts, DevicesAssumption DEF DevicesInit, RequestsStayUnanswered, Asks
  <2> QED BY <2>1, <2>2 DEF AnswersInv
<1> QED BY TypeInit, <1>1, <1>2, <1>3, <1>4 DEF IInv

\* A device that goes on after it has asked.
LEMMA DeviceInv ==
  ASSUME IInv, DevicesTypeOK', NEW k \in Keys, NEW d \in Device, DeviceBecomes(k, d), UNCHANGED rows,
         device[k].pc # "new", d.pc # "new", d.wallet = device[k].wallet
  PROVE  IInv'
<1>1. Settled
  BY SettledByDevice DEF IInv
<1>2. UNCHANGED <<owner, misled, rows, denials, answered, execution, unhandled, added>>
  BY DEF DeviceBecomes, owner
<1>3. AddedIsMined' /\ NewAskNothing'
  BY <1>1, <1>2 DEF IInv, AddedIsMined, HasKey, Settled
<1>4. ConfirmedAsked'
  BY <1>1, <1>2, ConfirmationsKept DEF HasKey
<1>5. \A r \in Row : Asks(r)' => Asks(r)
  <2>1. device \in [Keys -> Device] /\ device' = [device EXCEPT ![k] = d]
    BY DEF IInv, DevicesTypeOK, DeviceBecomes
  <2> QED BY <2>1, RowFacts DEF Asks
<1>6. AnswersInv'
  BY <1>1, <1>2, <1>5, AnswersKept
<1> QED BY <1>1, <1>2, <1>3, <1>4, <1>6, OwnerKeeps, RowsKept DEF IInv

\* A device asks: its key is new, so nothing about it is on chain yet.
LEMMA ConnectInv ==
  ASSUME IInv, DevicesTypeOK', NEW k \in Keys, NEW w \in Wallets, Connect(k, w)
  PROVE  IInv'
<1> DEFINE r == [wallet |-> w, key |-> k]
<1>1. r \in Row /\ r \in Requests /\ device[k].pc = "new" /\ rows' = rows \cup {r}
  BY DEF Connect, Row
<1>2. PICK d \in Device : DeviceBecomes(k, d) /\ d.pc = "posted" /\ d.wallet = w
  <2>1. \A logsRead \in BOOLEAN :
          [pc |-> "posted", wallet |-> w, logsRead |-> logsRead, passed |-> FALSE] \in Device
    BY DEF Device
  <2> QED BY <2>1 DEF Connect
<1>3. Settled
  BY <1>1, <1>2, SettledByDevice DEF IInv
<1>4. /\ UNCHANGED <<owner, misled, denials, answered, execution, unhandled, added>>
      /\ device' = [device EXCEPT ![k] = d]
  BY <1>2 DEF DeviceBecomes, owner
<1>5. ~Known(k)
  BY <1>1, DevicesAssumption DEF Known
<1>6. ~HasKey(r)
  BY <1>1, <1>5 DEF IInv, ConfirmedAsked
<1>7. Asks(r)' /\ Known(k)'
  BY <1>2, <1>4 DEF IInv, DevicesTypeOK, Asks, Known
<1> HIDE DEF r
<1>8. RowsAsked'
  <2> SUFFICES ASSUME NEW t \in rows' PROVE Asks(t)' /\ Known(t.key)'
    BY DEF RowsAsked
  <2>1. CASE t \in rows
    BY <1>3, <2>1, RowFacts DEF IInv, DevicesTypeOK, RowsAsked, Settled
  <2>2. CASE t = r
    BY <1>7, <2>2 DEF r
  <2> QED BY <1>1, <2>1, <2>2
<1>9. AddedIsMined'
  BY <1>1, <1>4, <1>6 DEF IInv, AddedIsMined, HasKey
<1>10. ConfirmedAsked'
  BY <1>3, <1>4, ConfirmationsKept DEF HasKey
<1>11. AnsweredFirst'
  <2>1. execution[r] = "none" /\ r \notin denials
    BY <1>1, <1>5 DEF r, IInv, ConfirmedAsked, AnswersInv, DenialsKnown
  <2> QED BY <1>1, <1>4, <2>1 DEF IInv, AnswersInv, AnsweredFirst
<1>12. DenialsKnown'
  <2>1. denials \subseteq Row
    BY DEF IInv, DevicesTypeOK
  <2> QED BY <1>3, <1>4, <2>1, RowFacts DEF IInv, AnswersInv, DenialsKnown, Settled
<1>13. RequestsStayUnanswered'
  <2> SUFFICES ASSUME NEW t \in Row, Asks(t)' PROVE t \in rows' \/ t \in answered'
    BY DEF RequestsStayUnanswered
  <2>1. CASE t = r
    BY <1>1, <2>1
  <2>2. CASE t # r
    <3>1. t.key # k \/ t.wallet # w
      BY <2>2, RowFacts DEF r
    <3>2. device \in [Keys -> Device]
      BY DEF IInv, DevicesTypeOK
    <3>3. Asks(t)
      BY <1>2, <1>4, <3>1, <3>2, RowFacts DEF Asks
    <3> QED BY <1>1, <1>4, <3>3 DEF IInv, AnswersInv, RequestsStayUnanswered
  <2> QED BY <2>1, <2>2
<1> QED BY <1>3, <1>4, <1>8, <1>9, <1>10, <1>11, <1>12, <1>13, OwnerKeeps DEF IInv, Settled, AnswersInv

\* Steps of the owner's application that leave the relayer and the chain alone.
LEMMA OwnerInv ==
  ASSUME IInv, DevicesTypeOK', UNCHANGED <<relayer, added, device, answered>>, misled => misled',
         AnswersAsked', PageAsked'
  PROVE  IInv'
<1>1. UNCHANGED <<rows, denials, execution, unhandled, added, device, answered>>
  BY DEF relayer
<1>2. Settled
  BY <1>1, SettledUnchanged DEF IInv
<1>3. AddedIsMined' /\ NewAskNothing' /\ RowsAsked'
  BY <1>1, <1>2, RowsKept DEF IInv, AddedIsMined, HasKey, Settled
<1>4. ConfirmedAsked'
  BY <1>1, <1>2, ConfirmationsKept DEF HasKey
<1>5. AnswersInv'
  BY <1>1, <1>2, AnswersKept DEF Asks
<1> QED BY <1>3, <1>4, <1>5 DEF IInv

\* Steps of the relayer and the chain: requests leave once they are answered, and
\* a key that comes on chain has been confirmed.
LEMMA RelayerInv ==
  ASSUME IInv, DevicesTypeOK', UNCHANGED <<owner, device, answered>>,
         rows' \subseteq rows, rows \ rows' \subseteq answered, denials' \subseteq denials,
         \A r \in rows' : execution'[r] # "none" => execution[r] # "none",
         \A r \in Row : execution'[r] # "none" \/ HasKey(r)' => execution[r] # "none" \/ HasKey(r),
         AddedIsMined'
  PROVE  IInv'
<1>1. Settled
  BY SettledUnchanged DEF IInv
<1>2. UNCHANGED misled
  BY DEF owner
<1>3. AnswersInv'
  BY <1>1, AnswersKept DEF Asks
<1> QED BY <1>1, <1>2, <1>3, OwnerKeeps, RowsKept, ConfirmationsKept DEF IInv, Settled

LEMMA StepInv == IInv /\ [DevicesNext]_vars => IInv'
<1> SUFFICES ASSUME IInv, [DevicesNext]_vars PROVE IInv'
  OBVIOUS
<1>0. DevicesTypeOK /\ DevicesTypeOK'
  BY TypeStep DEF IInv
<1>1. ASSUME NEW w \in Wallets, OpenPage(w) PROVE IInv'
  <2>1. UNCHANGED <<relayer, added, device, answered, last, misled>> /\ page = NoWallet
    BY <1>1 DEF OpenPage
  <2>2. PageAsked'
    BY <2>1 DEF IInv, PageAsked, Known
  <2>3. AnswersAsked'
    BY <1>0, <1>1 DEF IInv, DevicesTypeOK, OpenPage, AnswersAsked, AnswerAsked, Asked, Asks, Known
  <2> QED BY <1>0, <2>1, <2>2, <2>3, OwnerInv
<1>2. CASE ClosePage
  <2>1. UNCHANGED <<relayer, added, device, answered, loops, misled>> /\ last' = {}
    BY <1>2 DEF ClosePage
  <2>2. PageAsked' /\ AnswersAsked'
    BY <2>1 DEF IInv, PageAsked, AnswersAsked, AnswerAsked, Asks, Known
  <2> QED BY <1>0, <2>1, <2>2, OwnerInv
<1>3. ASSUME NEW i \in LoopIds, LoopAgain(i) PROVE IInv'
  <2>1. UNCHANGED <<relayer, added, device, answered, page, last, misled>>
    BY <1>3 DEF LoopAgain
  <2>2. loops'[i].keys = {} /\ \A j \in LoopIds : j # i => loops'[j] = loops[j]
    BY <1>0, <1>3 DEF LoopAgain, DevicesTypeOK, Asked, NoLoop
  <2>3. PageAsked' /\ AnswersAsked'
    BY <2>1, <2>2 DEF IInv, PageAsked, AnswersAsked, AnswerAsked, Asks, Known, OnPage
  <2> QED BY <1>0, <2>1, <2>3, OwnerInv
<1>4. ASSUME NEW i \in LoopIds, GetPending(i) PROVE IInv'
  <2> DEFINE w == loops[i].wallet
  <2>1. UNCHANGED <<relayer, added, device, answered, page, last, misled, rows>>
    BY <1>4 DEF GetPending, relayer
  <2>2. \A j \in LoopIds : j # i => loops'[j] = loops[j]
    BY <1>0, <1>4 DEF GetPending, DevicesTypeOK
  <2>3. \/ loops'[i].keys = {}
        \/ /\ loops'[i].wallet = w /\ w \in Wallets
           /\ \A k \in loops'[i].keys : [wallet |-> w, key |-> k] \in rows
    <3>1. loops \in [LoopIds -> Loop] /\ loops[i] \in Loop
      BY <1>0 DEF DevicesTypeOK
    <3>2. CASE Authorised(w)
      BY <1>4, <3>1, <3>2, DevicesAssumption DEF GetPending, Loop, Authorised
    <3>3. CASE ~Authorised(w)
      BY <1>4, <3>1, <3>3 DEF GetPending, Rejected, NoLoop
    <3> QED BY <3>2, <3>3
  <2>4. AnswerAsked(i)'
    <3>1. \A r \in rows : Asks(r)' /\ Known(r.key)'
      BY <2>1 DEF IInv, RowsAsked, Asks, Known
    <3> QED BY <2>3, <3>1 DEF AnswerAsked
  <2>5. AnswersAsked'
    <3> SUFFICES ASSUME NEW j \in LoopIds PROVE AnswerAsked(j)'
      BY DEF AnswersAsked
    <3>1. CASE j = i
      BY <2>4, <3>1
    <3>2. CASE j # i
      BY <2>1, <2>2, <3>2 DEF IInv, AnswersAsked, AnswerAsked, Asks, Known
    <3> QED BY <3>1, <3>2
  <2>6. PageAsked'
    BY <2>1 DEF IInv, PageAsked, Asks, Known, OnPage
  <2> QED BY <1>0, <2>1, <2>5, <2>6, OwnerInv
<1>5. ASSUME NEW i \in LoopIds, Deliver(i) PROVE IInv'
  <2>1. UNCHANGED <<relayer, added, device, answered, page>> /\ (misled => misled')
    BY <1>5 DEF Deliver
  <2>2. loops'[i].keys = {} /\ \A j \in LoopIds : j # i => loops'[j] = loops[j]
    BY <1>0, <1>5 DEF Deliver, DevicesTypeOK, NoLoop
  <2>3. AnswersAsked'
    BY <2>1, <2>2 DEF IInv, AnswersAsked, AnswerAsked, Asks, Known
  <2>4. ASSUME loops[i].error PROVE PageAsked'
    <3>1. last' = last
      BY <1>5, <2>4 DEF Deliver
    <3> QED BY <2>1, <3>1 DEF IInv, PageAsked, Asks, Known, OnPage
  <2>5. ASSUME ~loops[i].error PROVE PageAsked'
    <3>1. last' = loops[i].keys
      BY <1>5, <2>5 DEF Deliver
    <3>2. loops[i].wallet # page => misled'
      BY <1>5, <2>5 DEF Deliver
    <3>3. \A k \in last' : /\ loops[i].wallet \in Wallets /\ Known(k)
                          /\ Asks([wallet |-> loops[i].wallet, key |-> k])
      BY <3>1 DEF IInv, AnswersAsked, AnswerAsked
    <3>4. PageAsked'
      BY <2>1, <3>2, <3>3, DevicesAssumption DEF PageAsked, Asks, Known, OnPage
    <3> QED BY <3>4
  <2>6. PageAsked'
    BY <2>4, <2>5
  <2> QED BY <1>0, <2>1, <2>3, <2>6, OwnerInv
<1>6. ASSUME NEW i \in LoopIds, GetPendingFails(i) PROVE IInv'
  <2>1. UNCHANGED <<relayer, added, device, answered, page, last, misled>>
    BY <1>6 DEF GetPendingFails
  <2>2. loops'[i].keys = {} /\ \A j \in LoopIds : j # i => loops'[j] = loops[j]
    BY <1>0, <1>6 DEF GetPendingFails, DevicesTypeOK, Rejected, NoLoop
  <2>3. PageAsked' /\ AnswersAsked'
    BY <2>1, <2>2 DEF IInv, PageAsked, AnswersAsked, AnswerAsked, Asks, Known, OnPage
  <2> QED BY <1>0, <2>1, <2>3, OwnerInv
<1>7. ASSUME NEW k \in Keys, Confirm(k) PROVE IInv'
  <2> DEFINE r == OnPage(k)
  <2>1. UNCHANGED <<owner, page, last, misled, rows, denials, unhandled, added, device>>
    BY <1>7 DEF Confirm, owner
  <2>2. k \in last /\ page # NoWallet /\ execution[r] = "none"
    BY <1>7 DEF Confirm, Answers, Shown
  <2>3. Known(k) /\ (misled \/ Asks(r)) /\ r \in Row /\ r.key = k
    BY <1>0, <2>2, OnPageInRow DEF IInv, PageAsked, OnPage
  <2>4. execution' = [execution EXCEPT ![r] = "queued"]
    BY <1>7 DEF Confirm
  <2>5. Settled
    BY <2>1, SettledUnchanged DEF IInv
  <2> HIDE DEF r
  <2>6. ConfirmedAsked'
    BY <1>0, <2>1, <2>3, <2>4 DEF IInv, DevicesTypeOK, ConfirmedAsked, HasKey, Asks, Known
  <2>7. AddedIsMined'
    BY <1>0, <2>1, <2>2, <2>3, <2>4 DEF r, IInv, DevicesTypeOK, AddedIsMined, HasKey
  <2>8. answered' = answered \cup ({r} \cap rows)
    BY <1>7 DEF Confirm, Answers, r
  <2>9. AnsweredFirst'
    BY <1>0, <2>1, <2>4, <2>8 DEF IInv, DevicesTypeOK, AnswersInv, AnsweredFirst
  <2>10. DenialsKnown' /\ RequestsStayUnanswered'
    BY <2>1, <2>8 DEF IInv, AnswersInv, DenialsKnown, Known, RequestsStayUnanswered, Asks
  <2> QED BY <1>0, <2>1, <2>5, <2>6, <2>7, <2>9, <2>10, OwnerKeeps, RowsKept DEF IInv, Settled, AnswersInv
<1>8. ASSUME NEW k \in Keys, Deny(k) PROVE IInv'
  <2> DEFINE r == OnPage(k)
  <2>1. UNCHANGED <<owner, misled, rows, execution, unhandled, added, device>>
    BY <1>8 DEF Deny, owner
  <2>2. answered' = answered \cup ({r} \cap rows) /\ denials' = denials \cup ({r} \cap rows)
    BY <1>8 DEF Deny, Answers, CancelRequest, r
  <2>3. Settled
    BY <2>1, SettledUnchanged DEF IInv
  <2> HIDE DEF r
  <2>4. AddedIsMined' /\ ConfirmedAsked'
    BY <2>1 DEF IInv, AddedIsMined, ConfirmedAsked, HasKey, Known, Asks
  <2>5. AnsweredFirst' /\ RequestsStayUnanswered'
    BY <2>1, <2>2 DEF IInv, AnswersInv, AnsweredFirst, RequestsStayUnanswered, Asks
  <2>6. DenialsKnown'
    BY <2>1, <2>2 DEF IInv, AnswersInv, RowsAsked, DenialsKnown, Known
  <2> QED BY <1>0, <2>1, <2>3, <2>4, <2>5, <2>6, OwnerKeeps, RowsKept DEF IInv, Settled, AnswersInv
<1>9. ASSUME NEW r \in Row, MineAddKey(r) PROVE IInv'
  <2>1. UNCHANGED <<owner, device, answered, denials, rows, unhandled>>
    BY <1>9 DEF MineAddKey, Executes
  <2>2. execution[r] = "queued" /\ execution' = [execution EXCEPT ![r] = "mined"]
    BY <1>9 DEF MineAddKey, Executes
  <2>3. /\ \A s \in Row : s # r /\ added[s] = "no" => added'[s] = "no"
        /\ \A s \in Row : added[s] # "no" => added'[s] # "no"
    BY <1>0, <1>9 DEF MineAddKey, Aged, DevicesTypeOK
  <2>4. \A s \in Row : execution'[s] # "none" \/ HasKey(s)' => execution[s] # "none" \/ HasKey(s)
    BY <1>0, <2>2, <2>3 DEF DevicesTypeOK, HasKey
  <2>5. AddedIsMined'
    BY <1>0, <2>1, <2>2, <2>3 DEF IInv, DevicesTypeOK, AddedIsMined, HasKey
  <2>6. \A s \in rows' : execution'[s] # "none" => execution[s] # "none"
    BY <1>0, <2>1, <2>2 DEF DevicesTypeOK
  <2> QED BY <1>0, <2>1, <2>4, <2>5, <2>6, RelayerInv
<1>10. ASSUME NEW r \in Row, ExecutionFails(r) PROVE IInv'
  <2>1. UNCHANGED <<owner, device, answered, denials, rows, added>>
    BY <1>10 DEF ExecutionFails, Executes
  <2>2. /\ execution[r] # "none" /\ execution' = [execution EXCEPT ![r] = "none"]
        /\ unhandled \subseteq unhandled' /\ (execution[r] = "mined" /\ r \in rows => r \in unhandled')
    BY <1>10 DEF ExecutionFails, Executes
  <2>3. \A s \in Row : execution'[s] # "none" \/ HasKey(s)' => execution[s] # "none" \/ HasKey(s)
    BY <1>0, <2>1, <2>2 DEF DevicesTypeOK, HasKey
  <2>4. AddedIsMined'
    BY <1>0, <2>1, <2>2 DEF IInv, DevicesTypeOK, AddedIsMined, HasKey
  <2>5. \A s \in rows' : execution'[s] # "none" => execution[s] # "none"
    BY <1>0, <2>1, <2>2 DEF DevicesTypeOK
  <2> QED BY <1>0, <2>1, <2>3, <2>4, <2>5, RelayerInv
<1>11. ASSUME NEW r \in Row, OnTransactionSent(r) PROVE IInv'
  <2>1. /\ UNCHANGED <<owner, device, answered, denials, added>>
        /\ unhandled' = unhandled \cap rows' /\ rows' \subseteq rows
    BY <1>11 DEF OnTransactionSent, RemoveRequest
  <2>2. execution[r] = "mined" /\ execution' = [execution EXCEPT ![r] = "none"]
    BY <1>11 DEF OnTransactionSent
  <2>3. rows' = IF r.key \in ZeroLed THEN rows ELSE rows \ {r}
    <3>1. rows' = rows \ {[r EXCEPT !.key = KeyFromData(@)]}
      BY <1>11 DEF OnTransactionSent, RemoveRequest
    <3>2. CASE r.key \in ZeroLed
      <4>1. [r EXCEPT !.key = KeyFromData(@)].key \notin Keys
        BY <3>2, DevicesAssumption DEF KeyFromData, Row
      <4> QED BY <1>0, <3>1, <3>2, <4>1, RowFacts DEF DevicesTypeOK
    <3>3. CASE r.key \notin ZeroLed
      <4>1. [r EXCEPT !.key = KeyFromData(@)] = r
        BY <3>3 DEF KeyFromData, Row
      <4> QED BY <3>1, <3>3, <4>1
    <3> QED BY <3>2, <3>3
  <2>4. rows \ rows' \subseteq answered
    BY <2>2, <2>3 DEF IInv, AnswersInv, AnsweredFirst
  <2>5. \A s \in Row : execution'[s] # "none" \/ HasKey(s)' => execution[s] # "none" \/ HasKey(s)
    BY <1>0, <2>1, <2>2 DEF DevicesTypeOK, HasKey
  <2>6. \A s \in rows' : execution'[s] # "none" => execution[s] # "none"
    BY <1>0, <2>1, <2>2 DEF DevicesTypeOK
  <2>7. AddedIsMined'
    BY <1>0, <2>1, <2>2, <2>3 DEF IInv, DevicesTypeOK, AddedIsMined, HasKey
  <2> QED BY <1>0, <2>1, <2>4, <2>5, <2>6, <2>7, RelayerInv
<1>12. CASE MineOther
  <2>1. UNCHANGED <<owner, device, answered, denials, rows, unhandled, execution>>
    BY <1>12 DEF MineOther, relayer
  <2>2. \A s \in Row : HasKey(s)' <=> HasKey(s)
    BY <1>0, <1>12 DEF MineOther, Aged, DevicesTypeOK, HasKey
  <2>3. AddedIsMined'
    BY <1>0, <2>1, <2>2 DEF IInv, DevicesTypeOK, AddedIsMined
  <2> QED BY <1>0, <2>1, <2>2, <2>3, RelayerInv
<1>13. ASSUME NEW k \in Keys, NEW w \in Wallets, Connect(k, w) PROVE IInv'
  BY <1>0, <1>13, ConnectInv
<1>14. ASSUME NEW k \in Keys, Subscribe(k) \/ FetchEvents(k) \/ FetchBlockNumber(k) \/ GiveUp(k)
       PROVE  IInv'
  <2>1. device[k] \in Device /\ device[k].pc # "new" /\ UNCHANGED rows
    BY <1>0, <1>14 DEF DevicesTypeOK, Subscribe, FetchEvents, FetchBlockNumber, GiveUp
  <2>2. PICK d \in Device : DeviceBecomes(k, d) /\ d.pc # "new" /\ d.wallet = device[k].wallet
    <3> DEFINE Goes(d) == d \in Device /\ d.pc # "new" /\ d.wallet = device[k].wallet
    <3>1. Goes(Leaving(k, "connected")) /\ Goes(Leaving(k, "gone"))
      BY <2>1 DEF Leaving, Device
    <3>2. /\ Goes([device[k] EXCEPT !.pc = "subscribed"]) /\ Goes([device[k] EXCEPT !.logsRead = TRUE])
          /\ Goes([device[k] EXCEPT !.logsRead = FALSE, !.passed = PassedBy(RowOf(k))])
      BY <2>1 DEF PassedBy, Device
    <3> HIDE DEF Goes
    <3>3. \E d : DeviceBecomes(k, d) /\ Goes(d)
      BY <1>14, <3>1, <3>2 DEF Subscribe, FetchEvents, FetchBlockNumber, GiveUp
    <3> QED BY <3>3 DEF Goes
  <2> QED BY <1>0, <2>1, <2>2, DeviceInv
<1>15. ASSUME NEW r \in Row, RemoveDenied(r) \/ DenialFails(r) PROVE IInv'
  <2>1. /\ UNCHANGED <<owner, device, answered, execution, added>>
        /\ r \in denials /\ denials' \subseteq denials
        /\ rows' \in {rows, rows \ {r}} /\ unhandled \cap rows' \subseteq unhandled'
    BY <1>15 DEF RemoveDenied, DenialFails, RemoveRequest
  <2>2. rows' \subseteq rows /\ rows \ rows' \subseteq answered
    BY <2>1 DEF IInv, AnswersInv, AnsweredFirst
  <2>3. AddedIsMined'
    BY <2>1, <2>2 DEF IInv, AddedIsMined, HasKey
  <2> QED BY <1>0, <2>1, <2>2, <2>3, RelayerInv DEF HasKey
<1>16. CASE UNCHANGED vars
  <2>1. UNCHANGED <<relayer, added, device, answered, owner>>
    BY <1>16 DEF vars
  <2>2. PageAsked' /\ AnswersAsked' /\ UNCHANGED misled
    BY <2>1, OwnerKeeps, SettledUnchanged DEF IInv, owner
  <2> QED BY <1>0, <2>1, <2>2, OwnerInv
<1> QED
  BY <1>1, <1>2, <1>3, <1>4, <1>5, <1>6, <1>7, <1>8, <1>9, <1>10, <1>11, <1>12, <1>13, <1>14, <1>15, <1>16
  DEF DevicesNext, OwnerNext, ObserverSteps, RelayerNext, DeviceNext, DeviceSteps

LEMMA Invariance == DevicesSpec => []IInv
BY InitInv, StepInv, PTL DEF DevicesSpec

-----------------------------------------------------------------------------
\* The observers, the table of authorisations and the chain stay within their
\* types; the runner is on exactly while a page is open.
THEOREM TypesHold == DevicesSpec => []DevicesTypeOK
BY Invariance, PTL DEF IInv

\* An owner adds keys only to the wallets their devices asked, unless an answer
\* for one wallet has arrived on the page of another.
LEMMA KeysFromInv == IInv => KeysWhereAsked
BY DEF IInv, ConfirmedAsked, KeysWhereAsked

THEOREM KeysAddedWhereAsked == DevicesSpec => []KeysWhereAsked
BY Invariance, KeysFromInv, PTL

\* A confirmed request leaves the table once the relayer has seen its
\* transaction, in whatever order blocks, failures and denials come.
LEMMA LeavingFromInv == IInv => ConfirmedRequestsLeave
BY DEF IInv, AddedIsMined, ConfirmedRequestsLeave

THEOREM ConfirmedLeave == DevicesSpec => []ConfirmedRequestsLeave
BY Invariance, LeavingFromInv, PTL

\* Whoever has asked is in the table until the owner has answered, however late
\* transactions and denials delete rows and whatever page is open by then.
LEMMA StaysFromInv == IInv => RequestsStayUnanswered
BY DEF IInv, AnswersInv

THEOREM RequestsStay == DevicesSpec => []RequestsStayUnanswered
BY Invariance, StaysFromInv, PTL

-----------------------------------------------------------------------------
(***************************************************************************)
(* The code of a request.  The loops of SecurityCodes are recursive        *)
(* functions, so that they have their values is itself to be proved.       *)
(***************************************************************************)
\* Induction up to n, over a set: facts with an operator parameter cannot be used.
LEMMA InductionUpTo ==
  ASSUME NEW n \in Nat, NEW S, 0 \in S, \A i \in 1..n : i - 1 \in S => i \in S
  PROVE  0..n \subseteq S
<1> DEFINE R == OpToRel(<, Nat)
           T == (0..n) \ S
<1>1. IsWellFoundedOn(R, Nat) /\ \A x, y \in Nat : <<x, y>> \in R <=> x < y
  BY NatLessThanWellFounded DEF OpToRel
<1>2. T \subseteq Nat
  OBVIOUS
<1> HIDE DEF R, T
<1>3. ASSUME T # {} PROVE FALSE
  <2>1. \E i \in T : \A j \in T : ~ (<<j, i>> \in R)
    <3>1. IsWellFoundedOn(R, Nat)
      BY <1>1
    <3> QED BY <1>2, <1>3, <3>1, WFMin
  <2>2. PICK i \in T : \A j \in T : ~ (j < i)
    BY <1>1, <1>2, <2>1
  <2>3. i \in 1..n /\ i - 1 \in 0..n /\ i - 1 < i
    BY <2>2 DEF T
  <2>4. i - 1 \notin T
    BY <2>2, <2>3
  <2> QED BY <2>2, <2>3, <2>4 DEF T
<1> QED BY <1>3 DEF T

\* The states g[0], ..., g[n] of a loop that starts in a and whose body, a
\* function of the round and the state, keeps the set A ...
IsRun(g, n, A, a, body) ==
  g \in [0..n -> A] /\ g[0] = a /\ \A i \in 1..n : g[i] = body[<<i, g[i - 1]>>]

\* ... and there are such states.
LEMMA LoopRuns ==
  ASSUME NEW A, NEW a \in A, NEW n \in Nat, NEW body \in [(1..n) \X A -> A]
  PROVE  \E g : IsRun(g, n, A, a, body)
<1> DEFINE Run(g, m) == IsRun(g, m, A, a, body)
           S == {m \in 0..n : \E g : Run(g, m)}
<1>1. 0 \in S
  <2>1. Run([i \in 0..0 |-> a], 0)
    BY DEF IsRun
  <2> HIDE DEF Run
  <2> QED BY <2>1
<1>2. ASSUME NEW m \in 1..n, m - 1 \in S PROVE m \in S
  <2>1. PICK g : Run(g, m - 1)
    BY <1>2
  <2> DEFINE h == [i \in 0..m |-> IF i = m THEN body[<<m, g[m - 1]>>] ELSE g[i]]
  <2>2. g[m - 1] \in A /\ body[<<m, g[m - 1]>>] \in A
    BY <2>1 DEF IsRun
  <2>3. h \in [0..m -> A] /\ h[0] = a
    BY <2>1, <2>2 DEF IsRun
  <2>4. \A i \in 1..m : h[i] = body[<<i, h[i - 1]>>]
    <3>1. h[m] = body[<<m, g[m - 1]>>] /\ \A i \in 0..(m - 1) : h[i] = g[i]
      OBVIOUS
    <3>2. \A i \in 1..m : i - 1 \in 0..(m - 1) /\ (i # m => i \in 1..(m - 1) /\ i \in 0..(m - 1))
      OBVIOUS
    <3> HIDE DEF h
    <3> QED BY <2>1, <3>1, <3>2 DEF IsRun
  <2>5. Run(h, m)
    <3> HIDE DEF h
    <3> QED BY <2>3, <2>4 DEF IsRun
  <2> HIDE DEF Run, h
  <2> QED BY <2>5
<1>3. n \in S
  <2> HIDE DEF S
  <2> QED BY <1>1, <1>2, InductionUpTo
<1>4. \E g : Run(g, n)
  <2> HIDE DEF Run
  <2> QED BY <1>3
<1> QED BY <1>4

-----------------------------------------------------------------------------
\* The sequences with the elements of s in some order.
Orders(s) ==
  LET places == 1..Len(s)
      injective == {p \in [places -> places] : \A i, j \in places : p[i] = p[j] => i = j}
      bijective == {p \in injective : \A j \in places : \E i \in places : p[i] = j}
  IN {[i \in places |-> s[p[i]]] : p \in bijective}

LEMMA SwappedOrders ==
  ASSUME NEW V, NEW s \in Seq(V), NEW t \in Orders(s), NEW i \in 1..Len(s), NEW j \in 1..Len(s)
  PROVE  Swapped(t, i, j) \in Orders(s)
<1> DEFINE places == 1..Len(s)
           injective == {p \in [places -> places] : \A x, y \in places : p[x] = p[y] => x = y}
           bijective == {p \in injective : \A y \in places : \E x \in places : p[x] = y}
<1>1. PICK p \in bijective : t = [x \in places |-> s[p[x]]]
  BY DEF Orders
<1> DEFINE q == [x \in places |-> IF x = i THEN p[j] ELSE IF x = j THEN p[i] ELSE p[x]]
<1>2. p \in [places -> places]
  OBVIOUS
<1>3. \A x, y \in places : p[x] = p[y] => x = y
  OBVIOUS
<1>4. \A y \in places : \E x \in places : p[x] = y
  OBVIOUS
<1> HIDE DEF places
<1>5. i \in places /\ j \in places
  BY DEF places
<1>6. q \in injective
  BY <1>2, <1>3, <1>5
<1>7. \A y \in places : \E x \in places : q[x] = y
  <2> SUFFICES ASSUME NEW y \in places PROVE \E x \in places : q[x] = y
    OBVIOUS
  <2>1. PICK x \in places : p[x] = y
    BY <1>4
  <2>2. q[i] = p[j] /\ q[j] = p[i] /\ (x # i /\ x # j => q[x] = p[x])
    BY <1>5
  <2> QED BY <1>5, <2>1, <2>2
<1>8. Swapped(t, i, j) = [x \in places |-> s[q[x]]]
  BY <1>1, <1>2, <1>5 DEF Swapped
<1>9. q \in bijective
  BY <1>6, <1>7
<1>10. Swapped(t, i, j) \in {[x \in places |-> s[r[x]]] : r \in bijective}
  <2> HIDE DEF q, bijective
  <2> QED BY <1>8, <1>9
<1> QED BY <1>10 DEF Orders, places

\* Whatever Math.random chooses, shuffle loses, adds and repeats nothing.
THEOREM ShufflePermutes ==
  ASSUME NEW V, NEW s \in Seq(V), Len(s) > 0, NEW choice \in RandomPlaces(Len(s))
  PROVE  Shuffle(s, choice) \in Orders(s)
<1> DEFINE n == Len(s) - 1
           A == Orders(s)
           body == [x \in (1..n) \X A |->
                      LET i == Len(s) + 1 - x[1] IN Swapped(x[2], i, choice[i])]
           Run(g) == g = [m \in 0..n |->
                            IF m = 0 THEN s
                            ELSE LET i == Len(s) + 1 - m IN Swapped(g[m - 1], i, choice[i])]
<1>1. s \in A
  <2> DEFINE p == [i \in 1..Len(s) |-> i]
  <2>1. s = [i \in 1..Len(s) |-> s[p[i]]]
    OBVIOUS
  <2> QED BY <2>1 DEF Orders
<1>2. \A m \in 1..n, t \in A : Swapped(t, Len(s) + 1 - m, choice[Len(s) + 1 - m]) \in A
  <2> SUFFICES ASSUME NEW m \in 1..n, NEW t \in A
               PROVE  Swapped(t, Len(s) + 1 - m, choice[Len(s) + 1 - m]) \in A
    OBVIOUS
  <2>1. Len(s) + 1 - m \in 2..Len(s)
    OBVIOUS
  <2>2. choice[Len(s) + 1 - m] \in 1..Len(s)
    BY <2>1 DEF RandomPlaces
  <2> QED BY <2>1, <2>2, SwappedOrders
<1> HIDE DEF A
<1>3. body \in [(1..n) \X A -> A]
  BY <1>2
<1>4. n \in Nat
  OBVIOUS
<1>5. PICK g \in [0..n -> A] : g[0] = s /\ \A m \in 1..n : g[m] = body[<<m, g[m - 1]>>]
  <2> HIDE DEF body, n
  <2>1. PICK g : IsRun(g, n, A, s, body)
    BY <1>1, <1>3, <1>4, LoopRuns
  <2> QED BY <2>1 DEF IsRun
<1>6. \A m \in 0..n : m # 0 => m \in 1..n /\ g[m - 1] \in A
  BY <1>5
<1>7. Run(g)
  <2>1. \A m \in 0..n : m # 0 =>
          body[<<m, g[m - 1]>>] = LET i == Len(s) + 1 - m IN Swapped(g[m - 1], i, choice[i])
    BY <1>6
  <2> HIDE DEF body
  <2> QED BY <1>5, <1>6, <2>1
<1> DEFINE after == CHOOSE run : Run(run)
<1>8. Run(after)
  <2> HIDE DEF Run
  <2> QED BY <1>7
<1>9. \A m \in 0..n : after[m] \in A
  <2> HIDE DEF after
  <2> DEFINE S == {m \in 0..n : after[m] \in A}
  <2>1. 0 \in S
    BY <1>1, <1>4, <1>8
  <2>2. \A m \in 1..n : m - 1 \in S => m \in S
    BY <1>2, <1>4, <1>8
  <2> HIDE DEF S
  <2>3. 0..n \subseteq S
    BY <1>4, <2>1, <2>2, InductionUpTo
  <2> QED BY <2>3 DEF S
<1>10. Shuffle(s, choice) = after[n]
  BY DEF Shuffle
<1> QED BY <1>9, <1>10, <1>4 DEF A

-----------------------------------------------------------------------------
LEMMA CodeType ==
  ASSUME NEW d \in {Digest, FakeDigest}, NEW k \in Keys
  PROVE  GenerateCode(d[k]) \in [1..SECURITY_CODE_LENGTH -> 0..MASK]
<1> DEFINE bytes == d[k]
           pair == Slices(bytes)
           words == Array8bitTo16bit(bytes)
<1>1. bytes \in Seq(0..255) /\ Len(bytes) >= 2 * SECURITY_CODE_LENGTH /\ SECURITY_CODE_LENGTH \in Nat
  BY DigestsAssumption
<1> HIDE DEF bytes
<1>2. \A i \in 1..SECURITY_CODE_LENGTH :
        /\ i \in 1..(Len(bytes) \div 2)
        /\ 2 * i - 1 \in 1..Len(bytes) /\ 2 * i \in 1..Len(bytes)
  BY <1>1
<1>3. \A i \in 1..SECURITY_CODE_LENGTH : pair[i][1] \in Nat /\ pair[i][2] \in Nat
  <2> SUFFICES ASSUME NEW i \in 1..SECURITY_CODE_LENGTH
               PROVE  pair[i][1] \in Nat /\ pair[i][2] \in Nat
    OBVIOUS
  <2>1. pair[i] = SubSeq(bytes, 2 * i - 1, 2 * i)
    BY <1>2 DEF Slices
  <2>2. pair[i][1] = bytes[2 * i - 1] /\ pair[i][2] = bytes[2 * i]
    BY <1>1, <1>2, <2>1
  <2>3. \A j \in 1..Len(bytes) : bytes[j] \in Nat
    <3> DEFINE Byte == 0..255
    <3>1. bytes \in Seq(Byte) /\ Byte \subseteq Nat
      BY <1>1
    <3> HIDE DEF Byte
    <3>2. \A j \in 1..Len(bytes) : bytes[j] \in Byte
      BY <3>1
    <3> QED BY <3>1, <3>2
  <2> HIDE DEF pair
  <2> QED BY <1>2, <2>2, <2>3
<1>4. \A i \in 1..SECURITY_CODE_LENGTH : words[i] \in Nat
  <2> SUFFICES ASSUME NEW i \in 1..SECURITY_CODE_LENGTH PROVE words[i] \in Nat
    OBVIOUS
  <2>1. i \in DOMAIN pair
    BY <1>2 DEF Slices
  <2>2. words[i] = pair[i][1] * 256 + pair[i][2]
    BY <2>1 DEF Array8bitTo16bit
  <2> HIDE DEF pair, words
  <2> QED BY <1>3, <2>2
<1> HIDE DEF words
<1>5. \A i \in 1..SECURITY_CODE_LENGTH : words[i] % (MASK + 1) \in 0..MASK
  <2>1. \A w \in Nat : w % (MASK + 1) \in 0..MASK
    BY DEF MASK
  <2> QED BY <1>4, <2>1
<1>6. GenerateCode(bytes) = [i \in 1..SECURITY_CODE_LENGTH |-> words[i] % (MASK + 1)]
  BY DEF GenerateCode, words
<1> QED BY <1>5, <1>6 DEF bytes

LEMMA CodeIsSeq ==
  \A d \in {Digest, FakeDigest}, k \in Keys :
    GenerateCode(d[k]) \in Seq(0..MASK) /\ Len(GenerateCode(d[k])) = SECURITY_CODE_LENGTH
<1> DEFINE V == 0..MASK
<1>1. \A d \in {Digest, FakeDigest}, k \in Keys : GenerateCode(d[k]) \in [1..SECURITY_CODE_LENGTH -> V]
  BY CodeType
<1> HIDE DEF V
<1>2. \A f \in [1..SECURITY_CODE_LENGTH -> V] : f \in Seq(V) /\ Len(f) = SECURITY_CODE_LENGTH
  BY DigestsAssumption
<1> QED BY <1>1, <1>2 DEF V

\* What the form holds after each click determines what it holds in the end.
Fills(g, start, panel, emoji) ==
  g[0] = start /\ \A i \in 1..Len(emoji) : g[i] = Clicked(g[i - 1], panel, emoji[i])

LEMMA EnteredIs ==
  ASSUME NEW start, NEW panel, NEW emoji, Len(emoji) \in Nat, NEW g, Fills(g, start, panel, emoji)
  PROVE  Entered(start, panel, emoji) = g[Len(emoji)]
<1> DEFINE n == Len(emoji)
           Run(h) == h = [i \in 0..Len(emoji) |->
                            IF i = 0 THEN start ELSE Clicked(h[i - 1], panel, emoji[i])]
           after == CHOOSE h : Run(h)
<1>1. Run([i \in 0..n |-> g[i]])
  <2> DEFINE h == [i \in 0..n |-> g[i]]
  <2>1. \A i \in 0..n : i # 0 => i \in 1..n /\ i - 1 \in 0..n
    OBVIOUS
  <2>2. \A i \in 0..n : h[i] = IF i = 0 THEN start ELSE Clicked(h[i - 1], panel, emoji[i])
    BY <2>1 DEF Fills
  <2> QED BY <2>2
<1>2. Run(after)
  <2> HIDE DEF Run
  <2> QED BY <1>1
<1>3. after[0] = start /\ \A i \in 1..n : after[i] = Clicked(after[i - 1], panel, emoji[i])
  <2> HIDE DEF after
  <2> QED BY <1>2
<1>4. \A i \in 0..n : after[i] = g[i]
  <2> HIDE DEF after
  <2> DEFINE S == {i \in 0..n : after[i] = g[i]}
  <2>1. 0 \in S /\ \A i \in 1..n : i - 1 \in S => i \in S
    BY <1>3 DEF Fills
  <2> HIDE DEF S
  <2>2. 0..n \subseteq S
    BY <2>1, InductionUpTo
  <2> QED BY <2>2 DEF S
<1>5. Entered(start, panel, emoji) = after[n]
  BY DEF Entered
<1> QED BY <1>4, <1>5

\* The owner enters the code; the click on a full form changes nothing.
LEMMA EntersCode ==
  ASSUME NEW V, NEW code \in Seq(V), Len(code) = SECURITY_CODE_LENGTH,
         NEW panel, Range(code) \subseteq Range(panel), NEW slip \in Range(panel) \cap V
  PROVE  Entered(<< >>, panel, Append(code, slip)) = code
<1> DEFINE L == SECURITY_CODE_LENGTH
           emoji == Append(code, slip)
           g == [i \in 0..(L + 1) |-> IF i = L + 1 THEN code ELSE SubSeq(code, 1, i)]
<1>1. L \in Nat /\ Len(emoji) = L + 1 /\ emoji[L + 1] = slip /\ \A i \in 1..L : emoji[i] = code[i]
  BY DigestsAssumption
<1>2. SubSeq(code, 1, 0) = << >> /\ SubSeq(code, 1, L) = code
  BY <1>1
<1>3. \A i \in 1..L : SubSeq(code, 1, i) = Append(SubSeq(code, 1, i - 1), code[i])
  BY <1>1
<1>4. \A i \in 1..L : code[i] \in Range(panel) /\ Len(SubSeq(code, 1, i - 1)) < L
  <2>1. \A i \in 1..L : code[i] \in Range(code)
    BY DEF Range
  <2> QED BY <1>1, <2>1
<1>5. \A i \in 1..L : SubSeq(code, 1, i) = Clicked(SubSeq(code, 1, i - 1), panel, emoji[i])
  BY <1>1, <1>3, <1>4 DEF Clicked, OnEmojiAdd
<1>6. code = Clicked(code, panel, slip)
  BY <1>1 DEF Clicked, OnEmojiAdd
<1>7. g[0] = << >> /\ g[L] = code /\ g[L + 1] = code /\ \A i \in 0..L : g[i] = SubSeq(code, 1, i)
  BY <1>1, <1>2
<1>8. \A i \in 1..(L + 1) : g[i] = Clicked(g[i - 1], panel, emoji[i])
  <2> HIDE DEF g, emoji
  <2>1. \A i \in 1..L : i \in 0..L /\ i - 1 \in 0..L
    BY <1>1
  <2>2. \A i \in 1..(L + 1) : i \in 1..L \/ (i = L + 1 /\ i - 1 = L)
    BY <1>1
  <2> QED BY <1>1, <1>5, <1>6, <1>7, <2>1, <2>2
<1> HIDE DEF g, emoji
<1>9. Entered(<< >>, panel, emoji) = g[L + 1]
  <2>1. Len(emoji) \in Nat /\ \A i \in 1..Len(emoji) : g[i] = Clicked(g[i - 1], panel, emoji[i])
    BY <1>1, <1>8
  <2>2. Fills(g, << >>, panel, emoji)
    BY <1>7, <2>1 DEF Fills
  <2> QED BY <1>1, <2>1, <2>2, EnteredIs
<1> QED BY <1>7, <1>9 DEF emoji

\* A mistaken first click can be taken back.
LEMMA SlipRemoved ==
  ASSUME NEW V, NEW panel, NEW slip \in Range(panel) \cap V
  PROVE  OnEmojiRemove(Entered(<< >>, panel, <<slip>>), 1) = << >>
<1> DEFINE g == [i \in 0..1 |-> IF i = 0 THEN << >> ELSE <<slip>>]
<1>1. Clicked(<< >>, panel, slip) = <<slip>>
  BY DigestsAssumption DEF Clicked, OnEmojiAdd
<1>2. g[0] = << >> /\ g[1] = <<slip>>
  OBVIOUS
<1>3. \A i \in 1..1 : g[i] = Clicked(g[i - 1], panel, <<slip>>[i])
  BY <1>1, <1>2
<1> HIDE DEF g
<1>4. Entered(<< >>, panel, <<slip>>) = g[1]
  <2>1. Len(<<slip>>) = 1 /\ Fills(g, << >>, panel, <<slip>>)
    BY <1>2, <1>3 DEF Fills
  <2> QED BY <2>1, EnteredIs
<1>5. RemoveAt(<<slip>>, 1) = << >>
  BY DEF RemoveAt
<1> QED BY <1>2, <1>4, <1>5 DEF OnEmojiRemove

\* In whatever order the panel shows the emoji of a key and the fakes, the code
\* of the key can be entered and is found valid.
THEOREM EveryCodeRecognisable == Recognisable = Keys
<1> SUFFICES ASSUME NEW k \in Keys, NEW panel \in Panels(k), NEW slip \in Range(panel)
             PROVE  LET begun == OnEmojiRemove(Entered(<< >>, panel, <<slip>>), 1)
                    IN IsValidCode(Entered(begun, panel, Append(GenerateCode(Digest[k]), slip)), k)
  BY DEF Recognisable
<1> DEFINE L == SECURITY_CODE_LENGTH
           V == 0..MASK
           code == GenerateCode(Digest[k])
           s == CodeWithFakes(k)
<1>1. code \in Seq(V) /\ Len(code) = L /\ L \in Nat \ {0}
  BY CodeIsSeq, DigestsAssumption
<1>2. s \in Seq(V) /\ Len(s) = 2 * L /\ \A i \in 1..L : s[i] = code[i]
  <2>1. GenerateCode(FakeDigest[k]) \in Seq(V) /\ Len(GenerateCode(FakeDigest[k])) = L
    BY CodeIsSeq
  <2> HIDE DEF V, code
  <2> QED BY <1>1, <2>1 DEF CodeWithFakes, code
<1> HIDE DEF V, code, s
<1>3. panel \in Orders(s)
  BY <1>1, <1>2, ShufflePermutes DEF Panels, s
<1>4. Range(panel) \subseteq V /\ Range(code) \subseteq Range(panel)
  <2> DEFINE places == 1..Len(s)
  <2>1. PICK p \in [places -> places] :
          /\ \A j \in places : \E i \in places : p[i] = j
          /\ panel = [i \in places |-> s[p[i]]]
    BY <1>3 DEF Orders
  <2>2. Range(panel) \subseteq V
    <3>1. \A j \in places : s[j] \in V
      BY <1>2
    <3> HIDE DEF places
    <3>2. DOMAIN panel = places /\ \A i \in places : panel[i] \in V
      BY <2>1, <3>1
    <3> QED BY <3>2 DEF Range
  <2>3. \A i \in 1..L : i \in places
    BY <1>1, <1>2
  <2>4. \A i \in 1..L : \E j \in places : panel[j] = code[i]
    BY <1>2, <2>1, <2>3
  <2>5. \A i \in 1..L : code[i] \in Range(panel)
    BY <2>1, <2>4 DEF Range
  <2>6. DOMAIN code = 1..L
    BY <1>1
  <2>7. Range(code) \subseteq Range(panel)
    BY <2>5, <2>6 DEF Range
  <2> QED BY <2>2, <2>7
<1>5. slip \in V
  BY <1>4
<1>6. OnEmojiRemove(Entered(<< >>, panel, <<slip>>), 1) = << >>
  BY <1>5, SlipRemoved
<1>7. Entered(<< >>, panel, Append(code, slip)) = code
  BY <1>1, <1>4, <1>5, EntersCode
<1> QED BY <1>6, <1>7 DEF IsValidCode, code

\* Whatever the page shows, the code of its key can be entered and is accepted.
THEOREM CodesEntered == DevicesSpec => []CodeCanBeEntered
<1>1. IInv => CodeCanBeEntered
  BY EveryCodeRecognisable DEF IInv, DevicesTypeOK, CodeCanBeEntered, Shown
<1> QED BY <1>1, Invariance, PTL
=============================================================================
