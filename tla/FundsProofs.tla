---------------------------- MODULE FundsProofs -----------------------------
(***************************************************************************)
(* Proofs about bitcoin moving through one node, second part: the steps of *)
(* FundsInv that are about the handlers, the wallet and the account.       *)
(* FundsInv is an inductive invariant, and every property that module      *)
(* Funds states of it follows.  Then what the wallet selects and pays.     *)
(***************************************************************************)
EXTENDS FundsSteps

-----------------------------------------------------------------------------
(* Deposits and withdrawals *)

(* Every step keeps the books of the deposit handler.                      *)
LEMMA DepositStep ==
  ASSUME FundsInv, Next
  PROVE  DepositInv'
<1> USE DEF bitcoin, monitoring, depositing, wallet, spending, account, history
<1>0. TypeOK /\ TxInv /\ DepositInv
  BY DEF FundsInv
<1>1. CASE Mine \/ MonitorStart \/ Poll \/ SessionReplaced \/ FinalizeBlock
  <2>1. UNCHANGED <<intents, chain_txs, addresses, deposit_addresses, processed_txids, running, handlers>>
    BY <1>1 DEF Mine, MonitorStart, Poll, SessionReplaced, FinalizeBlock
  <2> QED BY <1>0, <2>1 DEF DepositInv, Ready
<1>2. CASE NodeStart
  BY <1>0, <1>2 DEF NodeStart, DepositInv, Ready
<1>3. CASE \E d \in Deposits : Pay(d) \/ MonitorAddress(d)
  <2>1. UNCHANGED <<intents, chain_txs, addresses, deposit_addresses, processed_txids, running, handlers>>
    BY <1>3 DEF Pay, MonitorAddress
  <2> QED BY <1>0, <2>1 DEF DepositInv, Ready
<1>4. CASE \E d \in Deposits : create_deposit(d)
  BY <1>0, <1>4 DEF create_deposit, DepositInv, Ready
<1>5. CASE \E tx \in Confirming : insert_pending_deposit_transaction(tx)
  <2>1. PICK tx \in Confirming : insert_pending_deposit_transaction(tx)
    BY <1>5
  <2>2. PaidBy(tx) \subseteq {tx.txid}
    BY <1>0, PaidByFacts
  <2> QED BY <1>0, <2>1, <2>2 DEF insert_pending_deposit_transaction, DepositInv, Ready
<1>6. CASE \E w \in Withdrawals : propose_withdrawal(w)
  BY <1>0, <1>6, Zenon DEF propose_withdrawal, HandlerError, DepositInv, Ready
<1>7. CASE \E w \in Withdrawals : confirm_withdrawal(w)
  BY <1>0, <1>7, Zenon DEF confirm_withdrawal, HandlerError, DepositInv, Ready
<1>8. CASE \E w \in Withdrawals : start_spend_request(w)
  BY <1>0, <1>8 DEF start_spend_request, DepositInv, Ready
<1>9. CASE \E tx \in session : handle_signed_withdrawal(tx)
  <2>1. \A tx \in session : tx.txid \notin Deposits
    BY <1>0, FundsAssumption, Zenon DEF TypeOK, TxInv
  <2>2. intents \subseteq Deposits
    BY <1>0 DEF TypeOK
  <2> QED BY <1>0, <1>9, <2>1, <2>2, Zenon DEF handle_signed_withdrawal, HandlerError, DepositInv, Ready
<1>10. CASE \E f \in Foreign : handle_withdrawl_message(f)
  <2>1. intents \subseteq Deposits /\ \A f \in Foreign : f \notin Deposits
    BY <1>0, FundsAssumption DEF TypeOK
  <2> QED BY <1>0, <1>10, <2>1, Zenon DEF handle_withdrawl_message, HandlerError, DepositInv, Ready
<1> QED BY <1>1, <1>2, <1>3, <1>4, <1>5, <1>6, <1>7, <1>8, <1>9, <1>10 DEF Next

(* The two kinds of requests are told apart.                               *)
LEMMA EventKinds ==
  /\ \A x, w : Event("ConfirmDeposit", x) # Event("Spend", w)
  /\ \A v, w : Event("Spend", v) = Event("Spend", w) => v = w
<1>1. \A t, x : Event(t, x).type = t /\ Event(t, x).body = x
  BY DEF Event
<1>2. "ConfirmDeposit" # "Spend"
  OBVIOUS
<1> QED BY <1>1, <1>2

(* Steps that begin nothing.                                               *)
LEMMA SpendSame ==
  ASSUME SpendInv, pending_intents' \subseteq pending_intents, proposed' = proposed, spends' = spends,
         session' \subseteq session, \A w : Event("Spend", w) \in events' => Event("Spend", w) \in events,
         chain_txs' \cap Withdrawals = chain_txs \cap Withdrawals, PaidOut' = PaidOut,
         \A tx \in session' : tx.txid \notin chain_txs'
  PROVE  SpendInv'
<1>1. \A w : Event("Spend", w)' = Event("Spend", w)
  BY DEF Event
<1> QED BY <1>1 DEF SpendInv

(* Every step keeps a withdrawal from being spent twice.                   *)
LEMMA SpendStep ==
  ASSUME FundsInv, Next
  PROVE  SpendInv'
<1> USE DEF bitcoin, monitoring, depositing, wallet, spending, account, history
<1>0. TypeOK /\ TxInv /\ SpendInv /\ DepositInv
  BY DEF FundsInv
<1>1. \A w : Event("Spend", w)' = Event("Spend", w)
  BY DEF Event
<1>2. \A tx \in spends : tx.txid \in proposed /\ tx.txid \in Withdrawals /\ tx.txid \notin Deposits
                         /\ tx.txid \notin Foreign
  BY <1>0, FundsAssumption, Zenon DEF TypeOK, TxInv
<1>3. session \subseteq spends /\ \A s, t \in session : s = t
  BY <1>0 DEF TypeOK
<1>4. \A tx \in session : tx.txid \notin chain_txs
  BY <1>0 DEF SpendInv
<1>5. sent' = sent => PaidOut' = PaidOut
  BY DEF PaidOut
<1>6. CASE Mine \/ MonitorStart \/ NodeStart \/ SessionReplaced \/ FinalizeBlock
  <2>1. /\ UNCHANGED <<pending_intents, proposed, spends, events, chain_txs, sent>>
        /\ session' \subseteq session
    BY <1>6 DEF Mine, MonitorStart, NodeStart, SessionReplaced, FinalizeBlock
  <2> QED BY <1>0, <1>4, <1>5, <2>1, SpendSame
<1>7. CASE Poll
  <2>1. UNCHANGED <<pending_intents, proposed, spends, session, chain_txs, sent>>
    BY <1>7 DEF Poll
  <2>2. \A w : Event("Spend", w) \in events' => Event("Spend", w) \in events
    BY <1>7, EventKinds DEF Poll
  <2> QED BY <1>0, <1>4, <1>5, <2>1, <2>2, SpendSame
<1>8. CASE \E d \in Deposits : MonitorAddress(d)
  <2>1. UNCHANGED <<pending_intents, proposed, spends, session, chain_txs, sent>>
    BY <1>8 DEF MonitorAddress
  <2>2. \A w : Event("Spend", w) \in events' => Event("Spend", w) \in events
    BY <1>8, EventKinds DEF MonitorAddress
  <2> QED BY <1>0, <1>4, <1>5, <2>1, <2>2, SpendSame
<1>9. CASE \E d \in Deposits : Pay(d)
  <2>1. UNCHANGED <<pending_intents, proposed, spends, session, chain_txs, events>>
    BY <1>9 DEF Pay
  <2>2. PICK d \in Deposits : sent' = sent \cup {Payment(d)}
    BY <1>9 DEF Pay
  <2>3. Payment(d).txid \notin Withdrawals
    BY PaymentFacts
  <2>4. PaidOut' = PaidOut
    BY <2>2, <2>3 DEF PaidOut
  <2> QED BY <1>0, <1>4, <2>1, <2>4, SpendSame
<1>10. CASE \E d \in Deposits : create_deposit(d)
  <2>1. UNCHANGED <<pending_intents, proposed, spends, session, chain_txs, events, sent>>
    BY <1>10 DEF create_deposit
  <2> QED BY <1>0, <1>4, <1>5, <2>1, SpendSame
<1>11. CASE \E tx \in Confirming : insert_pending_deposit_transaction(tx)
  <2>1. PICK tx \in Confirming : insert_pending_deposit_transaction(tx)
    BY <1>11
  <2>2. /\ UNCHANGED <<pending_intents, proposed, spends, session, sent>> /\ events' \subseteq events
        /\ chain_txs' = chain_txs \/ chain_txs' = chain_txs \cup PaidBy(tx)
    BY <2>1 DEF insert_pending_deposit_transaction
  <2>3. PaidBy(tx) \subseteq Deposits /\ Deposits \cap Withdrawals = {}
    BY <1>0, PaidByFacts, FundsAssumption
  <2>4. /\ chain_txs' \cap Withdrawals = chain_txs \cap Withdrawals
        /\ \A s \in session' : s.txid \notin chain_txs'
    BY <1>2, <1>3, <1>4, <2>2, <2>3
  <2> QED BY <1>0, <1>5, <2>2, <2>4, SpendSame
<1>12. ASSUME NEW w \in Withdrawals, propose_withdrawal(w)
       PROVE  SpendInv'
  <2>1. UNCHANGED <<spends, events, chain_txs, sent>> /\ proposed' = proposed \cup {w} /\ w \notin proposed
    BY <1>12 DEF propose_withdrawal
  <2>2. /\ pending_intents' \subseteq pending_intents \cup {w}
        /\ session' \subseteq session
    BY <1>12 DEF propose_withdrawal, HandlerError
  <2> QED BY <1>0, <1>1, <1>2, <1>5, <2>1, <2>2, Zenon DEF SpendInv
<1>13. ASSUME NEW w \in Withdrawals, confirm_withdrawal(w)
       PROVE  SpendInv'
  <2>1. UNCHANGED <<spends, chain_txs, sent, proposed>> /\ w \in pending_intents /\ w \in proposed
    BY <1>0, <1>13 DEF confirm_withdrawal, TypeOK
  <2>2. /\ pending_intents' \subseteq pending_intents /\ session' \subseteq session
        /\ events' = events \/ (events' = events \cup {Event("Spend", w)} /\ w \notin pending_intents')
    BY <1>13 DEF confirm_withdrawal, HandlerError
  <2>3. \A v : Event("Spend", v) \in events' =>
                  Event("Spend", v) \in events \/ (v = w /\ v \notin pending_intents')
    BY <2>2, EventKinds
  <2> QED BY <1>0, <1>1, <1>2, <1>5, <2>1, <2>2, <2>3 DEF SpendInv
<1>14. ASSUME NEW w \in Withdrawals, start_spend_request(w)
       PROVE  SpendInv'
  <2>1. /\ UNCHANGED <<pending_intents, proposed, chain_txs, sent>>
        /\ Event("Spend", w) \in events /\ events' = events \ {Event("Spend", w)}
    BY <1>14 DEF start_spend_request
  <2>2. w \in proposed /\ w \notin pending_intents /\ \A tx \in spends : tx.txid # w
    BY <1>0, <2>1 DEF SpendInv
  <2>3. w \notin chain_txs
    <3>1. ASSUME NEW tx \in sent, tx.txid = w
          PROVE  FALSE
      <4>1. w \notin Deposits
        BY FundsAssumption
      <4> QED BY <1>0, <2>2, <3>1, <4>1, Known, PaymentFacts
    <3> QED BY <1>0, <3>1 DEF SpendInv, PaidOut
  <2>4. ASSUME NEW tx, tx.txid = w, spends' = spends \cup {tx}, session' = session \/ session' = {tx}
        PROVE  SpendInv'
    BY <1>0, <1>1, <1>2, <1>5, <2>1, <2>2, <2>3, <2>4, Zenon DEF SpendInv
  <2>5. CASE spends' = spends /\ session' = session
    BY <1>0, <1>4, <1>5, <2>1, <2>5, SpendSame
  <2>6. create_spend(utxos, w, amount_sat[w], Fee).txid = w
    BY DEF create_spend, Tx
  <2> QED BY <1>14, <2>4, <2>5, <2>6 DEF start_spend_request, NewSession
<1>15. ASSUME NEW tx \in session, handle_signed_withdrawal(tx)
       PROVE  SpendInv'
  <2>1. UNCHANGED <<proposed, spends, events>> /\ pending_intents' \subseteq pending_intents /\ session' = {}
    BY <1>3, <1>15 DEF handle_signed_withdrawal, HandlerError
  <2>2. CASE UNCHANGED <<sent, chain_txs>>
    BY <1>0, <1>5, <2>1, <2>2, SpendSame
  <2>3. CASE sent' = sent \cup {tx} /\ chain_txs' = chain_txs \cup {tx.txid}
    <3>1. PaidOut' = PaidOut \cup {tx.txid}
      BY <1>2, <1>3, <2>3 DEF PaidOut
    <3>2. chain_txs' \cap Withdrawals = (chain_txs \cap Withdrawals) \cup {tx.txid}
      BY <1>2, <1>3, <2>3
    <3> QED BY <1>0, <1>1, <2>1, <3>1, <3>2 DEF SpendInv
  <2> QED BY <1>15, <2>2, <2>3 DEF handle_signed_withdrawal
<1>16. CASE \E f \in Foreign : handle_withdrawl_message(f)
  <2>1. PICK f \in Foreign : handle_withdrawl_message(f)
    BY <1>16
  <2>2. /\ UNCHANGED <<proposed, spends, events, sent>> /\ pending_intents' \subseteq pending_intents
        /\ session' \subseteq session /\ (chain_txs' = chain_txs \/ chain_txs' = chain_txs \cup {f})
    BY <2>1 DEF handle_withdrawl_message, HandlerError
  <2>3. f \notin Withdrawals
    BY FundsAssumption
  <2> QED BY <1>0, <1>2, <1>3, <1>4, <1>5, <2>2, <2>3, SpendSame
<1> QED BY <1>6, <1>7, <1>8, <1>9, <1>10, <1>11, <1>12, <1>13, <1>14, <1>15, <1>16, Zenon DEF Next

-----------------------------------------------------------------------------
(* The wallet *)

(* The places of an output are those in the list.                          *)
LEMMA PlacesAt == \A o : Places(o) = At(utxos, o) /\ (Places(o))' = At(utxos', o)
  BY DEF Places, At

(* The transaction of an output.                                           *)
LEMMA OutPointTxid == \A d, n : OutPoint(d, n).txid = d
  BY DEF OutPoint

(* What is in the list, and in the next one.                               *)
Credited(us, cs) ==
    \A i \in DOMAIN us : /\ us[i].address \in cs
                         /\ us[i].outpoint.txid \in Deposits => us[i].outpoint.txid \in cs

InOnePlace(us, sp, o) ==
    \/ {tx \in sp : o \in tx.input} = {} /\ \E i \in DOMAIN us : At(us, o) = {i}
    \/ At(us, o) = {} /\ \E tx \in sp : {t \in sp : o \in t.input} = {tx}

(* UtxoInv, of a state and of the next one.                                *)
LEMMA UtxoInvIs ==
  /\ UtxoInv <=> /\ Credited(utxos, chain_txs)
                 /\ \A d \in chain_txs \cap addresses : InOnePlace(utxos, spends, OutPoint(d, 0))
  /\ UtxoInv' <=> /\ Credited(utxos', chain_txs')
                  /\ \A d \in chain_txs' \cap addresses' : InOnePlace(utxos', spends', OutPoint(d, 0))
<1>1. \A d : OutPoint(d, 0)' = OutPoint(d, 0)
  BY DEF OutPoint
<1>2. UtxoInv <=> /\ Credited(utxos, chain_txs)
                  /\ \A d \in chain_txs \cap addresses : InOnePlace(utxos, spends, OutPoint(d, 0))
  BY PlacesAt DEF UtxoInv, Credited, InOnePlace, SpentBy
<1>3. \A d : SpentBy(OutPoint(d, 0))' = {tx \in spends' : OutPoint(d, 0) \in tx.input}
  BY <1>1 DEF SpentBy
<1>4. \A d : (Places(OutPoint(d, 0)))' = At(utxos', OutPoint(d, 0))
  BY <1>1 DEF Places, At
<1>5. UtxoInv' <=> /\ Credited(utxos', chain_txs')
                   /\ \A d \in chain_txs' \cap addresses' : InOnePlace(utxos', spends', OutPoint(d, 0))
  BY <1>1, <1>3, <1>4 DEF UtxoInv, Credited, InOnePlace
<1> QED BY <1>2, <1>5

(* A list that changes as a transaction spends it.                         *)
LEMMA PlaceKept ==
  ASSUME NEW us, NEW r, NEW sp, NEW tx, SpentOnly(r, us, tx), NEW o, o.txid # tx.txid,
         InOnePlace(us, sp, o), o \in tx.input => tx \in sp
  PROVE  InOnePlace(r, sp, o)
  BY DEF InOnePlace, SpentOnly

(* A list after a spend: an output keeps its place, or the spend has it.   *)
LEMMA PlaceSpent ==
  ASSUME NEW us, NEW r, NEW sp, NEW tx, SpentOnly(r, us, tx), NEW o, o.txid # tx.txid,
         InOnePlace(us, sp, o), o \in tx.input => At(us, o) # {}
  PROVE  InOnePlace(r, sp \cup {tx}, o)
<1>1. CASE o \in tx.input
  <2>1. {t \in sp : o \in t.input} = {} /\ At(r, o) = {}
    BY <1>1 DEF InOnePlace, SpentOnly
  <2>2. {t \in sp \cup {tx} : o \in t.input} = {tx}
    BY <1>1, <2>1
  <2> QED BY <2>1, <2>2 DEF InOnePlace
<1>2. CASE o \notin tx.input
  <2>1. {t \in sp \cup {tx} : o \in t.input} = {t \in sp : o \in t.input}
    BY <1>2
  <2>2. InOnePlace(r, sp, o)
    BY <1>2, PlaceKept, Zenon
  <2> QED BY <2>1, <2>2 DEF InOnePlace
<1> QED BY <1>1, <1>2

(* Every step keeps the output of a credited deposit in one place.         *)
LEMMA UtxoStep ==
  ASSUME FundsInv, Next
  PROVE  UtxoInv'
<1> USE DEF bitcoin, monitoring, depositing, wallet, spending, account, history
<1> DEFINE O(d) == OutPoint(d, 0)
<1>0. TypeOK /\ TxInv /\ SpendInv /\ DepositInv /\ UtxoInv
  BY DEF FundsInv
<1>1. /\ Credited(utxos, chain_txs)
      /\ \A d \in chain_txs \cap addresses : InOnePlace(utxos, spends, O(d))
  BY <1>0, UtxoInvIs
<1>2. addresses \subseteq Deposits /\ addresses \subseteq Nat
  BY <1>0, FundsAssumption, Zenon DEF TypeOK
<1>3. ASSUME UNCHANGED <<utxos, spends>>, chain_txs \subseteq chain_txs',
             chain_txs' \cap addresses' \subseteq chain_txs \cap addresses
      PROVE  UtxoInv'
  <2>1. Credited(utxos', chain_txs')
    BY <1>1, <1>3 DEF Credited
  <2>2. \A d \in chain_txs' \cap addresses' : InOnePlace(utxos', spends', O(d))
    <3> HIDE DEF O
    <3> QED BY <1>1, <1>3
  <2> QED BY <2>1, <2>2, UtxoInvIs
<1>4. CASE Mine \/ MonitorStart \/ Poll \/ NodeStart \/ SessionReplaced \/ FinalizeBlock
  <2>1. UNCHANGED <<utxos, spends, chain_txs, addresses>>
    BY <1>4 DEF Mine, MonitorStart, Poll, NodeStart, SessionReplaced, FinalizeBlock
  <2> QED BY <1>3, <2>1
<1>5. CASE \E d \in Deposits : Pay(d) \/ MonitorAddress(d)
  <2>1. UNCHANGED <<utxos, spends, chain_txs, addresses>>
    BY <1>5 DEF Pay, MonitorAddress
  <2> QED BY <1>3, <2>1
<1>6. CASE \E d \in Deposits : create_deposit(d)
  <2>1. PICK d \in Deposits : create_deposit(d)
    BY <1>6
  <2>2. UNCHANGED <<utxos, spends, chain_txs>> /\ addresses' = addresses \cup {d} /\ d \notin chain_txs
    BY <2>1, Zenon DEF create_deposit
  <2> QED BY <1>3, <2>2
<1>7. CASE \E w \in Withdrawals : propose_withdrawal(w) \/ confirm_withdrawal(w)
  <2>1. UNCHANGED <<utxos, spends, chain_txs, addresses>>
    BY <1>7 DEF propose_withdrawal, confirm_withdrawal
  <2> QED BY <1>3, <2>1
<1>8. CASE \E tx \in session : handle_signed_withdrawal(tx)
  <2>1. PICK tx \in session : handle_signed_withdrawal(tx)
    BY <1>8
  <2>2. /\ UNCHANGED <<utxos, spends, addresses>>
        /\ chain_txs' = chain_txs \/ chain_txs' = chain_txs \cup {tx.txid}
    BY <2>1 DEF handle_signed_withdrawal
  <2>3. tx.txid \notin addresses
    BY <1>0, FundsAssumption, Zenon DEF TypeOK, TxInv
  <2> QED BY <1>3, <2>2, <2>3
<1>9. CASE \E f \in Foreign : handle_withdrawl_message(f)
  <2>1. PICK f \in Foreign : handle_withdrawl_message(f)
    BY <1>9
  <2>2. UNCHANGED <<spends, addresses>>
    BY <2>1 DEF handle_withdrawl_message
  <2>3. CASE UNCHANGED <<utxos, chain_txs>>
    BY <1>3, <2>2, <2>3
  <2>4. CASE /\ utxos' = ingest_external_tx(utxos, addresses, ForeignTx(f))
             /\ chain_txs' = chain_txs \cup {f}
    <3> DEFINE r == utxos'
    <3>1. /\ \A k \in DOMAIN r : \E i \in DOMAIN utxos : r[k] = utxos[i]
          /\ \A d \in Deposits : At(utxos, O(d)) = {} => At(r, O(d)) = {}
          /\ \A d \in Deposits : (\E i \in DOMAIN utxos : At(utxos, O(d)) = {i})
                                     => \E k \in DOMAIN r : At(r, O(d)) = {k}
      BY <1>0, <2>4, ForeignIngested
    <3> HIDE DEF r
    <3>2. Credited(r, chain_txs')
      BY <1>1, <2>4, <3>1 DEF Credited
    <3>3. \A d \in chain_txs' \cap addresses' : d \in chain_txs \cap addresses /\ d \in Deposits
      BY <1>2, <2>2, <2>4, FundsAssumption, Zenon
    <3>4. \A d \in chain_txs' \cap addresses' : InOnePlace(r, spends', O(d))
      <4> HIDE DEF O
      <4> QED BY <1>1, <2>2, <3>1, <3>3, Zenon DEF InOnePlace
    <3> QED BY <3>2, <3>4, UtxoInvIs DEF r
  <2> QED BY <2>1, <2>3, <2>4 DEF handle_withdrawl_message
<1>10. ASSUME NEW w \in Withdrawals, start_spend_request(w)
       PROVE  UtxoInv'
  <2>1. UNCHANGED <<addresses, chain_txs>>
    BY <1>10 DEF start_spend_request
  <2>2. CASE UNCHANGED <<utxos, spends>>
    BY <1>3, <2>1, <2>2
  <2>3. ASSUME HasFunds(utxos, amount_sat[w] + Fee),
               NEW tx, tx = create_spend(utxos, w, amount_sat[w], Fee),
               utxos' = AfterSpend(utxos, tx), spends' = spends \cup {tx}
        PROVE  UtxoInv'
    <3> DEFINE r == utxos'
    <3>1. tx.txid = w /\ TakesFromWallet(tx) /\ LeavesChange(r, w) /\ SpentOnly(r, utxos, tx)
      BY <1>0, <2>3, SpendMade, Zenon
    <3> HIDE DEF r
    <3>2. Credited(r, chain_txs')
      <4>1. w \notin Deposits
        BY FundsAssumption, Zenon
      <4> QED BY <1>1, <2>1, <3>1, <4>1, Zenon DEF Credited, LeavesChange
    <3>3. ASSUME NEW d \in chain_txs' \cap addresses'
          PROVE  InOnePlace(r, spends', O(d))
      <4>1. d \in chain_txs \cap addresses /\ O(d).txid # tx.txid
        BY <1>2, <2>1, <3>1, <3>3, OutPointTxid, FundsAssumption
      <4>2. O(d) \in tx.input => At(utxos, O(d)) # {}
        BY <3>1 DEF TakesFromWallet, At
      <4> HIDE DEF O
      <4> QED BY <1>1, <2>3, <3>1, <4>1, <4>2, PlaceSpent, Zenon
    <3> QED BY <3>2, <3>3, UtxoInvIs, Zenon DEF r
  <2> QED BY <1>10, <2>2, <2>3 DEF start_spend_request
<1>11. ASSUME NEW tx \in Confirming, insert_pending_deposit_transaction(tx)
       PROVE  UtxoInv'
  <2>1. UNCHANGED <<addresses, spends>> /\ handlers
    BY <1>11 DEF insert_pending_deposit_transaction, Ready
  <2>2. CASE UNCHANGED <<utxos, chain_txs>>
    BY <1>3, <2>1, <2>2
  <2>3. CASE /\ tx.txid \notin processed_txids
             /\ chain_txs' = chain_txs \cup PaidBy(tx)
             /\ utxos' = ingest_external_tx(utxos, addresses, tx)
    <3> DEFINE r == utxos'
    <3>1. TakenIn(r, utxos, addresses, tx) /\ SpentOnly(r, utxos, tx)
      BY <1>0, <2>3, Ingested
    <3>2. ASSUME NEW d \in Deposits, tx = Payment(d)
          PROVE  /\ tx.txid = d /\ tx.input = {} /\ DOMAIN tx.output = {1} /\ tx.output[1].address = d
                 /\ d \notin chain_txs /\ PaidBy(tx) = {d} \cap deposit_addresses \cap intents
                 /\ d \in addresses => d \in chain_txs'
      <4>1. tx.txid = d /\ tx.input = {} /\ DOMAIN tx.output = {1} /\ tx.output[1].address = d
        BY <3>2, PaymentFacts, Zenon
      <4>2. d \notin chain_txs
        BY <1>0, <2>1, <2>3, <4>1, Zenon DEF DepositInv
      <4>3. PaidBy(tx) = {d} \cap deposit_addresses \cap intents
        BY <1>0, <3>2, PaidByFacts, Zenon
      <4>4. d \in addresses => d \in intents /\ d \in deposit_addresses
        BY <1>0, <1>11, <4>2, Zenon DEF DepositInv, insert_pending_deposit_transaction
      <4> QED BY <2>3, <4>1, <4>2, <4>3, <4>4, Zenon
    <3>3. \A i \in DOMAIN tx.output : tx.output[i].address \in addresses =>
              /\ tx.output[i].address \in chain_txs'
              /\ tx.txid \in Deposits => tx.txid \in chain_txs'
      <4>1. CASE \E d \in Deposits : tx = Payment(d)
        BY <3>2, <4>1
      <4>2. CASE tx \in spends /\ tx.txid \notin Deposits
        <5> DEFINE P == [value : Nat, address : {0} \cup (addresses \cap chain_txs)]
                   q == tx.output
        <5>1. q \in Seq(P)
          BY <1>0, <4>2, Zenon DEF TxInv
        <5>2. \A i \in DOMAIN q : q[i] \in P
          <6> HIDE DEF P, q
          <6> QED BY <5>1
        <5>3. \A i \in DOMAIN q : q[i].address = 0 \/ q[i].address \in chain_txs
          <6> HIDE DEF q
          <6> QED BY <5>2
        <5>4. 0 \notin addresses
          BY <1>2, FundsAssumption
        <5> QED BY <2>3, <4>2, <5>3, <5>4
      <4> QED BY <1>0, <4>1, <4>2, Known, Zenon
    <3>4. \A x, n, out : Utxo(x, n, out).address = out.address /\ Utxo(x, n, out).outpoint.txid = x
      BY Zenon DEF Utxo, OutPoint
    <3> HIDE DEF r
    <3>5. Credited(r, chain_txs')
      <4>1. \A k \in DOMAIN r :
               \/ \E i \in DOMAIN utxos : r[k] = utxos[i]
               \/ \E i \in DOMAIN tx.output : /\ r[k].address = tx.output[i].address
                                              /\ r[k].outpoint.txid = tx.txid
                                              /\ tx.output[i].address \in addresses
        BY <3>1, <3>4 DEF TakenIn
      <4> QED BY <1>1, <2>3, <3>3, <4>1, Zenon DEF Credited
    <3>6. ASSUME NEW d \in chain_txs' \cap addresses', d # tx.txid
          PROVE  InOnePlace(r, spends', O(d))
      <4>1. d \in chain_txs \cap addresses
        BY <1>0, <2>1, <2>3, <3>6, PaidByFacts, Zenon
      <4>2. O(d).txid # tx.txid
        BY <3>6, OutPointTxid
      <4>3. O(d) \in tx.input => tx \in spends
        BY <1>0, <3>2, Known
      <4> HIDE DEF O
      <4> QED BY <1>1, <2>1, <3>1, <4>1, <4>2, <4>3, PlaceKept, Zenon
    <3>7. ASSUME NEW d \in chain_txs' \cap addresses', d = tx.txid
          PROVE  InOnePlace(r, spends', O(d))
      <4>1. d \in Deposits /\ tx = Payment(d) /\ d \in addresses
        BY <1>0, <1>2, <2>1, <3>7, Known, Zenon
      <4>2. d \notin chain_txs
        BY <3>2, <4>1
      <4>3. At(utxos, O(d)) = {}
        BY <1>1, <4>1, <4>2, OutPointTxid, Zenon DEF Credited, At
      <4>4. {t \in spends : O(d) \in t.input} = {}
        BY <1>0, <4>1, <4>2, OutPointTxid, Zenon DEF TxInv
      <4>5. \E k \in DOMAIN r : At(r, O(d)) = {k}
        <5>1. addresses \in SUBSET Nat /\ utxos \in Seq(UtxosOf(addresses))
          BY <1>0, <1>2 DEF TypeOK, UtxosOf
        <5>2. r = ingest_external_tx(utxos, addresses, Payment(d))
          BY <2>3, <4>1, Zenon DEF r
        <5> QED BY <4>1, <4>3, <5>1, <5>2, PaymentTaken
      <4> HIDE DEF O
      <4> QED BY <2>1, <4>4, <4>5 DEF InOnePlace
    <3> QED BY <3>5, <3>6, <3>7, UtxoInvIs DEF r
  <2> QED BY <1>11, <2>2, <2>3 DEF insert_pending_deposit_transaction
<1> QED BY <1>4, <1>5, <1>6, <1>7, <1>8, <1>9, <1>10, <1>11 DEF Next

-----------------------------------------------------------------------------
(* The account *)

(* The balance to come, of a state and of the next one.                    *)
LEMMA BalanceIs ==
  /\ \A k : BalanceAfter(k) = balance + SumTo(proposed_transactions, k)
  /\ Outlook = balance + SumTo(proposed_transactions, Len(proposed_transactions))
  /\ Outlook' = balance' + SumTo(proposed_transactions', Len(proposed_transactions'))
  BY DEF BalanceAfter, Outlook, SumTo, Worths, Worth

Cost(amounts) == [w \in Withdrawals |-> amounts[w] + Fee]

Due(cs, amounts, paid) == SumFunctionOnSet(Paid, cs \cap Own) - SumFunctionOnSet(Cost(amounts), paid)

Equal(amounts, paid) == \E v, w \in paid : v # w /\ amounts[v] = amounts[w]

(* AccountFollowsBitcoin, of a state and of the next one.                  *)
LEMMA AccountIs ==
  /\ AccountFollowsBitcoin <=> /\ Outlook >= Due(chain_txs, amount_sat, PaidOut)
                               /\ \/ Outlook = Due(chain_txs, amount_sat, PaidOut)
                                  \/ Equal(amount_sat, PaidOut)
  /\ AccountFollowsBitcoin' <=> /\ Outlook' >= Due(chain_txs', amount_sat', PaidOut')
                                /\ \/ Outlook' = Due(chain_txs', amount_sat', PaidOut')
                                   \/ Equal(amount_sat', PaidOut')
  BY DEF AccountFollowsBitcoin, Due, Cost, Equal

(* What is due, with a deposit more and with a spend more.                 *)
LEMMA DueFacts ==
  ASSUME TypeOK, IsFiniteSet(chain_txs), SpendInv
  PROVE  /\ Due(chain_txs, amount_sat, PaidOut) \in Int
         /\ \A d \in Own \ chain_txs : Due(chain_txs \cup {d}, amount_sat, PaidOut) =
                                           Due(chain_txs, amount_sat, PaidOut) + Paid[d]
         /\ \A w \in Withdrawals \ PaidOut : Due(chain_txs \cup {w}, amount_sat, PaidOut \cup {w}) =
                                     Due(chain_txs, amount_sat, PaidOut) - (amount_sat[w] + Fee)
<1> DEFINE C == chain_txs \cap Own
           f == Cost(amount_sat)
           c == SumFunctionOnSet(Paid, C)
           p == SumFunctionOnSet(f, PaidOut)
<1>1. IsFiniteSet(C) /\ IsFiniteSet(PaidOut) /\ PaidOut \subseteq Withdrawals
  <2>1. PaidOut = chain_txs \cap Withdrawals
    BY DEF SpendInv
  <2> QED BY <2>1, FS_Subset
<1>2. \A d \in Own : Paid[d] \in Int /\ Paid[d] \in Nat
  BY FundsAssumption
<1>3. \A w \in Withdrawals : f[w] = amount_sat[w] + Fee /\ f[w] \in Int /\ f[w] \in Nat
  BY Amounts_ DEF TypeOK, Cost
<1> HIDE DEF f
<1>4. c \in Int
  BY <1>1, <1>2, SumFacts
<1>5. p \in Int
  BY <1>1, <1>3, SumFacts
<1>6. Due(chain_txs, amount_sat, PaidOut) = c - p
  BY DEF Due, f
<1>7. ASSUME NEW d \in Own \ chain_txs
      PROVE  Due(chain_txs \cup {d}, amount_sat, PaidOut) = c - p + Paid[d]
  <2>1. (chain_txs \cup {d}) \cap Own = C \cup {d} /\ d \notin C
    OBVIOUS
  <2> HIDE DEF C
  <2>2. \A y \in C : Paid[y] \in Int
    BY <1>2 DEF C
  <2>3. SumFunctionOnSet(Paid, C \cup {d}) = c + Paid[d]
    <3>1. IsFiniteSet(C) /\ d \notin C /\ Paid[d] \in Int
      BY <1>1, <1>2, <2>1
    <3> QED BY <2>2, <3>1, SumAdd
  <2> DEFINE D == (chain_txs \cup {d}) \cap Own
  <2>4. Due(chain_txs \cup {d}, amount_sat, PaidOut) = c + Paid[d] - p
    <3>1. Due(chain_txs \cup {d}, amount_sat, PaidOut) = SumFunctionOnSet(Paid, D) - p
      BY DEF Due, f
    <3>2. D = C \cup {d}
      BY <2>1
    <3> HIDE DEF D, c, p
    <3>3. SumFunctionOnSet(Paid, D) = c + Paid[d]
      BY <2>3, <3>2
    <3>4. Paid[d] \in Int
      BY <1>2
    <3> QED BY <1>4, <1>5, <3>1, <3>3, <3>4
  <2>5. Paid[d] \in Int
    BY <1>2
  <2> HIDE DEF c, p
  <2> QED BY <1>4, <1>5, <2>4, <2>5
<1>8. ASSUME NEW w \in Withdrawals \ PaidOut
      PROVE  Due(chain_txs \cup {w}, amount_sat, PaidOut \cup {w}) = c - p - (amount_sat[w] + Fee)
  <2>1. (chain_txs \cup {w}) \cap Own = C
    BY FundsAssumption
  <2>2. \A y \in PaidOut : f[y] \in Int
    BY <1>1, <1>3
  <2>3. f[w] \in Int /\ w \notin PaidOut /\ f[w] = amount_sat[w] + Fee
    BY <1>3
  <2>4. SumFunctionOnSet(f, PaidOut \cup {w}) = p + f[w]
    BY <1>1, <2>2, <2>3, SumAdd
  <2>5. Due(chain_txs \cup {w}, amount_sat, PaidOut \cup {w}) = c - (p + f[w])
    BY <2>1, <2>4 DEF Due, f
  <2>6. c - (p + f[w]) = c - p - f[w]
    <3> HIDE DEF c, p
    <3> QED BY <1>4, <1>5, <2>3
  <2> QED BY <2>3, <2>5, <2>6
<1> HIDE DEF c, p
<1>9. c - p \in Int
  BY <1>4, <1>5
<1> QED BY <1>6, <1>7, <1>8, <1>9

(* Every step keeps the account with the bitcoin that moved.               *)
LEMMA AccountStep ==
  ASSUME FundsInv, Next
  PROVE  AccountFollowsBitcoin'
<1> USE DEF bitcoin, monitoring, depositing, wallet, spending, account, history
<1> DEFINE pt == proposed_transactions
           due == Due(chain_txs, amount_sat, PaidOut)
<1>0. /\ TypeOK /\ TxInv /\ DepositInv /\ SpendInv /\ IsFiniteSet(chain_txs)
      /\ AccountFollowsBitcoin
  BY DEF FundsInv
<1>1. amount_sat' = amount_sat
  BY Monotone, Zenon
<1>2. Outlook >= due /\ (Outlook = due \/ Equal(amount_sat, PaidOut)) /\ due \in Int
  BY <1>0, AccountIs, DueFacts, Zenon
<1>3. /\ pt \in Seq(UserTxs) /\ (\A t \in UserTxs : Worth(t) \in Int) /\ balance \in Nat
      /\ Len(pt) \in 0 .. Len(pt)
  BY <1>0, Kinds DEF TypeOK
<1>4. Outlook = balance + SumTo(pt, Len(pt)) /\ SumTo(pt, Len(pt)) \in Int /\ Outlook \in Int
  <2>1. SumTo(pt, Len(pt)) \in Int
    <3> HIDE DEF pt
    <3> QED BY <1>3, SumToType
  <2> QED BY <1>3, <2>1, BalanceIs
<1> HIDE DEF due
<1>5. ASSUME Outlook' = Outlook, chain_txs' \cap Own = chain_txs \cap Own, PaidOut' = PaidOut
      PROVE  AccountFollowsBitcoin'
  <2>1. Due(chain_txs', amount_sat', PaidOut') = due
    BY <1>1, <1>5 DEF Due, due
  <2> QED BY <1>1, <1>2, <1>5, <2>1, AccountIs, Zenon
<1>6. UNCHANGED <<proposed_transactions, balance>> => Outlook' = Outlook
  BY BalanceIs
<1>7. sent' = sent => PaidOut' = PaidOut
  BY DEF PaidOut
<1>8. CASE Mine \/ MonitorStart \/ Poll \/ NodeStart \/ SessionReplaced
  <2>1. UNCHANGED <<proposed_transactions, balance, chain_txs, sent>>
    BY <1>8 DEF Mine, MonitorStart, Poll, NodeStart, SessionReplaced
  <2> QED BY <1>5, <1>6, <1>7, <2>1
<1>9. CASE FinalizeBlock
  <2>1. UNCHANGED <<chain_txs, sent>> /\ balance' = Outlook /\ proposed_transactions' = <<>>
    BY <1>9 DEF FinalizeBlock
  <2>2. SumTo(<<>>, Len(<<>>)) = 0
    <3>1. <<>> \in Seq(UserTxs) /\ Len(<<>>) = 0 /\ 0 \in 0 .. Len(<<>>)
      OBVIOUS
    <3> QED BY <1>3, <3>1, SumToType, Zenon
  <2>3. Outlook' = Outlook + 0
    BY <2>1, <2>2, BalanceIs
  <2>4. Outlook' = Outlook
    BY <1>4, <2>3
  <2> QED BY <1>5, <1>7, <2>1, <2>4, Zenon
<1>10. CASE \E d \in Deposits : MonitorAddress(d) \/ create_deposit(d)
  <2>1. UNCHANGED <<proposed_transactions, balance, chain_txs, sent>>
    BY <1>10 DEF MonitorAddress, create_deposit
  <2> QED BY <1>5, <1>6, <1>7, <2>1
<1>11. CASE \E d \in Deposits : Pay(d)
  <2>1. PICK d \in Deposits : Pay(d)
    BY <1>11
  <2>2. UNCHANGED <<proposed_transactions, balance, chain_txs>> /\ sent' = sent \cup {Payment(d)}
    BY <2>1 DEF Pay
  <2>3. Payment(d).txid \notin Withdrawals
    BY PaymentFacts
  <2>4. PaidOut' = PaidOut
    BY <2>2, <2>3, Zenon DEF PaidOut
  <2> QED BY <1>5, <1>6, <2>2, <2>4, Zenon
<1>12. CASE \E w \in Withdrawals : propose_withdrawal(w) \/ confirm_withdrawal(w) \/ start_spend_request(w)
  <2>1. UNCHANGED <<proposed_transactions, balance, chain_txs, sent>>
    BY <1>12, Zenon DEF propose_withdrawal, confirm_withdrawal, start_spend_request
  <2> QED BY <1>5, <1>6, <1>7, <2>1
<1>13. CASE \E f \in Foreign : handle_withdrawl_message(f)
  <2>1. PICK f \in Foreign : handle_withdrawl_message(f)
    BY <1>13
  <2>2. /\ UNCHANGED <<proposed_transactions, balance, sent>>
        /\ chain_txs' = chain_txs \/ chain_txs' = chain_txs \cup {f}
    BY <2>1 DEF handle_withdrawl_message
  <2>3. f \notin Own
    BY FundsAssumption
  <2> QED BY <1>5, <1>6, <1>7, <2>2, <2>3, Zenon
<1>14. ASSUME NEW tx \in Confirming, insert_pending_deposit_transaction(tx)
       PROVE  AccountFollowsBitcoin'
  <2>1. UNCHANGED <<sent, balance>> /\ handlers
    BY <1>14 DEF insert_pending_deposit_transaction, Ready
  <2>2. CASE UNCHANGED <<proposed_transactions, chain_txs>>
    BY <1>5, <1>6, <1>7, <2>1, <2>2
  <2>3. CASE /\ tx.txid \notin processed_txids
             /\ chain_txs' = chain_txs \cup PaidBy(tx)
             /\ proposed_transactions' = FoldSet(add_transaction_to_block, proposed_transactions,
                                                 Credits(PaidBy(tx)))
    <3>1. CASE PaidBy(tx) \cap Own = {} /\ proposed_transactions' = pt
      <4>1. chain_txs' \cap Own = chain_txs \cap Own
        BY <2>3, <3>1, Zenon
      <4> QED BY <1>5, <1>6, <1>7, <2>1, <3>1, <4>1, Zenon
    <3>2. CASE /\ PaidBy(tx) \cap Own = {tx.txid}
               /\ proposed_transactions' = add_transaction_to_block(Credit(tx.txid), pt)
      <4> DEFINE d == tx.txid
                 t == Credit(d)
      <4>1. d \in Own /\ d \in Deposits /\ PaidBy(tx) \subseteq {d} /\ Paid[d] \in Nat
        BY <1>0, <3>2, PaidByFacts, FundsAssumption, Zenon
      <4>2. d \notin chain_txs /\ chain_txs' = chain_txs \cup {d}
        BY <1>0, <2>1, <2>3, <3>2, <4>1, Zenon DEF DepositInv
      <4>3. t \notin UserTxs
        <5>1. \A e : Credit(e).of = e /\ Credit(e).type = "Deposit" /\ Debit(e).type = "Withdrawal"
          BY DEF Credit, Debit
        <5>2. "Deposit" # "Withdrawal"
          BY Zenon
        <5> QED BY <4>2, <5>1, <5>2, Zenon DEF UserTxs, Credits
      <4>4. Worth(t) = Paid[d]
        BY DEF Worth, Credit
      <4> DEFINE X == UserTxs \cup {t}
      <4>5. pt \in Seq(X) /\ t \in X
        BY <1>3, SeqGrows, Zenon
      <4>6. \A x \in X : Worth(x) \in Int
        BY <1>3, <4>1, <4>4
      <4>7. \A i \in DOMAIN pt : pt[i] # t
        <5> HIDE DEF pt, t
        <5> QED BY <1>3, <4>3
      <4> HIDE DEF X, t, d
      <4>8. proposed_transactions' = Append(pt, t)
        BY <3>2, <4>5, <4>7, AddToBlock, Zenon DEF t, d
      <4>9. Len(Append(pt, t)) = Len(pt) + 1
        BY <1>3
      <4>10. SumTo(Append(pt, t), Len(pt) + 1) = SumTo(pt, Len(pt)) + Worth(t)
        <5> HIDE DEF pt
        <5> QED BY <4>5, <4>6, SumToAppend, Zenon
      <4>11. Outlook' = balance + (SumTo(pt, Len(pt)) + Paid[d])
        BY <2>1, <4>4, <4>8, <4>9, <4>10, BalanceIs, Zenon
      <4>12. Outlook' = Outlook + Paid[d]
        BY <1>3, <1>4, <4>1, <4>11
      <4>13. Due(chain_txs', amount_sat', PaidOut') = due + Paid[d]
        BY <1>0, <1>1, <1>7, <2>1, <4>1, <4>2, DueFacts, Zenon DEF due
      <4>14. Outlook + Paid[d] >= due + Paid[d] /\ (Outlook = due => Outlook + Paid[d] = due + Paid[d])
        BY <1>2, <1>4, <4>1
      <4> QED BY <1>1, <1>2, <1>7, <2>1, <4>12, <4>13, <4>14, AccountIs, Zenon
    <3> QED BY <1>0, <2>3, <3>1, <3>2, CreditFacts, Zenon
  <2> QED BY <1>14, <2>2, <2>3, Zenon DEF insert_pending_deposit_transaction
<1>15. ASSUME NEW tx \in session, handle_signed_withdrawal(tx)
       PROVE  AccountFollowsBitcoin'
  <2>1. balance' = balance
    BY <1>15 DEF handle_signed_withdrawal
  <2>2. CASE UNCHANGED <<sent, chain_txs, proposed_transactions>>
    BY <1>5, <1>6, <1>7, <2>1, <2>2, Zenon
  <2>3. CASE /\ sent' = sent \cup {tx} /\ chain_txs' = chain_txs \cup {tx.txid}
             /\ proposed_transactions' = add_transaction_to_block(Debit(tx.txid), pt)
    <3> DEFINE w == tx.txid
               t == Debit(w)
               cost == amount_sat[w] + Fee
    <3>1. w \in Withdrawals /\ w \notin chain_txs /\ w \notin PaidOut
      BY <1>0 DEF TypeOK, TxInv, SpendInv
    <3>2. PaidOut' = PaidOut \cup {w}
      BY <2>3, <3>1, Zenon DEF PaidOut
    <3>3. cost \in Nat /\ amount_sat[w] \in Nat /\ Fee \in Nat
      BY <1>0, <3>1, Amounts_, Zenon DEF TypeOK
    <3>4. t.type = "Withdrawal" /\ t.amount = cost /\ Worth(t) = -cost
      BY Zenon DEF Debit, Worth
    <3>5. Due(chain_txs', amount_sat', PaidOut') = due - cost
      <4> HIDE DEF w
      <4>1. chain_txs' = chain_txs \cup {w}
        BY <2>3 DEF w
      <4> QED BY <1>0, <1>1, <3>1, <3>2, <4>1, DueFacts, Zenon DEF due
    <3> DEFINE X == UserTxs \cup {t}
    <3>6. pt \in Seq(X) /\ t \in X
      BY <1>3, SeqGrows, Zenon
    <3>7. \A x \in X : Worth(x) \in Int
      BY <1>3, <3>3, <3>4
    <3> HIDE DEF X, t, w, cost
    <3>8. CASE \A i \in DOMAIN pt : pt[i] # t
      <4>1. proposed_transactions' = Append(pt, t)
        BY <2>3, <3>6, <3>8, AddToBlock, Zenon DEF t, w
      <4>2. Len(Append(pt, t)) = Len(pt) + 1
        BY <1>3
      <4>3. SumTo(Append(pt, t), Len(pt) + 1) = SumTo(pt, Len(pt)) + Worth(t)
        <5> HIDE DEF pt
        <5> QED BY <3>6, <3>7, SumToAppend, Zenon
      <4>4. Outlook' = balance + (SumTo(pt, Len(pt)) + -cost)
        BY <2>1, <3>4, <4>1, <4>2, <4>3, BalanceIs, Zenon
      <4>5. Outlook' = Outlook - cost
        BY <1>3, <1>4, <3>3, <4>4
      <4>6. Outlook - cost >= due - cost /\ (Outlook = due => Outlook - cost = due - cost)
        BY <1>2, <1>4, <3>3
      <4>7. Equal(amount_sat, PaidOut) => Equal(amount_sat', PaidOut')
        BY <1>1, <3>2, Zenon DEF Equal
      <4> QED BY <1>2, <3>5, <4>5, <4>6, <4>7, AccountIs, Zenon
    <3>9. ASSUME NEW i \in DOMAIN pt, pt[i] = t
          PROVE  AccountFollowsBitcoin'
      <4>1. proposed_transactions' = pt
        BY <2>3, <3>6, <3>9, AddToBlock, Zenon DEF t, w
      <4>2. Outlook' = Outlook
        BY <1>6, <2>1, <4>1, Zenon
      <4>3. Outlook >= due - cost
        BY <1>2, <1>4, <3>3
      <4>4. t \in UserTxs
        <5> HIDE DEF pt
        <5> QED BY <1>3, <3>9
      <4>5. PICK v \in chain_txs \cap Withdrawals : t.amount = amount_sat[v] + Fee
        <5>1. amount_sat \in Amounts
          BY <1>0 DEF TypeOK
        <5>2. t.type # "Deposit"
          BY <3>4, Zenon
        <5> QED BY <4>4, <5>1, <5>2, Kinds, Zenon
      <4>6. v \in PaidOut /\ v # w
        BY <1>0, <3>1, Zenon DEF SpendInv
      <4>7. amount_sat[v] = amount_sat[w]
        <5>1. amount_sat[v] \in Nat
          BY <1>0, <4>5, Amounts_, Zenon DEF TypeOK
        <5>2. amount_sat[v] + Fee = amount_sat[w] + Fee
          BY <3>4, <4>5, Zenon DEF cost
        <5> QED BY <3>3, <5>1, <5>2
      <4>8. Equal(amount_sat', PaidOut')
        BY <1>1, <3>2, <4>6, <4>7, Zenon DEF Equal
      <4> QED BY <3>5, <4>2, <4>3, <4>8, AccountIs, Zenon
    <3> QED BY <3>8, <3>9, Zenon
  <2> QED BY <1>15, <2>2, <2>3, Zenon DEF handle_signed_withdrawal
<1> QED BY <1>8, <1>9, <1>10, <1>11, <1>12, <1>13, <1>14, <1>15, Zenon DEF Next

(* Steps that begin no withdrawal and debit none.                          *)
LEMMA OverlapSame ==
  ASSUME OverlapInv, overlapped' = overlapped, \A w \in Withdrawals : InProgress(w)' => InProgress(w),
         UNCHANGED <<balance, amount_sat>>, Debits' = Debits,
         \A i \in Debits : proposed_transactions'[i] = proposed_transactions[i]
  PROVE  OverlapInv'
  BY DEF OverlapInv

(* The steps after which no more withdrawals are in progress.              *)
LEMMA ProgressSame ==
  ASSUME pending_intents' \subseteq pending_intents, session' \subseteq session,
         \A w : Event("Spend", w) \in events' => Event("Spend", w) \in events
  PROVE  \A w \in Withdrawals : InProgress(w)' => InProgress(w)
<1>1. \A w : Event("Spend", w)' = Event("Spend", w)
  BY DEF Event
<1> QED BY <1>1 DEF InProgress

(* Every step keeps the one withdrawal covered, if there is no overlap.    *)
LEMMA OverlapStep ==
  ASSUME FundsInv, Next
  PROVE  OverlapInv'
<1> USE DEF bitcoin, monitoring, depositing, wallet, spending, account, history
<1> DEFINE pt == proposed_transactions
<1>0. TypeOK /\ TxInv /\ DepositInv /\ SpendInv /\ OverlapInv
  BY Zenon DEF FundsInv
<1>1. amount_sat' = amount_sat
  BY Monotone
<1>2. /\ pt \in Seq(UserTxs) /\ (\A t \in UserTxs : Worth(t) \in Int) /\ balance \in Nat
      /\ Len(pt) \in Nat /\ DOMAIN pt = 1 .. Len(pt) /\ amount_sat \in Amounts
  BY <1>0, Kinds DEF TypeOK
<1>3. \A i \in DOMAIN pt : pt[i] \in UserTxs
  <2> HIDE DEF pt
  <2> QED BY <1>2
<1>4. \A w : Event("Spend", w)' = Event("Spend", w)
  BY DEF Event
<1>5. proposed_transactions' = proposed_transactions => Debits' = Debits
  BY Zenon DEF Debits
<1>6. \A w \in Withdrawals : InProgress(w) => w \in proposed
  BY <1>0 DEF InProgress, TypeOK, TxInv, SpendInv
<1>7. ASSUME UNCHANGED <<proposed_transactions, balance, overlapped>>,
             pending_intents' \subseteq pending_intents, session' \subseteq session,
             \A w : Event("Spend", w) \in events' => Event("Spend", w) \in events
      PROVE  OverlapInv'
  BY <1>0, <1>1, <1>5, <1>7, OverlapSame, ProgressSame, Zenon
<1>8. CASE Mine \/ MonitorStart \/ NodeStart \/ SessionReplaced
  <2>1. /\ UNCHANGED <<proposed_transactions, balance, overlapped, pending_intents, events>>
        /\ session' \subseteq session
    BY <1>8 DEF Mine, MonitorStart, NodeStart, SessionReplaced
  <2> QED BY <1>7, <2>1
<1>9. CASE Poll
  <2>1. UNCHANGED <<proposed_transactions, balance, overlapped, pending_intents, session>>
    BY <1>9, Zenon DEF Poll
  <2>2. \A w : Event("Spend", w) \in events' => Event("Spend", w) \in events
    BY <1>9, EventKinds DEF Poll
  <2> QED BY <1>7, <2>1, <2>2
<1>10. CASE \E d \in Deposits : MonitorAddress(d)
  <2>1. UNCHANGED <<proposed_transactions, balance, overlapped, pending_intents, session>>
    BY <1>10, Zenon DEF MonitorAddress
  <2>2. \A w : Event("Spend", w) \in events' => Event("Spend", w) \in events
    BY <1>10, EventKinds DEF MonitorAddress
  <2> QED BY <1>7, <2>1, <2>2
<1>11. CASE \E d \in Deposits : Pay(d) \/ create_deposit(d)
  <2>1. UNCHANGED <<proposed_transactions, balance, overlapped, pending_intents, session, events>>
    BY <1>11 DEF Pay, create_deposit
  <2> QED BY <1>7, <2>1, Zenon
<1>12. CASE \E f \in Foreign : handle_withdrawl_message(f)
  <2>1. /\ UNCHANGED <<proposed_transactions, balance, overlapped, events>>
        /\ pending_intents' \subseteq pending_intents /\ session' \subseteq session
    BY <1>12 DEF handle_withdrawl_message, HandlerError
  <2> QED BY <1>7, <2>1, Zenon
<1>13. CASE FinalizeBlock
  <2>1. /\ UNCHANGED <<overlapped, pending_intents, session, events>> /\ proposed_transactions' = <<>>
        /\ balance' = Outlook
    BY <1>13 DEF FinalizeBlock
  <2>2. Debits' = {}
    BY <2>1 DEF Debits
  <2>3. \A w \in Withdrawals : InProgress(w)' => InProgress(w)
    BY <2>1, ProgressSame, Zenon
  <2>4. Debits = {} => balance' >= balance
    <3> SUFFICES ASSUME Debits = {}
                 PROVE  balance' >= balance
      BY Zenon
    <3>1. \A i \in 1 .. Len(pt) : Worth(pt[i]) \in Nat
      <4> TAKE i \in 1 .. Len(pt)
      <4>1. pt[i] \in UserTxs /\ pt[i].type # "Withdrawal"
        BY <1>2, <1>3 DEF Debits
      <4> HIDE DEF pt
      <4> QED BY <1>2, <4>1, Kinds, Zenon
    <3>2. SumTo(pt, Len(pt)) >= -0 /\ SumTo(pt, Len(pt)) \in Int
      <4> DEFINE n == Len(pt)
      <4>1. n \in 0 .. n /\ 0 \notin 1 .. n /\ 0 \in Nat
        BY <1>2
      <4>2. \A i \in 1 .. Len(pt) : i # 0 => Worth(pt[i]) \in Nat
        BY <3>1
      <4>3. 0 \in 1 .. Len(pt) => Worth(pt[0]) >= -0
        BY <1>2
      <4> HIDE DEF pt
      <4> QED BY <1>2, <4>1, <4>2, <4>3, OneDebit, SumToType, Zenon
    <3>3. balance' = balance + SumTo(pt, Len(pt))
      BY <2>1, BalanceIs, Zenon
    <3> HIDE DEF pt
    <3> QED BY <1>2, <3>2, <3>3
  <2>5. \A w \in Withdrawals : amount_sat[w] \in Nat
    BY <1>2, Amounts_, Zenon
  <2>6. balance' \in Int
    BY TypeStep DEF TypeOK
  <2>7. ASSUME ~overlapped, NEW w \in Withdrawals, InProgress(w)'
        PROVE  balance' >= amount_sat[w]
    <3>1. balance >= amount_sat[w] /\ Debits = {}
      BY <1>0, <2>3, <2>7, Zenon DEF OverlapInv
    <3> QED BY <1>2, <2>4, <2>5, <2>6, <3>1
  <2> QED BY <1>0, <1>1, <2>1, <2>2, <2>3, <2>7, Zenon DEF OverlapInv
<1>14. ASSUME NEW tx \in Confirming, insert_pending_deposit_transaction(tx)
       PROVE  OverlapInv'
  <2>1. /\ UNCHANGED <<balance, overlapped, pending_intents, session>> /\ events' \subseteq events
    BY <1>14 DEF insert_pending_deposit_transaction
  <2>2. CASE UNCHANGED proposed_transactions
    BY <1>7, <2>1, <2>2, Zenon
  <2>3. CASE \E d : proposed_transactions' = Append(pt, Credit(d))
    <3>1. PICK d : proposed_transactions' = Append(pt, Credit(d))
      BY <2>3
    <3> DEFINE t == Credit(d)
               qt == Append(pt, t)
    <3>2. t.type # "Withdrawal"
      BY DEF Credit
    <3> HIDE DEF t
    <3>3. /\ DOMAIN qt = 1 .. Len(pt) + 1 /\ qt[Len(pt) + 1] = t
          /\ \A i \in 1 .. Len(pt) : qt[i] = pt[i]
      BY <1>2
    <3>4. \A i \in 1 .. Len(pt) + 1 : i \in 1 .. Len(pt) \/ i = Len(pt) + 1
      BY <1>2
    <3>5. \A i \in 1 .. Len(pt) : i \in 1 .. Len(pt) + 1
      BY <1>2
    <3>6. {i \in DOMAIN qt : qt[i].type = "Withdrawal"} = {i \in DOMAIN pt : pt[i].type = "Withdrawal"}
      <4> HIDE DEF qt, pt
      <4> QED BY <1>2, <3>2, <3>3, <3>4, <3>5, Zenon
    <3>7. Debits' = Debits
      BY <3>1, <3>6, Zenon DEF Debits, t
    <3>8. \A i \in Debits : proposed_transactions'[i] = proposed_transactions[i]
      <4>1. \A i \in Debits : i \in 1 .. Len(pt)
        BY <1>2, Zenon DEF Debits
      <4> QED BY <3>1, <3>3, <4>1, Zenon DEF t
    <3> QED BY <1>0, <1>1, <2>1, <3>7, <3>8, OverlapSame, ProgressSame, Zenon
  <2>4. \/ proposed_transactions' = pt
        \/ proposed_transactions' = FoldSet(add_transaction_to_block, pt, Credits(PaidBy(tx)))
    BY <1>14 DEF insert_pending_deposit_transaction
  <2>5. \/ proposed_transactions' = pt
        \/ proposed_transactions' = add_transaction_to_block(Credit(tx.txid), pt)
    BY <1>0, <2>4, CreditFacts, Zenon
  <2> QED BY <2>2, <2>3, <2>5, Zenon DEF add_transaction_to_block
<1>15. ASSUME NEW w \in Withdrawals, propose_withdrawal(w)
       PROVE  OverlapInv'
  <2>1. UNCHANGED <<proposed_transactions, balance, events>>
    BY <1>15, Zenon DEF propose_withdrawal
  <2>2. CASE HandlerError /\ UNCHANGED overlapped
    BY <1>7, <2>1, <2>2, Zenon DEF HandlerError
  <2>3. CASE /\ Covers(w) /\ pending_intents' = pending_intents \cup {w} /\ session' = session
             /\ overlapped' = (overlapped \/ \E v \in proposed : Open(v))
    <3> SUFFICES ASSUME ~overlapped'
                 PROVE  OverlapInv'
      BY DEF OverlapInv
    <3>1. ~overlapped /\ \A v \in proposed : ~Open(v)
      BY <2>3, Zenon
    <3>2. \A v \in Withdrawals : ~InProgress(v)
      BY <1>6, <3>1, Zenon DEF Open
    <3>3. \A v \in Withdrawals : InProgress(v)' => v = w
      BY <1>4, <2>1, <2>3, <3>2, Zenon DEF InProgress
    <3>4. Debits = {}
      <4> SUFFICES ASSUME NEW i \in Debits
                   PROVE  FALSE
        OBVIOUS
      <4>1. i \in DOMAIN pt /\ pt[i].type = "Withdrawal" /\ pt[i] \in UserTxs
        BY <1>3, Zenon DEF Debits
      <4>2. PICK v \in chain_txs \cap Withdrawals : pt[i] = Debit(v)
        <5>1. pt[i].type # "Deposit"
          BY <4>1
        <5> HIDE DEF pt
        <5> QED BY <1>2, <4>1, <5>1, Kinds, Zenon
      <4>3. v \in proposed
        <5>1. PICK tx \in sent : tx.txid = v
          BY <1>0 DEF SpendInv, PaidOut
        <5>2. v \notin Deposits
          BY FundsAssumption, Zenon
        <5>3. tx \in spends
          BY <1>0, <5>1, <5>2, Known, PaymentFacts
        <5> QED BY <1>0, <5>1, <5>3, Zenon DEF TxInv
      <4>4. Debit(v) \in Range(proposed_transactions)
        BY <4>1, <4>2, Zenon DEF Range
      <4> QED BY <3>1, <4>2, <4>3, <4>4, Zenon DEF Open
    <3>5. balance' >= amount_sat'[w] /\ Debits' = {}
      BY <1>1, <1>5, <2>1, <2>3, <3>4, Zenon DEF Covers
    <3> QED BY <3>3, <3>5, Zenon DEF OverlapInv
  <2> QED BY <1>15, <2>2, <2>3, Zenon DEF propose_withdrawal
<1>16. ASSUME NEW w \in Withdrawals, confirm_withdrawal(w)
       PROVE  OverlapInv'
  <2>1. UNCHANGED <<proposed_transactions, balance, overlapped>> /\ w \in pending_intents
    BY <1>16, Zenon DEF confirm_withdrawal
  <2>2. /\ pending_intents' \subseteq pending_intents /\ session' \subseteq session
        /\ events' \subseteq events \cup {Event("Spend", w)}
    BY <1>16, Zenon DEF confirm_withdrawal, HandlerError
  <2>3. \A v \in Withdrawals : InProgress(v)' => InProgress(v)
    BY <1>4, <2>1, <2>2, EventKinds, Zenon DEF InProgress
  <2> QED BY <1>0, <1>1, <1>5, <2>1, <2>3, OverlapSame, Zenon
<1>17. ASSUME NEW w \in Withdrawals, start_spend_request(w)
       PROVE  OverlapInv'
  <2>1. /\ UNCHANGED <<proposed_transactions, balance, overlapped, pending_intents>>
        /\ Event("Spend", w) \in events /\ events' \subseteq events
    BY <1>17, Zenon DEF start_spend_request
  <2>2. create_spend(utxos, w, amount_sat[w], Fee).txid = w
    BY DEF create_spend, Tx
  <2>3. \A tx \in session' : tx \in session \/ tx.txid = w
    BY <1>17, <2>2 DEF start_spend_request, NewSession
  <2>4. \A v \in Withdrawals : InProgress(v)' => InProgress(v)
    BY <1>4, <2>1, <2>3, Zenon DEF InProgress
  <2> QED BY <1>0, <1>1, <1>5, <2>1, <2>4, OverlapSame, Zenon
<1>18. ASSUME NEW tx \in session, handle_signed_withdrawal(tx)
       PROVE  OverlapInv'
  <2>1. UNCHANGED <<balance, overlapped, events>>
    BY <1>18, Zenon DEF handle_signed_withdrawal
  <2>2. CASE HandlerError /\ UNCHANGED proposed_transactions
    BY <1>7, <2>1, <2>2, Zenon DEF HandlerError
  <2>3. CASE /\ proposed_transactions' = add_transaction_to_block(Debit(tx.txid), pt)
             /\ session' = session \ {tx} /\ pending_intents' = pending_intents
    <3> DEFINE w == tx.txid
               t == Debit(w)
               n == Len(pt)
    <3> SUFFICES ASSUME ~overlapped
                 PROVE  OverlapInv'
      BY <2>1, Zenon DEF OverlapInv
    <3>1. w \in Withdrawals /\ tx \in spends
      BY <1>0 DEF TypeOK, TxInv
    <3>2. InProgress(w)
      BY Zenon DEF InProgress
    <3>3. balance >= amount_sat[w] /\ Debits = {} /\ \A v \in Withdrawals : InProgress(v) => v = w
      BY <1>0, <3>1, <3>2, Zenon DEF OverlapInv
    <3>4. \A v \in Withdrawals : ~InProgress(v)'
      <4>1. session' = {} /\ w \notin pending_intents /\ Event("Spend", w) \notin events
        BY <1>0, <2>3, <3>1, Zenon DEF TypeOK, SpendInv
      <4>2. \A v \in Withdrawals : InProgress(v)' => InProgress(v)
        BY <2>1, <2>3, ProgressSame, Zenon
      <4> QED BY <1>4, <2>1, <2>3, <3>3, <4>1, <4>2, Zenon DEF InProgress
    <3>5. t.type = "Withdrawal" /\ t.amount = amount_sat[w] + Fee
      BY Zenon DEF Debit
    <3>6. \A i \in DOMAIN pt : pt[i] # t /\ pt[i].type # "Withdrawal"
      BY <3>3, <3>5 DEF Debits
    <3>7. proposed_transactions' = Append(pt, t)
      <4>1. t \notin Range(pt)
        BY <3>6, Zenon DEF Range
      <4> QED BY <2>3, <4>1, Zenon DEF add_transaction_to_block
    <3> HIDE DEF t, w
    <3>8. /\ DOMAIN Append(pt, t) = 1 .. n + 1 /\ Append(pt, t)[n + 1] = t
          /\ \A i \in 1 .. n : Append(pt, t)[i] = pt[i]
      BY <1>2
    <3>9. \A i \in 1 .. n + 1 : i \in 1 .. n \/ i = n + 1
      BY <1>2
    <3>10. \A i \in Debits' : i = n + 1 /\ proposed_transactions'[i] = t
      <4>1. \A i \in Debits' : i \in DOMAIN proposed_transactions' /\ proposed_transactions'[i].type = "Withdrawal"
        BY DEF Debits
      <4> HIDE DEF n
      <4> QED BY <1>2, <3>6, <3>7, <3>8, <3>9, <4>1, Zenon DEF n
    <3>11. balance >= t.amount - Fee
      <4>1. amount_sat[w] \in Nat /\ Fee \in Nat
        BY <1>2, <3>1, Amounts_, Zenon DEF w
      <4> QED BY <1>2, <3>3, <3>5, <4>1
    <3> QED BY <2>1, <3>4, <3>10, <3>11, Zenon DEF OverlapInv
  <2> QED BY <1>18, <2>2, <2>3, Zenon DEF handle_signed_withdrawal
<1> QED BY <1>8, <1>9, <1>10, <1>11, <1>12, <1>13, <1>14, <1>15, <1>16, <1>17, <1>18, Zenon DEF Next

(* The node starts well.                                                   *)
LEMMA InitLemma ==
  ASSUME Init
  PROVE  FundsInv
<1> DEFINE b == [started |-> FALSE, addresses |-> {}, last_confirmed_height |-> 0]
<1>1. /\ height = StartHeight /\ mined = [id \in Txids |-> 0] /\ sent = {} /\ monitor = b
      /\ announced = {} /\ monitor_start_block \in StartBlocks /\ use_mock_oracle \in Mocks
      /\ intents \in SUBSET Restored /\ deposit_addresses = {} /\ processed_txids = {}
      /\ addresses = {} /\ utxos = <<>> /\ amount_sat \in Amounts
      /\ pending_intents = {} /\ proposed = {} /\ session = {} /\ spends = {}
      /\ events = {} /\ chain_txs = {} /\ proposed_transactions = <<>> /\ balance = 0
      /\ running = FALSE /\ handlers = TRUE /\ watched = {} /\ missed = {} /\ overlapped = FALSE
  BY Zenon DEF Init
<1>2. Confirming = {} /\ PaidOut = {}
  BY <1>1, Zenon DEF Confirming, PaidOut
<1>3. /\ b.started = FALSE /\ b.addresses = {} /\ b.last_confirmed_height = 0
      /\ b \in [started : BOOLEAN, addresses : SUBSET Deposits, last_confirmed_height : 0 .. MaxU32]
  BY FundsAssumption
<1> HIDE DEF b
<1>4. TypeOK
  <2>1. height \in 0 .. MaxHeight /\ mined \in [Txids -> 0 .. height]
    BY <1>1, FundsAssumption
  <2>2. \A X : <<>> \in Seq(X)
    OBVIOUS
  <2>3. /\ utxos \in Seq([outpoint : [txid : Txids, vout : Nat], value : Nat, address : addresses])
        /\ proposed_transactions \in Seq(UserTxs)
    BY <1>1, <2>2, Zenon
  <2>4. intents \subseteq Deposits /\ use_mock_oracle \in BOOLEAN
    BY <1>1, FundsAssumption, Zenon
  <2> QED BY <1>1, <1>3, <2>1, <2>3, <2>4, Zenon DEF TypeOK
<1>5. TxInv
  BY <1>1, <1>2, Zenon DEF TxInv
<1>6. ScanInv
  BY <1>1, <1>2, <1>3, Zenon DEF ScanInv
<1>7. DepositInv
  BY <1>1, Zenon DEF DepositInv, Ready
<1>8. SpendInv
  BY <1>1, <1>2, Zenon DEF SpendInv
<1>9. OverlapInv
  <2>1. Debits = {} /\ \A w : ~InProgress(w)
    BY <1>1 DEF Debits, InProgress
  <2> QED BY <2>1 DEF OverlapInv
<1>10. UtxoInv
  BY <1>1 DEF UtxoInv
<1>11. IsFiniteSet(chain_txs)
  BY <1>1, FS_EmptySet, Zenon
<1>12. CreditedWhenDeep /\ WatchedNeverMissed
  BY <1>1, Zenon DEF CreditedWhenDeep, WatchedNeverMissed
<1>13. AccountFollowsBitcoin
  <2>1. chain_txs \cap Own = {}
    BY <1>1
  <2>2. ASSUME NEW g
        PROVE  SumFunctionOnSet(g, {}) = 0
    <3>1. IsFiniteSet({}) /\ \A x \in {} : g[x] \in Int
      BY FS_EmptySet
    <3> QED BY <3>1, SumFacts
  <2>3. Due(chain_txs, amount_sat, PaidOut) = 0
    <3>1. SumFunctionOnSet(Paid, chain_txs \cap Own) = 0
      BY <2>1, <2>2
    <3>2. SumFunctionOnSet(Cost(amount_sat), PaidOut) = 0
      BY <1>2, <2>2
    <3> QED BY <3>1, <3>2 DEF Due
  <2>4. SumTo(<<>>, 0) = 0
    <3>1. 1 .. 0 = {}
      OBVIOUS
    <3> QED BY <2>2, <3>1 DEF SumTo
  <2>5. Outlook = 0
    BY <1>1, <2>4, BalanceIs
  <2> QED BY <2>3, <2>5, AccountIs
<1> QED BY <1>4, <1>5, <1>6, <1>7, <1>8, <1>9, <1>10, <1>11, <1>12, <1>13, Zenon DEF FundsInv

(* A step that changes nothing.                                            *)
LEMMA Stutter ==
  ASSUME FundsInv, UNCHANGED vars
  PROVE  FundsInv'
<1> USE DEF bitcoin, monitoring, depositing, wallet, spending, account, history
<1>1. /\ UNCHANGED <<height, mined, sent, monitor, announced, monitor_start_block, use_mock_oracle>>
      /\ UNCHANGED <<intents, deposit_addresses, processed_txids, addresses, utxos>>
      /\ UNCHANGED <<amount_sat, pending_intents, proposed, session, spends, events>>
      /\ UNCHANGED <<chain_txs, proposed_transactions, balance, running, handlers>>
      /\ UNCHANGED <<watched, missed, overlapped>>
  BY Zenon DEF vars
<1>2. UNCHANGED <<Confirming, PaidOut, Debits, UserTxs, Outlook, Wrapped, Ready>>
  BY <1>1 DEF Confirming, PaidOut, Debits, UserTxs, Outlook, BalanceAfter, Worth, Credits, Credit, Debit,
              Wrapped, Ready
<1>3. /\ \A w : InProgress(w)' = InProgress(w)
      /\ \A o : Places(o)' = Places(o) /\ SpentBy(o)' = SpentBy(o)
  BY <1>1, Zenon DEF InProgress, Event, Places, SpentBy
<1>4. \A w : /\ Event("Spend", w)' = Event("Spend", w)
             /\ Event("ConfirmDeposit", Payment(w))' = Event("ConfirmDeposit", Payment(w))
  BY Zenon DEF Event, Payment, Tx, Output
<1>5. TypeOK'
  BY <1>1, <1>2, Zenon DEF FundsInv, TypeOK
<1>6. TxInv' /\ DepositInv' /\ SpendInv' /\ ScanInv'
  BY <1>1, <1>2, <1>4, Zenon DEF FundsInv, TxInv, DepositInv, SpendInv, ScanInv
<1>7. OverlapInv' /\ UtxoInv'
  BY <1>1, <1>2, <1>3, Zenon DEF FundsInv, OverlapInv, UtxoInv
<1>8. CreditedWhenDeep' /\ WatchedNeverMissed' /\ IsFiniteSet(chain_txs)'
  BY <1>1, <1>2, <1>4, Zenon DEF FundsInv, CreditedWhenDeep, WatchedNeverMissed
<1>9. AccountFollowsBitcoin'
  BY <1>1, <1>2 DEF FundsInv, AccountFollowsBitcoin
<1> QED BY <1>5, <1>6, <1>7, <1>8, <1>9, Zenon DEF FundsInv

(* The state stays well formed and the invariant of this module holds:     *)
(* every handler, the monitor, a crash of the handlers and every           *)
(* interleaving of them keep it.                                           *)
THEOREM Inductive == Spec => []FundsInv
<1>1. Init => FundsInv
  BY InitLemma
<1>2. FundsInv /\ [Next]_vars => FundsInv'
  <2>1. FundsInv /\ Next => FundsInv'
    BY TypeStep, TxStep, ScanStep, DepositStep, SpendStep, OverlapStep, UtxoStep, FiniteStep, DeepStep,
       WatchedStep, AccountStep, Zenon DEF FundsInv
  <2>2. FundsInv /\ UNCHANGED vars => FundsInv'
    BY Stutter
  <2> QED BY <2>1, <2>2, Zenon
<1> QED BY <1>1, <1>2, PTL DEF Spec

(* ingest_external_tx, create_spend and processed_txids together: the      *)
(* output of a credited deposit is in the wallet once, or one spend took   *)
(* it, for any number of deposits, rescans and failing spends.             *)
THEOREM DepositsAccounted == Spec => []DepositAccounted
<1>1. FundsInv => DepositAccounted
  <2> SUFFICES ASSUME FundsInv, NEW d \in chain_txs \cap addresses
               PROVE  Tracked(OutPoint(d, 0)) + Cardinality(SpentBy(OutPoint(d, 0))) = 1
    BY DEF DepositAccounted
  <2> DEFINE o == OutPoint(d, 0)
  <2>1. \/ SpentBy(o) = {} /\ \E i : Places(o) = {i}
        \/ Places(o) = {} /\ \E tx : SpentBy(o) = {tx}
    BY Zenon DEF FundsInv, UtxoInv
  <2> HIDE DEF o
  <2>2. Cardinality({}) = 0 /\ \A x : Cardinality({x}) = 1
    BY FS_EmptySet, FS_Singleton, Zenon
  <2>3. \/ Cardinality(SpentBy(o)) = 0 /\ Cardinality(Places(o)) = 1
        \/ Cardinality(Places(o)) = 0 /\ Cardinality(SpentBy(o)) = 1
    BY <2>1, <2>2, Zenon
  <2>4. Tracked(o) + Cardinality(SpentBy(o)) = 1
    BY <2>3 DEF Tracked
  <2> QED BY <2>4 DEF o
<1> QED BY <1>1, Inductive, PTL

(* propose_withdrawal checks the balance without the fee: if no other      *)
(* withdrawal was open then, the debits of a block run short by the fee at *)
(* most, for all amounts, fees and any number of deposits in between.      *)
THEOREM ShortByFee == Spec => []ShortByFeeOnly
<1>1. FundsInv => ShortByFeeOnly
  <2> DEFINE pt == proposed_transactions
  <2> SUFFICES ASSUME FundsInv, ~overlapped, NEW k \in DOMAIN pt
               PROVE  BalanceAfter(k) >= -Fee
    BY DEF ShortByFeeOnly
  <2>1. TypeOK /\ OverlapInv
    BY Zenon DEF FundsInv
  <2>2. /\ pt \in Seq(UserTxs) /\ (\A t \in UserTxs : Worth(t) \in Int) /\ balance \in Nat
        /\ amount_sat \in Amounts /\ Fee \in Nat
    BY <2>1, Kinds, FundsAssumption, Zenon DEF TypeOK
  <2>3. BalanceAfter(k) = balance + SumTo(pt, k)
    BY BalanceIs, Zenon
  <2>4. \A i \in DOMAIN pt \ Debits : pt[i].type # "Withdrawal"
    BY DEF Debits
  <2>5. \A i \in Debits : i \in DOMAIN pt /\ pt[i].type = "Withdrawal"
    BY Zenon DEF Debits
  <2>6. (\A i, j \in Debits : i = j) /\ \A i \in Debits : balance >= pt[i].amount - Fee
    BY <2>1 DEF OverlapInv
  <2> HIDE DEF pt
  <2>7. k \in 0 .. Len(pt) /\ DOMAIN pt = 1 .. Len(pt) /\ \A i \in DOMAIN pt : pt[i] \in UserTxs
    BY <2>2
  <2>8. \A i \in DOMAIN pt \ Debits : Worth(pt[i]) \in Nat
    BY <2>2, <2>4, <2>7, Kinds, Zenon
  <2>9. SumTo(pt, k) \in Int
    BY <2>2, <2>7, SumToType, Zenon
  <2>10. CASE Debits = {}
    <3>1. \A i \in 1 .. Len(pt) : i # 0 => Worth(pt[i]) \in Nat
      BY <2>7, <2>8, <2>10, Zenon
    <3>2. 0 \notin 1 .. Len(pt) /\ 0 \in Nat
      BY <2>7
    <3>3. SumTo(pt, k) >= -0
      BY <2>2, <2>7, <3>1, <3>2, OneDebit, Zenon
    <3> QED BY <2>2, <2>3, <2>9, <3>3
  <2>11. ASSUME NEW j \in Debits
         PROVE  BalanceAfter(k) >= -Fee
    <3> DEFINE b == pt[j].amount
    <3>1. b \in Nat /\ Worth(pt[j]) = -b /\ balance >= b - Fee
      BY <2>2, <2>5, <2>6, <2>7, Kinds, Zenon
    <3> HIDE DEF b
    <3>2. \A i \in 1 .. Len(pt) : i # j => Worth(pt[i]) \in Nat
      BY <2>6, <2>7, <2>8, Zenon
    <3>3. Worth(pt[j]) >= -b
      BY <3>1
    <3>4. SumTo(pt, k) >= -b
      BY <2>2, <2>7, <3>1, <3>2, <3>3, OneDebit, Zenon
    <3> QED BY <2>2, <2>3, <2>9, <3>1, <3>4
  <2> QED BY <2>10, <2>11
<1> QED BY <1>1, Inductive, PTL

(* poll_new_transactions: no deposit is credited before its payment has    *)
(* confirmation_depth blocks on top, for every depth and start height.     *)
THEOREM Deep == Spec => []CreditedWhenDeep
  BY Inductive, PTL DEF FundsInv

(* poll_new_transactions: the windows of the scans leave no gap, so a      *)
(* payment that was watched when mined is on its way or handled.           *)
THEOREM NeverMissed == Spec => []WatchedNeverMissed
  BY Inductive, PTL DEF FundsInv

(* create_deposit and handle_signed_withdrawal: balance and proposed       *)
(* transactions are the payments credited less the spends broadcast.       *)
THEOREM AccountFollows == Spec => []AccountFollowsBitcoin
  BY Inductive, PTL DEF FundsInv

-----------------------------------------------------------------------------
(* What the wallet spends *)

(* The values of a list of outputs, as total_val sums them.                *)
LEMMA ListValues ==
  ASSUME NEW A, NEW us \in Seq(UtxosOf(A))
  PROVE  /\ IsFiniteSet(DOMAIN us)
         /\ \A i \in DOMAIN us : i \in Nat /\ us[i].value \in Nat
<1>1. DOMAIN us = 1 .. Len(us) /\ Len(us) \in Nat
  OBVIOUS
<1>2. IsFiniteSet(DOMAIN us)
  BY <1>1, FS_Interval
<1>3. \A i \in DOMAIN us : us[i] \in UtxosOf(A)
  OBVIOUS
<1>4. \A i \in DOMAIN us : us[i].value \in Nat
  BY <1>3 DEF UtxosOf
<1> QED BY <1>1, <1>2, <1>4

(* More outputs are worth no less.                                         *)
LEMMA TotalGrows ==
  ASSUME NEW A, NEW us \in Seq(UtxosOf(A)), NEW S \in SUBSET DOMAIN us, NEW T \in SUBSET S
  PROVE  total_val(us, T) <= total_val(us, S)
<1> DEFINE f == [i \in DOMAIN us |-> us[i].value]
<1>1. IsFiniteSet(S)
  BY ListValues, FS_Subset
<1>2. \A x \in S : f[x] \in Nat
  BY ListValues
<1> HIDE DEF f
<1>3. SumFunctionOnSet(f, T) <= SumFunctionOnSet(f, S)
  BY <1>1, <1>2, SumPart
<1> QED BY <1>3 DEF total_val, f

(* The order of select_utxos is strict.                                    *)
LEMMA SoonerOrder ==
  ASSUME NEW A, NEW us \in Seq(UtxosOf(A))
  PROVE  /\ \A i \in DOMAIN us : ~Sooner(us, i, i)
         /\ \A i, j, k \in DOMAIN us : Sooner(us, i, j) /\ Sooner(us, j, k) => Sooner(us, i, k)
  BY ListValues DEF Sooner

(* An output that is left while others like it are: all that come before   *)
(* one of them are taken.                                                  *)
LEMMA FirstLeft ==
  ASSUME NEW A, NEW us \in Seq(UtxosOf(A)), NEW S \in SUBSET DOMAIN us, S # DOMAIN us
  PROVE  \E i \in DOMAIN us \ S : {j \in DOMAIN us : Sooner(us, j, i)} \subseteq S
<1> DEFINE D == DOMAIN us
           before(i) == {j \in D : Sooner(us, j, i)}
           C == {before(i) : i \in D \ S}
<1>1. C \in SUBSET (SUBSET D) /\ C # {} /\ IsFiniteSet(D)
  BY ListValues, Zenon
<1>2. PICK T \in C : \A U \in C : U \subseteq T => U = T
  <2> HIDE DEF C, D
  <2> QED BY <1>1, MinimalSubset
<1>3. PICK i \in D \ S : T = before(i)
  OBVIOUS
<1>4. ASSUME NEW j \in before(i), j \notin S
      PROVE  FALSE
  <2>1. j \in D /\ before(j) \in C
    BY <1>4
  <2>2. before(j) \subseteq before(i)
    BY <1>3, <1>4, <2>1, SoonerOrder
  <2>3. before(j) = before(i)
    BY <1>2, <1>3, <2>1, <2>2, Zenon
  <2>4. j \in before(j)
    BY <1>4, <2>3
  <2> QED BY <2>1, <2>4, SoonerOrder
<1> QED BY <1>3, <1>4

(* select_utxos and create_spend: largest first, stopping at the target,   *)
(* finds the funds whenever the wallet holds them.  A withdrawal is        *)
(* refused only if all tracked outputs together do not pay for it.         *)
THEOREM FundsFound ==
  ASSUME NEW A, NEW us \in Seq(UtxosOf(A)), NEW target \in Nat
  PROVE  HasFunds(us, target) <=> total_val(us, DOMAIN us) >= target
<1> DEFINE D == DOMAIN us
           S == select_utxos(us, target)
           before(i) == {j \in D : Sooner(us, j, i)}
<1>1. S \in SUBSET D /\ \A i \in D : total_val(us, before(i)) < target => i \in S
  BY DEF select_utxos
<1>2. HasFunds(us, target) <=> total_val(us, S) >= target
  BY DEF HasFunds
<1> HIDE DEF S
<1>3. total_val(us, S) \in Int /\ total_val(us, D) \in Int
  BY <1>1, TotalInt
<1>4. total_val(us, S) <= total_val(us, D)
  BY <1>1, TotalGrows
<1>5. ASSUME ~(total_val(us, S) >= target), S # D
      PROVE  FALSE
  <2>1. PICK i \in D \ S : before(i) \subseteq S
    BY <1>1, <1>5, FirstLeft
  <2>2. total_val(us, before(i)) <= total_val(us, S) /\ total_val(us, before(i)) \in Int
    BY <1>1, <2>1, TotalGrows, TotalInt
  <2>3. total_val(us, before(i)) < target
    BY <1>3, <1>5, <2>2
  <2> QED BY <1>1, <2>1, <2>3
<1> HIDE DEF D
<1>6. total_val(us, D) >= target => total_val(us, S) >= target
  BY <1>5
<1>7. total_val(us, S) >= target => total_val(us, D) >= target
  BY <1>3, <1>4
<1> QED BY <1>2, <1>6, <1>7 DEF D

(* create_spend: what the inputs hold beyond the outputs is the fee, or up *)
(* to the dust limit more when the change is too small to be paid out.     *)
THEOREM FeePaid ==
  ASSUME NEW A, NEW us \in Seq(UtxosOf(A)), NEW w,
         NEW amount \in Nat, NEW fee \in Nat, HasFunds(us, amount + fee)
  PROVE  LET tx == create_spend(us, w, amount, fee)
         IN  total_val(us, select_utxos(us, amount + fee)) - total_val(tx.output, DOMAIN tx.output)
                 \in fee .. fee + Dust
<1> DEFINE S == select_utxos(us, amount + fee)
           v == total_val(us, S)
           c == change_sat(us, amount, fee)
           a == change_address(us)
           out == create_spend(us, w, amount, fee).output
           f == [i \in DOMAIN out |-> out[i].value]
<1>1. v \in Int
  <2>1. S \in SUBSET DOMAIN us
    BY DEF select_utxos
  <2> QED BY <2>1, TotalInt
<1>2. v >= amount + fee /\ c = v - amount - fee
  BY DEF HasFunds, change_sat
<1>3. out = IF c > Dust THEN <<Output(amount, 0), Output(c, a)>> ELSE <<Output(amount, 0)>>
  BY DEF create_spend, Tx
<1>4. total_val(out, DOMAIN out) = SumFunctionOnSet(f, DOMAIN out)
  BY DEF total_val
<1> HIDE DEF v, c, a, out
<1>5. c \in Nat /\ v = amount + fee + c
  BY <1>1, <1>2
<1>6. CASE c > Dust
  <2>1. DOMAIN out = {1, 2} /\ f[1] = amount /\ f[2] = c
    BY <1>3, <1>6 DEF Output
  <2>2. IsFiniteSet({1}) /\ IsFiniteSet({1, 2}) /\ {1, 2} \ {2} = {1} /\ {1} \ {1} = {}
    <3>1. IsFiniteSet({1})
      BY FS_Singleton, Zenon
    <3>2. IsFiniteSet({1} \cup {2})
      BY <3>1, FS_AddElement, Zenon
    <3>3. {1} \cup {2} = {1, 2} /\ {1, 2} \ {2} = {1} /\ {1} \ {1} = {}
      OBVIOUS
    <3> QED BY <3>1, <3>2, <3>3, Zenon
  <2> HIDE DEF f
  <2>3. \A x \in {1, 2} : f[x] \in Int
    BY <1>5, <2>1
  <2>4. SumFunctionOnSet(f, {1, 2}) = f[2] + SumFunctionOnSet(f, {1})
    BY <2>2, <2>3, SumFacts
  <2>5. SumFunctionOnSet(f, {1}) = f[1] + SumFunctionOnSet(f, {}) /\ SumFunctionOnSet(f, {}) = 0
    BY <2>2, <2>3, SumFacts
  <2>6. total_val(out, DOMAIN out) = amount + c
    BY <1>4, <1>5, <2>1, <2>4, <2>5
  <2>7. v - total_val(out, DOMAIN out) = fee
    BY <1>5, <2>6
  <2>8. fee \in fee .. fee + Dust
    BY DustAssumption
  <2> QED BY <2>7, <2>8 DEF v, out
<1>7. CASE ~(c > Dust)
  <2>1. DOMAIN out = {1} /\ f[1] = amount
    BY <1>3, <1>7 DEF Output
  <2>2. IsFiniteSet({1}) /\ {1} \ {1} = {}
    BY FS_Singleton, Zenon
  <2> HIDE DEF f
  <2>3. SumFunctionOnSet(f, {1}) = f[1] + SumFunctionOnSet(f, {}) /\ SumFunctionOnSet(f, {}) = 0
    BY <2>1, <2>2, SumFacts
  <2>4. total_val(out, DOMAIN out) = amount
    BY <1>4, <2>1, <2>3
  <2>5. v - total_val(out, DOMAIN out) \in fee .. fee + Dust
    BY <1>5, <1>7, <2>4, DustAssumption
  <2> QED BY <2>5 DEF v, out
<1> QED BY <1>6, <1>7
=============================================================================
