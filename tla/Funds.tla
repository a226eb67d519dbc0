------------------------------- MODULE Funds --------------------------------
(***************************************************************************)
(* Bitcoin moving through one node: the deposit monitor of the oracle, the *)
(* deposit and withdrawal handlers, the wallet, and the account of one     *)
(* user in the chain state.                                                *)
(*                                                                         *)
(* The monitor is a task of its own.  It learns new deposit addresses over *)
(* a channel it subscribes to when it starts, scans the blocks that have   *)
(* become deep enough, and posts every transaction of a known address to   *)
(* the node loop, a spend by this node included.  With the mock oracle it  *)
(* makes up a payment for every address instead.  Signing is external here *)
(* (module Signing): a session completes, fails or never answers.  A       *)
(* handler's error costs the node all handlers, as in Signing.             *)
(*                                                                         *)
(* A block is one step (module Chain has its parts).  The withdrawals are  *)
(* all of one user, whose account some of the deposits are credited to.    *)
(***************************************************************************)
EXTENDS Wallet, FiniteSets

CONSTANTS
    Deposits,           \* deposit intents: address and payment of each
    Paid,               \* what the payment of a deposit is worth
    Own,                \* deposits of the user who withdraws
    Restored,           \* deposits that may have been requested in an earlier life
    Withdrawals,        \* withdrawal requests to this node
    Amounts,            \* what the withdrawals may be about
    EstimatedFee,       \* the fee of the dry run
    Fee,                \* the fee quoted for a withdrawal
    Refused,            \* withdrawals that a check or the network may refuse
    Foreign,            \* withdrawals that other nodes sign and gossip
    Lost,               \* payments whose download may fail
    confirmation_depth,
    MaxU32,             \* the largest height: heights are u32
    StartHeight,        \* height of the bitcoin chain when the node starts
    StartBlocks,        \* values of monitor_start_block, 0 for none
    Mocks,              \* values of use_mock_oracle
    MaxHeight           \* bound: the bitcoin chain ends here

ASSUME FundsAssumption ==
    /\ Deposits \subseteq Nat \ {0} /\ Withdrawals \subseteq Nat \ {0}
    /\ Foreign \subseteq Nat \ {0} /\ Refused \subseteq Withdrawals
    /\ Deposits \cap (Withdrawals \cup Foreign) = {} /\ Withdrawals \cap Foreign = {}
    /\ Paid \in [Deposits -> Nat] /\ Amounts \subseteq [Withdrawals -> Nat \ {0}]
    /\ Own \subseteq Deposits /\ Restored \subseteq Deposits /\ Lost \subseteq Deposits
    /\ EstimatedFee \in Nat /\ Fee \in Nat
    /\ MaxU32 \in Nat /\ MaxHeight \in Nat /\ confirmation_depth \in Nat
    /\ MaxHeight + confirmation_depth <= MaxU32
    /\ StartHeight \in 0 .. MaxHeight /\ StartBlocks \subseteq 0 .. MaxU32
    /\ Mocks \subseteq BOOLEAN

VARIABLES
    height,             \* of the bitcoin chain
    mined,              \* the block of each transaction, 0 for none
    sent,               \* bitcoin transactions in the mempool or in a block
    monitor,            \* poll_new_transactions: started, addresses, last_confirmed_height
    announced,          \* deposit intents on the channel to the monitor
    monitor_start_block,
    use_mock_oracle,
    intents,            \* deposit intents of the chain actor
    deposit_addresses,  \* DepositIntentState.deposit_addresses
    processed_txids,    \* DepositIntentState.processed_txids
    addresses,          \* TaprootWallet.addresses
    utxos,              \* TaprootWallet.utxos
    amount_sat,         \* of each withdrawal request
    pending_intents,    \* SpendIntentState.pending_intents
    proposed,           \* withdrawals proposed so far
    session,            \* the spend being signed (none or one)
    spends,             \* history: the spends create_spend has made
    events,             \* requests posted to the node loop
    chain_txs,          \* history: deposits and spends handed to the chain actor
    proposed_transactions, \* of them, the user's that no block has executed
    balance,            \* of the user's account
    running,            \* new_from_config is over
    handlers,           \* NodeState.handlers is not empty
    watched,            \* history: deposits monitored when they were mined
    missed,             \* history: payments whose download failed in a scan
    overlapped          \* history: was a proposal checked while another was open

bitcoin    == <<height, mined, sent>>
monitoring == <<monitor, announced, monitor_start_block, use_mock_oracle>>
depositing == <<intents, deposit_addresses, processed_txids>>
wallet     == <<addresses, utxos>>
spending   == <<amount_sat, pending_intents, proposed, session, spends>>
account    == <<chain_txs, proposed_transactions, balance>>
history    == <<watched, missed, overlapped>>
vars == <<bitcoin, monitoring, depositing, wallet, spending, events, account, running,
          handlers, history>>

Event(type, body) == [type |-> type, body |-> body]

Txids == Deposits \cup Withdrawals

-----------------------------------------------------------------------------
(* The bitcoin network *)

Payment(d) == Tx(d, {}, <<Output(Paid[d], d)>>)

(* A user pays to an address that a deposit request returned, now or in an *)
(* earlier life of the node.                                               *)
Pay(d) ==
    /\ ~use_mock_oracle
    /\ d \in intents \cup addresses /\ Payment(d) \notin sent
    /\ sent' = sent \cup {Payment(d)}
    /\ UNCHANGED <<height, mined, monitoring, depositing, wallet, spending, events, account,
                   running, handlers, history>>

Mine ==
    /\ ~use_mock_oracle /\ height < MaxHeight
    /\ height' = height + 1
    /\ \E txs \in SUBSET {tx \in sent : mined[tx.txid] = 0} :
        /\ mined' = [id \in Txids |->
                        IF \E tx \in txs : tx.txid = id THEN height + 1 ELSE mined[id]]
        /\ watched' = watched \cup {d \in monitor.addresses : Payment(d) \in txs}
    /\ UNCHANGED <<sent, monitoring, depositing, wallet, spending, events, account, running,
                   handlers, missed, overlapped>>

-----------------------------------------------------------------------------
(* The deposit monitor: poll_new_transactions *)

(* height - confirmation_depth on u32.  A build with overflow checks       *)
(* panics where this wraps around, and the node stops.                     *)
Confirmed(h) == (h - confirmation_depth) % (MaxU32 + 1)

(* Without an answer the monitor returns, and the node stops with it.      *)
MonitorStart ==
    /\ ~monitor.started
    /\ monitor' = [monitor EXCEPT !.started = TRUE,
                                  !.last_confirmed_height =
                                      IF use_mock_oracle THEN 0 ELSE Confirmed(height)]
    /\ UNCHANGED <<bitcoin, announced, monitor_start_block, use_mock_oracle, depositing, wallet,
                   spending, events, account, running, handlers, history>>

(* A new address is monitored; the mock oracle confirms a made up payment. *)
MonitorAddress(d) ==
    /\ d \in announced
    /\ announced' = announced \ {d}
    /\ \/ /\ ~use_mock_oracle
          /\ monitor' = [monitor EXCEPT !.addresses = @ \cup {d}]
          /\ UNCHANGED events
       \/ /\ use_mock_oracle
          /\ events' = events \cup {Event("ConfirmDeposit", Payment(d))}
          /\ UNCHANGED monitor
    /\ UNCHANGED <<bitcoin, monitor_start_block, use_mock_oracle, depositing, wallet, spending,
                   account, running, handlers, history>>

(* A transaction of an address pays to it or spends an output of it.       *)
TxOf(tx, a) ==
    \/ \E i \in DOMAIN tx.output : tx.output[i].address = a
    \/ \E p \in sent : \E i \in DOMAIN p.output :
           p.output[i].address = a /\ OutPoint(p.txid, i - 1) \in tx.input

(* get_confirmed_transactions, before the downloads                        *)
ConfirmedTxs(min_height, max_height) ==
    {tx \in sent : /\ mined[tx.txid] # 0
                   /\ mined[tx.txid] \in min_height .. max_height
                   /\ \E a \in monitor.addresses : TxOf(tx, a)}

(* Variant of new_confirmed_height: unconfirmed blocks are scanned.        *)
LatestHeight == height

new_confirmed_height == Confirmed(height)

(* Variant of min_height: the block after the last one scanned is skipped. *)
MinHeightSkipsOne ==
    IF monitor_start_block > 0 THEN monitor_start_block ELSE monitor.last_confirmed_height + 2

min_height ==
    IF monitor_start_block > 0 THEN monitor_start_block ELSE monitor.last_confirmed_height + 1

(* A scan.  A transaction that cannot be downloaded is passed over; if the *)
(* height or a list of transactions is not to be had nothing happens, and  *)
(* the next scan begins where this one would have.                         *)
Poll ==
    LET found == ConfirmedTxs(min_height, new_confirmed_height)
    IN  /\ monitor.started /\ ~use_mock_oracle
        /\ new_confirmed_height > monitor.last_confirmed_height
        /\ \E failed \in SUBSET {tx \in found : tx.txid \in Lost} :
            /\ events' = events \cup {Event("ConfirmDeposit", tx) : tx \in found \ failed}
            /\ missed' = missed \cup {tx.txid : tx \in failed}
        /\ monitor' = [monitor EXCEPT !.last_confirmed_height = new_confirmed_height]
        /\ UNCHANGED <<bitcoin, announced, monitor_start_block, use_mock_oracle, depositing,
                       wallet, spending, account, running, handlers, watched, overlapped>>

-----------------------------------------------------------------------------
(* The user's account in the chain state *)

(* The chain transactions of a deposit and of a withdrawal.  Those of      *)
(* withdrawals carry no number: equal ones are one transaction.            *)
Credit(d) == [type |-> "Deposit", amount |-> Paid[d], of |-> d]

(* Variant of Debit: the fee is left out.                                  *)
DebitWithoutFee(w) == [type |-> "Withdrawal", amount |-> amount_sat[w], of |-> 0]

Debit(w) == [type |-> "Withdrawal", amount |-> amount_sat[w] + Fee, of |-> 0]

Credits(ds) == {Credit(d) : d \in ds \cap Own}

(* add_transaction_to_block: what is proposed already is not added.        *)
add_transaction_to_block(t, txs) == IF t \in Range(txs) THEN txs ELSE Append(txs, t)

Worth(t) == IF t.type = "Deposit" THEN t.amount ELSE -t.amount

(* The balance once the first k proposed transactions have been executed.  *)
BalanceAfter(k) ==
    balance + SumFunctionOnSet([i \in DOMAIN proposed_transactions |->
                                    Worth(proposed_transactions[i])], 1 .. k)

Outlook == BalanceAfter(Len(proposed_transactions))

(* A block executes all that is proposed, or fails and changes nothing: a  *)
(* debit fails that exceeds the balance when its turn in the block comes.  *)
FinalizeBlock ==
    /\ running /\ handlers /\ proposed_transactions # <<>>
    /\ \A k \in DOMAIN proposed_transactions : BalanceAfter(k) >= 0
    /\ balance' = Outlook
    /\ proposed_transactions' = <<>>
    /\ UNCHANGED <<bitcoin, monitoring, depositing, wallet, spending, events, chain_txs, running,
                   handlers, history>>

-----------------------------------------------------------------------------
(* The deposit handler *)

(* A send on the channel reaches the monitor only once it has subscribed.  *)
Announce(ds) == announced' = IF monitor.started THEN announced \cup ds ELSE announced

(* NodeState::new_from_config: the intents of an earlier life.             *)
NodeStart ==
    /\ ~running
    /\ running' = TRUE
    /\ deposit_addresses' = intents
    /\ Announce(intents)
    /\ UNCHANGED <<bitcoin, monitor, monitor_start_block, use_mock_oracle, intents,
                   processed_txids, wallet, spending, events, account, handlers, history>>

Ready == running /\ handlers

create_deposit(d) ==
    /\ Ready /\ d \notin intents \cup addresses \cup chain_txs
    /\ addresses' = addresses \cup {d}
    /\ intents' = intents \cup {d}
    /\ deposit_addresses' = deposit_addresses \cup {d}
    /\ Announce({d})
    /\ UNCHANGED <<bitcoin, monitor, monitor_start_block, use_mock_oracle, processed_txids,
                   utxos, spending, events, account, running, handlers, history>>

(* The intents that a transaction pays.                                    *)
PaidBy(tx) ==
    {d \in deposit_addresses \cap intents :
         \E i \in DOMAIN tx.output : tx.output[i].address = d}

(* Variant of insert_pending_deposit_transaction: a transaction seen       *)
(* before is not recognised.                                               *)
InsertEveryTime(tx) ==
    LET paid == PaidBy(tx)
    IN  /\ Ready /\ Event("ConfirmDeposit", tx) \in events
        /\ events' = events \ {Event("ConfirmDeposit", tx)}
        /\ processed_txids' = processed_txids \cup {tx.txid}
        /\ chain_txs' = chain_txs \cup paid
        /\ proposed_transactions' = FoldSet(add_transaction_to_block, proposed_transactions,
                                             Credits(paid))
        /\ deposit_addresses' = deposit_addresses \ paid
        /\ intents' = intents \ paid
        /\ utxos' = ingest_external_tx(utxos, addresses, tx)
        /\ UNCHANGED <<bitcoin, monitoring, addresses, spending, balance, running, handlers,
                       history>>

(* insert_pending_deposit_transaction: what a transaction pays is credited *)
(* once, and the wallet takes in the transaction, a deposit or not.        *)
insert_pending_deposit_transaction(tx) ==
    LET paid == PaidBy(tx)
    IN  /\ Ready /\ Event("ConfirmDeposit", tx) \in events
        /\ events' = events \ {Event("ConfirmDeposit", tx)}
        /\ \/ /\ tx.txid \in processed_txids
              /\ UNCHANGED <<processed_txids, chain_txs, proposed_transactions,
                             deposit_addresses, intents, utxos>>
           \/ /\ tx.txid \notin processed_txids
              /\ processed_txids' = processed_txids \cup {tx.txid}
              /\ chain_txs' = chain_txs \cup paid
              /\ proposed_transactions' = FoldSet(add_transaction_to_block,
                                                  proposed_transactions, Credits(paid))
              /\ deposit_addresses' = deposit_addresses \ paid
              /\ intents' = intents \ paid
              /\ utxos' = ingest_external_tx(utxos, addresses, tx)
        /\ UNCHANGED <<bitcoin, monitoring, addresses, spending, balance, running, handlers,
                       history>>

-----------------------------------------------------------------------------
(* The withdrawal handler and the spend *)

(* An error on the way: the handlers are lost, with their state.           *)
HandlerError ==
    /\ handlers' = FALSE
    /\ pending_intents' = {} /\ session' = {}
    /\ deposit_addresses' = {} /\ processed_txids' = {}

(* A withdrawal that has been accepted, with its spend still to come ...   *)
InProgress(w) ==
    \/ w \in pending_intents \/ Event("Spend", w) \in events
    \/ \E tx \in session : tx.txid = w

(* ... or sent, with the debit still to be executed.                       *)
Open(w) == InProgress(w) \/ (w \in chain_txs /\ Debit(w) \in Range(proposed_transactions))

(* Variant of Covers: the balance is not looked at.                        *)
CoversAlways(w) == TRUE

(* The balance of the last block covers the amount, without the fee.       *)
Covers(w) == balance >= amount_sat[w]

(* propose_withdrawal: the balance, the fee rate (Refused) and a dry run.  *)
propose_withdrawal(w) ==
    LET accepted == Covers(w) /\ HasFunds(utxos, amount_sat[w] + EstimatedFee)
    IN  /\ Ready /\ w \notin proposed
        /\ proposed' = proposed \cup {w}
        /\ \/ /\ accepted
              /\ pending_intents' = pending_intents \cup {w}
              /\ overlapped' = (overlapped \/ \E v \in proposed : Open(v))
              /\ UNCHANGED <<session, deposit_addresses, processed_txids, handlers>>
           \/ (w \in Refused \/ ~accepted) /\ HandlerError /\ UNCHANGED overlapped
        /\ UNCHANGED <<amount_sat, bitcoin, monitoring, intents, wallet, spends, events, account,
                       running, watched, missed>>

(* confirm_withdrawal: a wrong signature (Refused) is an error.            *)
confirm_withdrawal(w) ==
    /\ Ready /\ w \in pending_intents
    /\ \/ /\ pending_intents' = pending_intents \ {w}
          /\ events' = events \cup {Event("Spend", w)}
          /\ UNCHANGED <<session, deposit_addresses, processed_txids, handlers>>
       \/ w \in Refused /\ HandlerError /\ UNCHANGED events
    /\ UNCHANGED <<amount_sat, bitcoin, monitoring, intents, wallet, proposed, spends, account,
                   running, history>>

(* Variant of NewSession: the session in progress is not respected.        *)
NewSessionToo(tx) == session \cup {tx}

NewSession(tx) == IF session = {} THEN {tx} ELSE session

(* start_spend_request: create_spend takes the inputs before the session   *)
(* turns out to be taken.                                                  *)
start_spend_request(w) ==
    LET tx == create_spend(utxos, w, amount_sat[w], Fee)
    IN  /\ Ready /\ Event("Spend", w) \in events
        /\ events' = events \ {Event("Spend", w)}
        /\ \/ /\ HasFunds(utxos, amount_sat[w] + Fee)
              /\ utxos' = AfterSpend(utxos, tx)
              /\ session' = NewSession(tx)
              /\ spends' = spends \cup {tx}
           \/ /\ ~HasFunds(utxos, amount_sat[w] + Fee)
              /\ UNCHANGED <<utxos, session, spends>>
        /\ UNCHANGED <<amount_sat, bitcoin, monitoring, depositing, addresses, pending_intents,
                       proposed, account, running, handlers, history>>

(* The bitcoin network takes a transaction whose inputs exist, are unspent *)
(* and all signed; the witness is put into the first input only.  The mock *)
(* oracle takes everything.                                                *)
Accepts(tx) ==
    \/ use_mock_oracle
    \/ /\ Cardinality(tx.input) = 1
       /\ \A o \in tx.input : /\ \E p \in sent : p.txid = o.txid /\ o.vout < Len(p.output)
                              /\ \A p \in sent : o \notin p.input

(* handle_signature_share and handle_signed_withdrawal, when the signature *)
(* is complete: broadcast, then debit.                                     *)
handle_signed_withdrawal(tx) ==
    /\ Ready /\ tx \in session
    /\ \/ /\ Accepts(tx)
          /\ sent' = sent \cup {tx}
          /\ chain_txs' = chain_txs \cup {tx.txid}
          /\ proposed_transactions' = add_transaction_to_block(Debit(tx.txid),
                                                              proposed_transactions)
          /\ session' = session \ {tx}
          /\ UNCHANGED <<pending_intents, deposit_addresses, processed_txids, handlers>>
       \/ /\ tx.txid \in Refused \/ ~Accepts(tx)
          /\ HandlerError /\ UNCHANGED <<sent, chain_txs, proposed_transactions>>
    /\ UNCHANGED <<amount_sat, height, mined, monitoring, intents, wallet, proposed, spends,
                   events, balance, running, history>>

(* A sign request of another node takes the place of the session.          *)
SessionReplaced ==
    /\ Ready /\ session # {}
    /\ session' = {}
    /\ UNCHANGED <<amount_sat, bitcoin, monitoring, depositing, wallet, pending_intents,
                   proposed, spends, events, account, running, handlers, history>>

ForeignTx(f) == Tx(f, {OutPoint(0, f)}, <<Output(1, 0)>>)

(* handle_withdrawl_message: a spend of another node, which has broadcast  *)
(* it, is broadcast once more; the network may refuse it as known.  It     *)
(* touches no output of this wallet, and it debits another account.        *)
handle_withdrawl_message(f) ==
    /\ Ready /\ f \notin chain_txs
    /\ \/ /\ utxos' = ingest_external_tx(utxos, addresses, ForeignTx(f))
          /\ chain_txs' = chain_txs \cup {f}
          /\ UNCHANGED <<pending_intents, session, deposit_addresses, processed_txids, handlers>>
       \/ HandlerError /\ UNCHANGED <<utxos, chain_txs>>
    /\ UNCHANGED <<amount_sat, bitcoin, monitoring, intents, addresses, proposed, spends, events,
                   proposed_transactions, balance, running, history>>

-----------------------------------------------------------------------------
(* A start of the node: the intents of its last life are in the chain      *)
(* state, the wallet is empty.                                             *)
Init ==
    /\ height = StartHeight
    /\ mined = [id \in Txids |-> 0]
    /\ sent = {}
    /\ monitor = [started |-> FALSE, addresses |-> {}, last_confirmed_height |-> 0]
    /\ announced = {} /\ monitor_start_block \in StartBlocks /\ use_mock_oracle \in Mocks
    /\ intents \in SUBSET Restored
    /\ deposit_addresses = {} /\ processed_txids = {}
    /\ addresses = {} /\ utxos = <<>>
    /\ amount_sat \in Amounts
    /\ pending_intents = {} /\ proposed = {} /\ session = {} /\ spends = {}
    /\ events = {} /\ chain_txs = {} /\ proposed_transactions = <<>> /\ balance = 0
    /\ running = FALSE /\ handlers = TRUE
    /\ watched = {} /\ missed = {} /\ overlapped = FALSE

Confirming == {e.body : e \in {f \in events : f.type = "ConfirmDeposit"}}

Next ==
    \/ Mine \/ MonitorStart \/ Poll \/ NodeStart \/ SessionReplaced \/ FinalizeBlock
    \/ \E d \in Deposits : Pay(d) \/ MonitorAddress(d) \/ create_deposit(d)
    \/ \E tx \in Confirming : insert_pending_deposit_transaction(tx)
    \/ \E w \in Withdrawals :
           propose_withdrawal(w) \/ confirm_withdrawal(w) \/ start_spend_request(w)
    \/ \E tx \in session : handle_signed_withdrawal(tx)
    \/ \E f \in Foreign : handle_withdrawl_message(f)

Spec == Init /\ [][Next]_vars

-----------------------------------------------------------------------------
(* Properties *)

(* The chain transactions of the user.                                     *)
UserTxs == Credits(chain_txs) \cup {Debit(w) : w \in chain_txs \cap Withdrawals}

(* The state is well formed: at most one spend is being signed (the check  *)
(* of active_signing), what the node waits for was requested, and neither  *)
(* an output nor the balance is negative.                                  *)
TypeOK ==
    /\ height \in 0 .. MaxHeight /\ mined \in [Txids -> 0 .. height]
    /\ monitor \in [started : BOOLEAN, addresses : SUBSET Deposits,
                    last_confirmed_height : 0 .. MaxU32]
    /\ announced \cup watched \cup missed \subseteq Deposits
    /\ monitor_start_block \in StartBlocks /\ use_mock_oracle \in BOOLEAN
    /\ intents \cup deposit_addresses \cup addresses \subseteq Deposits
    /\ processed_txids \subseteq Txids /\ chain_txs \subseteq Txids \cup Foreign
    /\ proposed_transactions \in Seq(UserTxs)
    /\ balance \in Nat
    /\ utxos \in Seq([outpoint : [txid : Txids, vout : Nat], value : Nat, address : addresses])
    /\ amount_sat \in Amounts
    /\ pending_intents \subseteq proposed /\ proposed \subseteq Withdrawals
    /\ session \subseteq spends /\ \A s, t \in session : s = t
    /\ \A e \in events : e.type \in {"ConfirmDeposit", "Spend"}
    /\ {running, handlers, overlapped} \subseteq BOOLEAN

(* The monitor started on a chain shorter than confirmation_depth, and its *)
(* height wrapped around.                                                  *)
Wrapped == monitor.last_confirmed_height > height

(* No deposit is credited before its payment has confirmation_depth blocks *)
(* on top, whatever the monitor, the channel and the handler interleave,   *)
(* if the chain was as long as that when the monitor started.              *)
CreditedWhenDeep ==
    ~use_mock_oracle /\ ~Wrapped =>
        \A d \in chain_txs \cap Deposits :
            mined[d] > 0 /\ mined[d] + confirmation_depth <= height

(* A payment to an address the monitor knew when the payment was mined is  *)
(* not skipped: once the monitor has scanned past its block, the payment   *)
(* is on its way to the deposit handler or was handled, unless its         *)
(* download failed.  The windows of consecutive polls leave no gap; on a   *)
(* chain shorter than confirmation_depth there are none.                   *)
WatchedNeverMissed ==
    \A d \in watched \ missed :
        (handlers /\ ~Wrapped
            /\ monitor_start_block <= mined[d] /\ mined[d] <= monitor.last_confirmed_height)
            => \/ Event("ConfirmDeposit", Payment(d)) \in events
               \/ d \in processed_txids

(* The account follows the bitcoin that moved: balance and proposed        *)
(* transactions add up to the payments credited less the spends that were  *)
(* broadcast, fees included.  Only equal withdrawals, of which one may be  *)
(* taken for the other while it is proposed, are debited too little.       *)
PaidOut == {w \in Withdrawals : \E tx \in sent : tx.txid = w}

AccountFollowsBitcoin ==
    LET due == SumFunctionOnSet(Paid, chain_txs \cap Own)
                   - SumFunctionOnSet([w \in Withdrawals |-> amount_sat[w] + Fee], PaidOut)
        equal == \E v, w \in PaidOut : v # w /\ amount_sat[v] = amount_sat[w]
    IN  Outlook >= due /\ (Outlook = due \/ equal)

(* The balance is checked at the proposal only, without the fee and        *)
(* against the last block.  Unless another withdrawal was open then, the   *)
(* debit exceeds the balance by the fee at most; otherwise it can stop the *)
(* chain with more.                                                        *)
ShortByFeeOnly ==
    ~overlapped => \A k \in DOMAIN proposed_transactions : BalanceAfter(k) >= -Fee

(* Where and how often an output is tracked, and the spends that consume   *)
(* it.                                                                     *)
Places(o) == {i \in DOMAIN utxos : utxos[i].outpoint = o}

Tracked(o) == Cardinality(Places(o))

SpentBy(o) == {tx \in spends : o \in tx.input}

(* The output of a credited deposit is tracked exactly once until exactly  *)
(* one spend consumes it: rescans, repeated confirmations and spends that  *)
(* fail or are stranded neither bring it back nor lose it.                 *)
DepositAccounted ==
    \A d \in chain_txs \cap addresses :
        Tracked(OutPoint(d, 0)) + Cardinality(SpentBy(OutPoint(d, 0))) = 1

(* Handling a transaction again changes nothing, so no output is tracked   *)
(* twice (processed_txids, ingest_external_tx).                            *)
UtxoOnce == \A o \in OutPoints(utxos) : Tracked(o) = 1

-----------------------------------------------------------------------------
(* The inductive invariant *)

(* What is known of the transactions: they are payments, or spends of this *)
(* node with change for a deposit that has been credited.                  *)
Payments == {Payment(d) : d \in Deposits}

TxInv ==
    /\ sent \cup Confirming \subseteq Payments \cup spends
    /\ \A tx \in spends :
           /\ tx.txid \in proposed
           /\ tx.output \in Seq([value : Nat, address : {0} \cup (addresses \cap chain_txs)])
           /\ \A o \in tx.input : o.txid \in Deposits => o.txid \in chain_txs

(* The monitor has scanned what is deep enough, or its height wrapped      *)
(* around and never comes back; what it found was deep enough.             *)
ScanInv ==
    /\ ~monitor.started => /\ announced = {} /\ monitor.addresses = {} /\ watched = {}
                           /\ monitor.last_confirmed_height = 0
    /\ \/ use_mock_oracle \/ ~monitor.started
       \/ monitor.last_confirmed_height > MaxHeight
       \/ monitor.last_confirmed_height + confirmation_depth <= height
    /\ ~use_mock_oracle /\ monitor.last_confirmed_height <= MaxHeight =>
           \A tx \in Confirming :
               mined[tx.txid] > 0 /\ mined[tx.txid] + confirmation_depth <= height
    /\ \A d \in watched : d \in monitor.addresses /\ mined[d] > 0 /\ Payment(d) \in sent

(* An address is waiting for its payment or was credited; while the        *)
(* handlers are there, they know both.                                     *)
DepositInv ==
    /\ intents \cap chain_txs = {} /\ addresses \subseteq intents \cup chain_txs
    /\ Ready => deposit_addresses = intents
    /\ handlers => chain_txs \cap Deposits \subseteq processed_txids

(* A withdrawal is spent once: it goes from the proposal over the request  *)
(* to one spend, and is in the chain when that was sent.                   *)
SpendInv ==
    /\ \A w \in Withdrawals : Event("Spend", w) \in events => w \in proposed \ pending_intents
    /\ \A tx \in spends : tx.txid \notin pending_intents /\ Event("Spend", tx.txid) \notin events
    /\ \A s, t \in spends : s.txid = t.txid => s = t
    /\ chain_txs \cap Withdrawals = PaidOut
    /\ \A tx \in session : tx.txid \notin chain_txs

(* Without overlap there is one withdrawal in progress, or one debit that  *)
(* is proposed, and the balance still covers it up to the fee.             *)
Debits == {i \in DOMAIN proposed_transactions : proposed_transactions[i].type = "Withdrawal"}

OverlapInv == ~overlapped =>
    /\ \A v, w \in Withdrawals : InProgress(v) /\ InProgress(w) => v = w
    /\ \A w \in Withdrawals : InProgress(w) => balance >= amount_sat[w] /\ Debits = {}
    /\ \A i, j \in Debits : i = j
    /\ \A i \in Debits : balance >= proposed_transactions[i].amount - Fee

(* The output of a credited deposit is in one place of the list, or one    *)
(* spend has it; there are no outputs of other deposits.                   *)
UtxoInv ==
    /\ \A i \in DOMAIN utxos :
           /\ utxos[i].address \in chain_txs
           /\ utxos[i].outpoint.txid \in Deposits => utxos[i].outpoint.txid \in chain_txs
    /\ \A d \in chain_txs \cap addresses : LET o == OutPoint(d, 0) IN
           \/ SpentBy(o) = {} /\ \E i \in DOMAIN utxos : Places(o) = {i}
           \/ Places(o) = {} /\ \E tx \in spends : SpentBy(o) = {tx}

(* The inductive invariant: what is known of the transactions, the monitor,*)
(* the handlers, the wallet and the account.                               *)
FundsInv ==
    /\ TypeOK /\ TxInv /\ ScanInv /\ DepositInv /\ SpendInv /\ OverlapInv /\ UtxoInv
    /\ IsFiniteSet(chain_txs)
    /\ CreditedWhenDeep /\ WatchedNeverMissed /\ AccountFollowsBitcoin
=============================================================================
