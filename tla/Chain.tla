------------------------------- MODULE Chain --------------------------------
(***************************************************************************)
(* The chain actor of one node and its database (crates/abci).             *)
(*                                                                         *)
(* The actor answers one message at a time.  Finalizing a block executes   *)
(* its transactions on a copy of the chain state, writes the block with    *)
(* three separate puts, flushes the copy, and only then replaces the state *)
(* in memory.  The process may crash between any two of these steps, and a *)
(* put may fail; a restart reads back the last flushed state.              *)
(***************************************************************************)
EXTENDS Executor, FiniteSets

CONSTANTS
    MaxFinalize,  \* bound: attempts to finalize a block
    MaxRestarts   \* bound: crashes, each followed by a restart

ASSUME BoundAssumption == MaxFinalize \in Nat /\ MaxRestarts \in Nat

VARIABLES
    chain_state,  \* ChainInterfaceImpl.chain_state
    block,        \* the block being finalized or stored
    todo,         \* its transactions not yet executed
    pc,           \* the next step of the actor, "idle" between messages
    db,           \* the database: flushed state, blocks by hash and by height,
                  \* tip (none or one block), and the deposit_intents column
    seen,         \* history: intents created and transactions handed to the node
    attempts,     \* history: calls of finalize_and_store_block
    restarts      \* history: crashes so far

actorVars == <<chain_state, block, todo, pc>>
history   == <<seen, attempts, restarts>>
vars      == <<executorVars, actorVars, db, history>>

-----------------------------------------------------------------------------
(* States and blocks *)

(* ChainState.  A deposit intent is identified with the deposit transaction*)
(* that its payment creates.  applied is a history: how often each         *)
(* transaction has been executed into accounts.                            *)
ChainState == [accounts : [Users -> Nat], intents : SUBSET Txs,
               pending : SUBSET Txs, height : Nat, applied : [Txs -> Nat]]

EmptyState == [accounts |-> [u \in Users |-> 0], intents |-> {}, pending |-> {},
               height |-> 0, applied |-> [t \in Txs |-> 0]]

Block == [height : Nat, txs : SUBSET Txs]

Genesis == [height |-> 0, txs |-> {}]

-----------------------------------------------------------------------------
(* Messages that change only the memory, or one key of the database *)

(* CreateDeposit: the intent goes to the state in memory and to a column   *)
(* that no code reads back.                                                *)
InsertDepositIntent(t) ==
    /\ pc = "idle" /\ TxType[t] = "Deposit" /\ t \notin seen
    /\ chain_state' = [chain_state EXCEPT !.intents = @ \cup {t}]
    /\ db' = [db EXCEPT !.intents = @ \cup {t}]
    /\ seen' = seen \cup {t}
    /\ UNCHANGED <<executorVars, block, todo, pc, attempts, restarts>>

(* Variant of ConfirmDeposit: the intent stays open.                       *)
ConfirmKeepIntent(t) ==
    /\ pc = "idle" /\ t \in chain_state.intents
    /\ chain_state' = [chain_state EXCEPT !.pending = @ \cup {t}]
    /\ UNCHANGED <<executorVars, block, todo, pc, db, history>>

(* ConfirmDeposit of a payment to a known intent: the transaction becomes  *)
(* pending and the intent is removed.                                      *)
ConfirmDeposit(t) ==
    /\ pc = "idle" /\ t \in chain_state.intents
    /\ chain_state' = [chain_state EXCEPT !.pending = @ \cup {t}, !.intents = @ \ {t}]
    /\ db' = [db EXCEPT !.intents = @ \ {t}]
    /\ UNCHANGED <<executorVars, block, todo, pc, history>>

(* A withdrawal, or a transaction gossiped by another node.                *)
AddTransactionToBlock(t) ==
    /\ pc = "idle" /\ t \notin seen
    /\ chain_state' = [chain_state EXCEPT !.pending = @ \cup {t}]
    /\ seen' = seen \cup {t}
    /\ UNCHANGED <<executorVars, block, todo, pc, db, attempts, restarts>>

-----------------------------------------------------------------------------
(* finalize_and_store_block *)

(* Variant of FinalizeBlock: the block gets the height of the last one.    *)
FinalizeAtLastHeight ==
    /\ pc = "idle" /\ attempts < MaxFinalize
    /\ block' = [height |-> chain_state.height, txs |-> chain_state.pending]
    /\ new_chain_state' = [chain_state EXCEPT !.height = @ + 1]
    /\ todo' = chain_state.pending
    /\ pc' = "execute"
    /\ attempts' = attempts + 1
    /\ UNCHANGED <<stack, allowance_list, tx, ip, chain_state, db, seen, restarts>>

(* The block of all pending transactions, executed on a copy of the state. *)
FinalizeBlock ==
    /\ pc = "idle" /\ attempts < MaxFinalize
    /\ block' = [height |-> chain_state.height + 1, txs |-> chain_state.pending]
    /\ new_chain_state' = [chain_state EXCEPT !.height = @ + 1]
    /\ todo' = chain_state.pending
    /\ pc' = "execute"
    /\ attempts' = attempts + 1
    /\ UNCHANGED <<stack, allowance_list, tx, ip, chain_state, db, seen, restarts>>

(* The next transaction in the order of the ids. *)
ExecuteTransaction ==
    /\ pc = "execute" /\ ip = 0
    /\ \E t \in todo : (\A u \in todo : t <= u) /\ tx' = t /\ todo' = todo \ {t}
    /\ ip' = 1
    /\ UNCHANGED <<stack, allowance_list, new_chain_state, chain_state, block, pc, db, history>>

ExecuteStep ==
    /\ pc = "execute" /\ ExecuteOp
    /\ UNCHANGED <<actorVars, db, history>>

(* Variant of ExecuteError: what was executed before the error is kept.    *)
ErrorKeepsPartialState ==
    /\ pc = "execute" /\ OpFails
    /\ chain_state' = new_chain_state
    /\ todo' = {} /\ pc' = "idle"
    /\ UNCHANGED <<block, db, history>>

(* The first error ends the attempt: the copy is dropped, and the pending  *)
(* transactions stay, the one that failed included.                        *)
ExecuteError ==
    /\ pc = "execute" /\ OpFails
    /\ todo' = {} /\ pc' = "idle"
    /\ UNCHANGED <<chain_state, block, db, history>>

Executed ==
    /\ pc = "execute" /\ ip = 0 /\ todo = {}
    /\ pc' = "put_block"
    /\ UNCHANGED <<executorVars, chain_state, block, todo, db, history>>

(* CreateGenesisBlock, once the key generation is over: a block, no state. *)
CreateGenesisBlock ==
    /\ pc = "idle"
    /\ block' = Genesis
    /\ pc' = "put_block"
    /\ UNCHANGED <<executorVars, chain_state, todo, db, history>>

(* Variant of PutBlock: the tip is written before the block.               *)
PutTipFirst ==
    /\ pc = "put_block"
    /\ db' = [db EXCEPT !.tip = {block}]
    /\ pc' = "put_height"
    /\ UNCHANGED <<executorVars, chain_state, block, todo, history>>

(* insert_block: by hash, by height, and as the tip.                       *)
PutBlock ==
    /\ pc = "put_block"
    /\ db' = [db EXCEPT !.blocks = @ \cup {block}]
    /\ pc' = "put_height"
    /\ UNCHANGED <<executorVars, chain_state, block, todo, history>>

PutHeight ==
    /\ pc = "put_height"
    /\ db' = [db EXCEPT !.by_height = {b \in @ : b.height # block.height} \cup {block}]
    /\ pc' = "put_tip"
    /\ UNCHANGED <<executorVars, chain_state, block, todo, history>>

PutTip ==
    /\ pc = "put_tip"
    /\ db' = [db EXCEPT !.tip = {block}]
    /\ pc' = IF block = Genesis THEN "idle" ELSE "flush"
    /\ UNCHANGED <<executorVars, chain_state, block, todo, history>>

(* flush_state: the new state, its pending transactions not yet cleared.   *)
FlushState ==
    /\ pc = "flush"
    /\ db' = [db EXCEPT !.state = new_chain_state]
    /\ pc' = "swap"
    /\ UNCHANGED <<executorVars, chain_state, block, todo, history>>

(* A put that fails ends the attempt where it is.                          *)
PutFails ==
    /\ pc \in {"put_block", "put_height", "put_tip", "flush"}
    /\ pc' = "idle"
    /\ UNCHANGED <<executorVars, chain_state, block, todo, db, history>>

(* Variant of Swap: the pending transactions are kept.                     *)
SwapKeepPending ==
    /\ pc = "swap"
    /\ chain_state' = new_chain_state
    /\ pc' = "idle"
    /\ UNCHANGED <<executorVars, block, todo, db, history>>

(* The new state replaces the old one and its transactions are dropped.    *)
Swap ==
    /\ pc = "swap"
    /\ chain_state' = [new_chain_state EXCEPT !.pending = {}]
    /\ pc' = "idle"
    /\ UNCHANGED <<executorVars, block, todo, db, history>>

-----------------------------------------------------------------------------
(* Variant of Restart: the flushed state cannot be read, and the default   *)
(* takes its place (the unwrap_or_default of ChainInterfaceImpl::new).     *)
RestartFromDefault ==
    /\ restarts < MaxRestarts
    /\ chain_state' = EmptyState
    /\ stack' = <<>> /\ allowance_list' = NoAllowance /\ ip' = 0
    /\ todo' = {} /\ pc' = "idle"
    /\ restarts' = restarts + 1
    /\ UNCHANGED <<new_chain_state, tx, block, db, seen, attempts>>

(* A crash at any point, and the restart from the database. *)
Restart ==
    /\ restarts < MaxRestarts
    /\ chain_state' = db.state
    /\ stack' = <<>> /\ allowance_list' = NoAllowance /\ ip' = 0
    /\ todo' = {} /\ pc' = "idle"
    /\ restarts' = restarts + 1
    /\ UNCHANGED <<new_chain_state, tx, block, db, seen, attempts>>

Init ==
    /\ stack = <<>> /\ allowance_list = NoAllowance
    /\ new_chain_state = EmptyState
    /\ tx = (CHOOSE t \in Txs : TRUE) /\ ip = 0
    /\ chain_state = EmptyState
    /\ block = Genesis /\ todo = {} /\ pc = "idle"
    /\ db = [state |-> EmptyState, blocks |-> {}, by_height |-> {}, tip |-> {},
             intents |-> {}]
    /\ seen = {} /\ attempts = 0 /\ restarts = 0

Next ==
    \/ \E t \in Txs : \/ InsertDepositIntent(t)
                      \/ ConfirmDeposit(t)
                      \/ AddTransactionToBlock(t)
    \/ FinalizeBlock \/ ExecuteTransaction \/ ExecuteStep \/ ExecuteError \/ Executed
    \/ CreateGenesisBlock \/ PutBlock \/ PutHeight \/ PutTip \/ FlushState \/ PutFails
    \/ Swap \/ Restart

Spec == Init /\ [][Next]_vars

-----------------------------------------------------------------------------
(* Properties *)

(* Every variable has the type its Rust field has.                         *)
TypeOK ==
    /\ stack \in Seq(Users \cup Nat \cup Txs)
    /\ allowance_list \in [Users -> Nat]
    /\ new_chain_state \in ChainState /\ chain_state \in ChainState
    /\ tx \in Txs /\ ip \in 0..7 /\ block \in Block /\ todo \subseteq Txs
    /\ pc \in {"idle", "execute", "put_block", "put_height", "put_tip", "flush", "swap"}
    /\ db \in [state : ChainState, blocks : SUBSET Block, by_height : SUBSET Block,
               tip : SUBSET Block, intents : SUBSET Txs]
    /\ seen \subseteq Txs /\ attempts \in Nat /\ restarts \in Nat

StoredAt(h) == {b \in db.by_height : b.height = h}

(* The flushed state is the outcome of exactly the blocks stored for its   *)
(* heights: each height up to its own has one block, and a transaction has *)
(* been executed into its balances once for every such block it is in,     *)
(* whatever crashed, failed or was stored and then stored again.           *)
LedgerMatchesBlocks ==
    /\ \A h \in 1..db.state.height : Cardinality(StoredAt(h)) = 1
    /\ \A t \in Txs : db.state.applied[t] =
         Cardinality({b \in db.by_height : b.height \in 1..db.state.height /\ t \in b.txs})

(* Whatever the height index or the tip refers to is stored: a crash or a  *)
(* failed put between the three writes of a block leaves no dangling hash. *)
IndexResolves == db.by_height \cup db.tip \subseteq db.blocks

(* The balances a client can read are the balances a restart would load;   *)
(* only between the flush and the assignment that follows it is the        *)
(* database one block ahead.                                               *)
BalancesDurable ==
    LET current == IF pc = "swap" THEN new_chain_state ELSE chain_state
    IN  /\ db.state.accounts = current.accounts
        /\ db.state.height = current.height
        /\ db.state.applied = current.applied

(* No allowance outlives its transaction: what the oracle confirmed for    *)
(* one deposit is never left over for another, not even after an error.    *)
AllowanceSpent == ip = 0 => allowance_list = NoAllowance

(* A transaction is executed at most once per life of the process.  (More  *)
(* than once it can be, as the flushed state still lists it as pending.)   *)
AppliedOncePerLife == \A t \in Txs : chain_state.applied[t] <= 1 + restarts

(* A transaction is executed at most once.                                 *)
AppliedOnce == \A t \in Txs : chain_state.applied[t] <= 1

(* Until the first restart a deposit whose intent was created is in one    *)
(* place exactly: an open intent, a pending transaction, or the balances.  *)
DepositInOnePlace ==
    restarts = 0 => \A t \in seen :
        (IF t \in chain_state.intents THEN 1 ELSE 0)
          + (IF t \in chain_state.pending THEN 1 ELSE 0) + chain_state.applied[t] = 1

(* The chain never goes back to an earlier height.                         *)
HeightNeverDecreases == [][chain_state'.height >= chain_state.height]_vars

(* A block of transactions, not the genesis block, is being finalized.     *)
Finalizing == pc # "idle" /\ block # Genesis

(* What the copy of the state holds during a finalization: the pending     *)
(* transactions executed so far, each once, and nothing else.              *)
WorkInv ==
    /\ ip # 0 => pc = "execute" /\ tx \notin todo
    /\ todo # {} => pc = "execute"
    /\ pc \in {"execute", "flush", "swap"} => block # Genesis
    /\ Finalizing =>
         /\ block.height = chain_state.height + 1 /\ block.txs = chain_state.pending
         /\ new_chain_state.height = block.height
         /\ new_chain_state.pending = chain_state.pending
         /\ new_chain_state.intents = chain_state.intents
         /\ todo \subseteq block.txs
         /\ ip # 0 => tx \in block.txs
         /\ \A t \in Txs : new_chain_state.applied[t] = chain_state.applied[t] +
              IF t \in block.txs \ todo /\ (ip # 0 => t # tx) THEN 1 ELSE 0

(* The strengthening of LedgerMatchesBlocks.                               *)
StoreInv ==
    /\ IsFiniteSet(db.by_height)
    /\ pc \in {"put_height", "put_tip", "flush", "swap"} => block \in db.blocks
    /\ pc \in {"put_tip", "flush", "swap"} => StoredAt(block.height) = {block}

(* The strengthening of AppliedOncePerLife: a transaction that is pending, *)
(* or may still become so, has not been executed in this life.             *)
ReplayInv ==
    /\ \A s \in {chain_state, db.state} :
         /\ s.intents \cap s.pending = {} /\ s.intents \cup s.pending \subseteq seen
         /\ \A t \in Txs : s.applied[t] <= 1 + restarts
    /\ \A t \in Txs : (t \in seen => t \in chain_state.pending \cup chain_state.intents) =>
         chain_state.applied[t] <= restarts

(* The ledger of the flushed balances. *)
L == INSTANCE Ledger WITH balance <- db.state.accounts, height <- db.state.height,
                          applied <- db.state.applied

(* The transactions of the block that have been executed to their end. *)
Done == (block.txs \ todo) \ (IF ip # 0 THEN {tx} ELSE {})

(* The strengthening of LedgerSpec: the balances of the copy differ from   *)
(* the current ones by what the executed transactions move.                *)
CopyInv ==
    /\ IsFiniteSet(seen)
    /\ Finalizing => \A u \in Users : new_chain_state.accounts[u] =
         chain_state.accounts[u] + L!Moved(Done, "Deposit", u) - L!Moved(Done, "Withdrawal", u)

(* The inductive invariant of the chain actor.                             *)
ChainInv ==
    /\ TypeOK /\ ExecutorInv /\ WorkInv /\ StoreInv /\ ReplayInv /\ CopyInv
    /\ DepositInOnePlace /\ BalancesDurable /\ IndexResolves /\ LedgerMatchesBlocks

(* The flushed balances change as Ledger says: by whole blocks only.       *)
LedgerSpec == L!Spec

=============================================================================
