---------------------------- MODULE ChainProofs -----------------------------
(***************************************************************************)
(* Proofs about the chain actor, for all users, transactions and amounts.  *)
(***************************************************************************)
EXTENDS Chain, Sums

-----------------------------------------------------------------------------
(* The executor *)

Value == Users \cup Nat \cup Txs

LEMMA Programs ==
  ASSUME NEW t \in Txs
  PROVE  /\ TxType[t] = "Deposit" =>
              /\ Len(operations(t)) = 7
              /\ \A i \in {1, 2, 3, 5, 6} : operations(t)[i].op = "OpPush"
              /\ operations(t)[1].value = Amount[t] /\ operations(t)[5].value = Amount[t]
              /\ operations(t)[2].value = Owner[t] /\ operations(t)[6].value = Owner[t]
              /\ operations(t)[3].value = t
              /\ operations(t)[4].op = "OpCheckOracle"
              /\ operations(t)[7].op = "OpIncrementBalance"
         /\ TxType[t] = "Withdrawal" =>
              /\ Len(operations(t)) = 3
              /\ operations(t)[1].op = "OpPush" /\ operations(t)[1].value = Amount[t]
              /\ operations(t)[2].op = "OpPush" /\ operations(t)[2].value = Owner[t]
              /\ operations(t)[3].op = "OpDecrementBalance"
         /\ TxType[t] \in {"Deposit", "Withdrawal"}
         /\ Amount[t] \in Nat /\ Owner[t] \in Users
  BY TxAssumption
     DEF operations, create_deposit_transaction, create_withdrawal_transaction, Push, Op

(* Where each operation stands, and what it finds on the stack. *)
LEMMA Places ==
  ASSUME TypeOK, ExecutorInv
  PROVE  /\ At("OpCheckOracle") =>
              /\ ip = 4 /\ TxType[tx] = "Deposit" /\ Len(stack) >= 3
              /\ Arg(2) = Amount[tx] /\ Arg(1) = Owner[tx] /\ Arg(0) = tx
         /\ At("OpIncrementBalance") =>
              /\ ip = 7 /\ TxType[tx] = "Deposit" /\ Len(stack) >= 2
              /\ Arg(1) = Amount[tx] /\ Arg(0) = Owner[tx]
         /\ At("OpDecrementBalance") =>
              /\ ip = 3 /\ TxType[tx] = "Withdrawal" /\ Len(stack) >= 2
              /\ Arg(1) = Amount[tx] /\ Arg(0) = Owner[tx]
         /\ At("OpPush") =>
              \/ TxType[tx] = "Deposit" /\ ip \in {1, 2, 3, 5, 6}
              \/ TxType[tx] = "Withdrawal" /\ ip \in {1, 2}
<1>1. tx \in Txs /\ ip \in 0..Len(operations(tx))
  BY DEF TypeOK, ExecutorInv
<1>2. CASE TxType[tx] = "Deposit"
  <2>1. ip \in 0..7
    BY <1>1, <1>2, Programs
  <2> QED BY <1>1, <1>2, <2>1, Programs DEF At, ExecutorInv
<1>3. CASE TxType[tx] = "Withdrawal"
  <2>1. ip \in 0..3
    BY <1>1, <1>3, Programs
  <2> QED BY <1>1, <1>3, <2>1, Programs DEF At, ExecutorInv
<1> QED BY <1>1, <1>2, <1>3, Programs

LEMMA OwnArguments ==
  ASSUME TypeOK, ExecutorInv
  PROVE  ArgumentsAreOwn
  BY Places DEF ArgumentsAreOwn

LEMMA PushedStack ==
  ASSUME NEW s \in Seq(Value), NEW v \in Value
  PROVE  /\ Append(s, v) \in Seq(Value)
         /\ Len(Append(s, v)) = Len(s) + 1
         /\ Append(s, v)[Len(s) + 1] = v
         /\ \A i \in 1..Len(s) : Append(s, v)[i] = s[i]
  OBVIOUS

LEMMA PoppedStack ==
  ASSUME TypeOK, NEW k \in Nat, k <= Len(stack), NEW v \in Value
  PROVE  Popped(k) \in Seq(Value) /\ Append(Popped(k), v) \in Seq(Value)
<1>1. stack \in Seq(Value)
  BY DEF TypeOK, Value
<1>2. SubSeq(stack, 1, Len(stack) - k) \in Seq(Value)
  BY <1>1
<1> QED BY <1>2 DEF Popped

(* Between transactions nothing is asked of the stack. *)
LEMMA IdleExecutor ==
  ASSUME tx' \in Txs, ip' = 0, allowance_list' = NoAllowance
  PROVE  ExecutorInv'
<1>1. Len(operations(tx')) \in Nat
  BY Programs
<1> QED BY <1>1 DEF ExecutorInv, NoAllowance, operations,
        create_deposit_transaction, create_withdrawal_transaction

(* What an operation does: a push or an oracle check leaves the new state  *)
(* alone and moves on; a balance operation counts the transaction and is   *)
(* its last.                                                               *)
LEMMA OpEffect ==
  ASSUME TypeOK, ExecutorInv, ExecuteOp
  PROVE  /\ tx' = tx /\ ip # 0
         /\ stack' \in Seq(Value)
         /\ allowance_list' \in [Users -> Nat]
         /\ new_chain_state' \in ChainState
         /\ new_chain_state'.pending = new_chain_state.pending
         /\ new_chain_state'.intents = new_chain_state.intents
         /\ new_chain_state'.height = new_chain_state.height
         /\ \/ new_chain_state' = new_chain_state /\ ip' = ip + 1
            \/ /\ new_chain_state'.applied = [new_chain_state.applied EXCEPT ![tx] = @ + 1]
               /\ ip' = 0
               /\ \/ /\ TxType[tx] = "Deposit"
                     /\ new_chain_state'.accounts =
                          [new_chain_state.accounts EXCEPT ![Owner[tx]] = @ + Amount[tx]]
                  \/ /\ TxType[tx] = "Withdrawal"
                     /\ new_chain_state'.accounts =
                          [new_chain_state.accounts EXCEPT ![Owner[tx]] = @ - Amount[tx]]
         /\ ExecutorInv'
<1>0. /\ tx \in Txs /\ stack \in Seq(Value) /\ allowance_list \in [Users -> Nat]
      /\ new_chain_state \in ChainState
      /\ Amount[tx] \in Nat /\ Owner[tx] \in Users
  BY Programs DEF TypeOK, Value
<1>1. CASE OpPush
  <2> DEFINE v == operations(tx)[ip].value
  <2>1. /\ At("OpPush") /\ stack' = Append(stack, v) /\ Advance
        /\ UNCHANGED <<allowance_list, new_chain_state, tx>>
    BY <1>1 DEF OpPush
  <2>2. v \in Value /\ ip' = ip + 1 /\ ip \in {1, 2, 3, 5, 6}
        /\ (ip \in {1, 5} => v = Amount[tx]) /\ (ip \in {2, 6} => v = Owner[tx])
        /\ (ip = 3 => v = tx /\ TxType[tx] = "Deposit")
    <3>1. \/ TxType[tx] = "Deposit" /\ ip \in {1, 2, 3, 5, 6}
          \/ TxType[tx] = "Withdrawal" /\ ip \in {1, 2}
      BY <2>1, Places
    <3>2. ip' = ip + 1
      <4>1. Len(operations(tx)) # ip
        BY <1>0, <3>1, Programs
      <4> QED BY <4>1, <2>1 DEF Advance
    <3>3. /\ ip \in {1, 5} => v = Amount[tx]
          /\ ip \in {2, 6} => v = Owner[tx]
          /\ ip = 3 => v = tx /\ TxType[tx] = "Deposit"
      BY <1>0, <3>1, Programs
    <3>4. v \in Value
      <4> HIDE DEF v
      <4> QED BY <1>0, <3>1, <3>3 DEF Value
    <3> HIDE DEF v
    <3> QED BY <3>1, <3>2, <3>3, <3>4
  <2> HIDE DEF v
  <2>3. /\ stack' \in Seq(Value)
        /\ Len(stack') = Len(stack) + 1
        /\ stack'[Len(stack) + 1] = v
        /\ \A i \in 1..Len(stack) : stack'[i] = stack[i]
    BY <1>0, <2>1, <2>2, PushedStack
  <2>4. ip' \in 0..Len(operations(tx))
    BY <1>0, <2>1, <2>2, Places, Programs
  <2>5. /\ ip' \in {2, 6} => Len(stack') >= 1 /\ Arg(0)' = Amount[tx]
        /\ ip' \in {3, 7} => Len(stack') >= 2 /\ Arg(1)' = Amount[tx] /\ Arg(0)' = Owner[tx]
        /\ ip' = 4 => /\ Len(stack') >= 3 /\ Arg(2)' = Amount[tx]
                      /\ Arg(1)' = Owner[tx] /\ Arg(0)' = tx
    <3>1. Len(stack) \in Nat
      BY <1>0
    <3>2. /\ Arg(0)' = v
          /\ Len(stack) >= 1 => Arg(1)' = Arg(0)
          /\ Len(stack) >= 2 => Arg(2)' = Arg(1)
      BY <2>3, <3>1 DEF Arg
    <3>3. CASE ip \in {1, 5}
      BY <2>2, <2>3, <3>1, <3>2, <3>3
    <3>4. CASE ip \in {2, 6}
      <4>1. Len(stack) >= 1 /\ Arg(0) = Amount[tx]
        BY <3>4 DEF ExecutorInv
      <4> QED BY <4>1, <2>2, <2>3, <3>1, <3>2, <3>4
    <3>5. CASE ip = 3
      <4>1. Len(stack) >= 2 /\ Arg(1) = Amount[tx] /\ Arg(0) = Owner[tx]
        BY <3>5 DEF ExecutorInv
      <4> QED BY <4>1, <2>2, <2>3, <3>1, <3>2, <3>5
    <3> QED BY <2>2, <3>3, <3>4, <3>5
  <2>6. \/ allowance_list = NoAllowance
        \/ /\ TxType[tx] = "Deposit" /\ ip' \in 5..7
           /\ allowance_list = [NoAllowance EXCEPT ![Owner[tx]] = Amount[tx]]
    BY <2>2 DEF ExecutorInv
  <2>7. ExecutorInv'
    BY <2>1, <2>4, <2>5, <2>6 DEF ExecutorInv, NoAllowance, operations,
       create_deposit_transaction, create_withdrawal_transaction
  <2> QED BY <1>0, <2>1, <2>2, <2>3, <2>7 DEF At
<1>2. ASSUME NEW verified \in BOOLEAN, op_check_oracle(verified)
      PROVE  /\ tx' = tx /\ ip # 0 /\ new_chain_state' = new_chain_state /\ ip' = ip + 1
             /\ stack' \in Seq(Value) /\ allowance_list' \in [Users -> Nat]
             /\ ExecutorInv'
  <2>1. /\ ip = 4 /\ TxType[tx] = "Deposit" /\ Len(stack) >= 3
        /\ Arg(2) = Amount[tx] /\ Arg(1) = Owner[tx]
        /\ UNCHANGED <<new_chain_state, tx>> /\ Advance
        /\ stack' = Append(Popped(3), IF verified THEN 1 ELSE 0)
        /\ allowance_list' = IF verified THEN [allowance_list EXCEPT ![Owner[tx]] = @ + Amount[tx]]
                                         ELSE allowance_list
    BY <1>2, Places DEF op_check_oracle
  <2>2. ip' = 5 /\ ip' \in 0..Len(operations(tx))
    <3>1. Len(operations(tx)) = 7
      BY <1>0, <2>1, Programs
    <3> QED BY <2>1, <3>1 DEF Advance
  <2>3. stack' \in Seq(Value)
    BY <2>1, PoppedStack DEF Value
  <2>4. allowance_list = NoAllowance
    BY <2>1 DEF ExecutorInv
  <2>5. /\ allowance_list' \in [Users -> Nat]
        /\ \/ allowance_list' = NoAllowance
           \/ allowance_list' = [NoAllowance EXCEPT ![Owner[tx]] = Amount[tx]]
    <3>1. CASE verified
      <4>1. allowance_list' = [NoAllowance EXCEPT ![Owner[tx]] = @ + Amount[tx]]
        BY <2>1, <2>4, <3>1
      <4>2. NoAllowance[Owner[tx]] + Amount[tx] = Amount[tx]
        BY <1>0 DEF NoAllowance
      <4>3. allowance_list' = [NoAllowance EXCEPT ![Owner[tx]] = Amount[tx]]
        BY <4>1, <4>2
      <4> QED BY <1>0, <4>3 DEF NoAllowance
    <3>2. CASE ~verified
      BY <1>0, <2>1, <2>4, <3>2
    <3> QED BY <3>1, <3>2
  <2>6. ExecutorInv'
    BY <2>1, <2>2, <2>5 DEF ExecutorInv, NoAllowance, operations,
       create_deposit_transaction, create_withdrawal_transaction
  <2> QED BY <2>1, <2>2, <2>3, <2>5, <2>6
<1>3. CASE op_increment_balance
  <2>1. /\ ip = 7 /\ TxType[tx] = "Deposit" /\ Len(stack) >= 2
        /\ Arg(1) = Amount[tx] /\ Arg(0) = Owner[tx]
        /\ UNCHANGED tx /\ Advance
        /\ stack' = Append(Popped(2), 1)
        /\ allowance_list[Owner[tx]] >= Amount[tx]
        /\ allowance_list' = [allowance_list EXCEPT ![Owner[tx]] = @ - Amount[tx]]
        /\ new_chain_state' = [new_chain_state EXCEPT !.accounts[Owner[tx]] = @ + Amount[tx],
                                                      !.applied[tx] = @ + 1]
    BY <1>3, Places DEF op_increment_balance
  <2>2. ip' = 0
    BY <1>0, <2>1, Programs DEF Advance
  <2>3. stack' \in Seq(Value)
    BY <2>1, PoppedStack DEF Value
  <2>4. allowance_list' \in [Users -> Nat]
    BY <1>0, <2>1
  <2>5. allowance_list' = NoAllowance
    <3>1. allowance_list[Owner[tx]] = Amount[tx]
          /\ \A u \in Users \ {Owner[tx]} : allowance_list[u] = 0
      <4>1. CASE allowance_list = NoAllowance
        BY <1>0, <2>1, <4>1 DEF NoAllowance
      <4>2. CASE allowance_list = [NoAllowance EXCEPT ![Owner[tx]] = Amount[tx]]
        BY <1>0, <4>2 DEF NoAllowance
      <4> QED BY <4>1, <4>2 DEF ExecutorInv
    <3>2. \A u \in Users : allowance_list'[u] = 0
      BY <1>0, <2>1, <3>1
    <3> QED BY <2>4, <3>2 DEF NoAllowance
  <2>6. ExecutorInv'
    BY <1>0, <2>1, <2>2, <2>5, IdleExecutor
  <2>7. /\ new_chain_state' \in ChainState
        /\ new_chain_state'.pending = new_chain_state.pending
        /\ new_chain_state'.intents = new_chain_state.intents
        /\ new_chain_state'.height = new_chain_state.height
        /\ new_chain_state'.applied = [new_chain_state.applied EXCEPT ![tx] = @ + 1]
        /\ new_chain_state'.accounts =
             [new_chain_state.accounts EXCEPT ![Owner[tx]] = @ + Amount[tx]]
    <3> DEFINE a == [new_chain_state.accounts EXCEPT ![Owner[tx]] = @ + Amount[tx]]
               p == [new_chain_state.applied EXCEPT ![tx] = @ + 1]
    <3>1. new_chain_state.accounts \in [Users -> Nat] /\ new_chain_state.applied \in [Txs -> Nat]
      BY <1>0 DEF ChainState
    <3>2. a \in [Users -> Nat] /\ p \in [Txs -> Nat]
      BY <1>0, <3>1
    <3>3. new_chain_state' = [new_chain_state EXCEPT !.accounts = a, !.applied = p]
      BY <2>1
    <3> HIDE DEF a, p
    <3>4. /\ new_chain_state' \in ChainState /\ new_chain_state'.applied = p
          /\ new_chain_state'.accounts = a
          /\ new_chain_state'.pending = new_chain_state.pending
          /\ new_chain_state'.intents = new_chain_state.intents
          /\ new_chain_state'.height = new_chain_state.height
      BY <1>0, <3>2, <3>3 DEF ChainState
    <3> QED BY <3>4 DEF a, p
  <2> QED BY <2>1, <2>2, <2>3, <2>4, <2>6, <2>7
<1>4. CASE op_decrement_balance
  <2>1. /\ ip = 3 /\ TxType[tx] = "Withdrawal" /\ Len(stack) >= 2
        /\ Arg(1) = Amount[tx] /\ Arg(0) = Owner[tx]
        /\ UNCHANGED <<allowance_list, tx>> /\ Advance
        /\ stack' = Append(Popped(2), 1)
        /\ new_chain_state.accounts[Owner[tx]] >= Amount[tx]
        /\ new_chain_state' = [new_chain_state EXCEPT !.accounts[Owner[tx]] = @ - Amount[tx],
                                                      !.applied[tx] = @ + 1]
    BY <1>4, Places DEF op_decrement_balance
  <2>2. ip' = 0
    BY <1>0, <2>1, Programs DEF Advance
  <2>3. stack' \in Seq(Value)
    BY <2>1, PoppedStack DEF Value
  <2>5. allowance_list' = NoAllowance
    BY <2>1 DEF ExecutorInv
  <2>6. ExecutorInv'
    BY <1>0, <2>1, <2>2, <2>5, IdleExecutor
  <2>7. /\ new_chain_state' \in ChainState
        /\ new_chain_state'.pending = new_chain_state.pending
        /\ new_chain_state'.intents = new_chain_state.intents
        /\ new_chain_state'.height = new_chain_state.height
        /\ new_chain_state'.applied = [new_chain_state.applied EXCEPT ![tx] = @ + 1]
        /\ new_chain_state'.accounts =
             [new_chain_state.accounts EXCEPT ![Owner[tx]] = @ - Amount[tx]]
    <3> DEFINE a == [new_chain_state.accounts EXCEPT ![Owner[tx]] = @ - Amount[tx]]
               p == [new_chain_state.applied EXCEPT ![tx] = @ + 1]
    <3>1. new_chain_state.accounts \in [Users -> Nat] /\ new_chain_state.applied \in [Txs -> Nat]
      BY <1>0 DEF ChainState
    <3>2. a \in [Users -> Nat] /\ p \in [Txs -> Nat]
      BY <1>0, <2>1, <3>1
    <3>3. new_chain_state' = [new_chain_state EXCEPT !.accounts = a, !.applied = p]
      BY <2>1
    <3> HIDE DEF a, p
    <3>4. /\ new_chain_state' \in ChainState /\ new_chain_state'.applied = p
          /\ new_chain_state'.accounts = a
          /\ new_chain_state'.pending = new_chain_state.pending
          /\ new_chain_state'.intents = new_chain_state.intents
          /\ new_chain_state'.height = new_chain_state.height
      BY <1>0, <3>2, <3>3 DEF ChainState
    <3> QED BY <3>4 DEF a, p
  <2> QED BY <1>0, <2>1, <2>2, <2>3, <2>6, <2>7
<1> QED BY <1>0, <1>1, <1>2, <1>3, <1>4 DEF ExecuteOp

LEMMA FailEffect ==
  ASSUME TypeOK, ExecutorInv, OpFails
  PROVE  /\ stack' \in Seq(Value) /\ ip' = 0
         /\ UNCHANGED <<allowance_list, new_chain_state, tx>>
         /\ allowance_list = NoAllowance
         /\ ExecutorInv'
<1>0. tx \in Txs /\ Amount[tx] \in Nat /\ Owner[tx] \in Users
  BY Programs DEF TypeOK
<1>1. /\ ip' = 0 /\ UNCHANGED <<allowance_list, new_chain_state, tx>>
  BY DEF OpFails
<1>2. stack' \in Seq(Value)
  <2>1. /\ (stack' = Popped(3) /\ Len(stack) >= 3) \/ (stack' = Popped(2) /\ Len(stack) >= 2)
    BY Places DEF OpFails
  <2> QED BY <2>1, PoppedStack DEF Value
<1>3. allowance_list = NoAllowance
  <2>1. CASE At("OpIncrementBalance")
    <3>1. allowance_list[Owner[tx]] < Amount[tx]
      BY <2>1, Places DEF OpFails, At
    <3> QED BY <1>0, <3>1 DEF ExecutorInv, NoAllowance
  <2>2. CASE At("OpCheckOracle") \/ At("OpDecrementBalance")
    BY <2>2, Places DEF ExecutorInv
  <2> QED BY <2>1, <2>2 DEF OpFails
<1>4. ExecutorInv'
  BY <1>0, <1>1, <1>3, IdleExecutor
<1> QED BY <1>1, <1>2, <1>3, <1>4

LEMMA SameExecutor ==
  ASSUME ExecutorInv, UNCHANGED <<stack, allowance_list, tx, ip>>
  PROVE  ExecutorInv'
  BY DEF ExecutorInv, NoAllowance, Arg, operations, create_deposit_transaction,
         create_withdrawal_transaction

-----------------------------------------------------------------------------
(* Types *)

(* The fields of the database and of the states. *)
LEMMA Fields ==
  ASSUME TypeOK
  PROVE  /\ \A s \in {chain_state, new_chain_state, db.state} :
              /\ s \in ChainState
              /\ s.accounts \in [Users -> Nat] /\ s.applied \in [Txs -> Nat]
              /\ s.intents \subseteq Txs /\ s.pending \subseteq Txs /\ s.height \in Nat
         /\ db.blocks \subseteq Block /\ db.by_height \subseteq Block
         /\ db.tip \subseteq Block /\ db.intents \subseteq Txs
         /\ block \in Block /\ block.height \in Nat /\ block.txs \subseteq Txs
         /\ Genesis \in Block
  BY DEF TypeOK, ChainState, Block, Genesis

LEMMA TypeStep ==
  ASSUME TypeOK, ExecutorInv, [Next]_vars
  PROVE  TypeOK' /\ ExecutorInv'
<1> USE DEF executorVars, actorVars, history
<1>1. ASSUME NEW t \in Txs, InsertDepositIntent(t)
      PROVE  TypeOK' /\ ExecutorInv'
  BY <1>1, SameExecutor DEF InsertDepositIntent, TypeOK, ChainState
<1>2. ASSUME NEW t \in Txs, ConfirmDeposit(t)
      PROVE  TypeOK' /\ ExecutorInv'
  BY <1>2, SameExecutor DEF ConfirmDeposit, TypeOK, ChainState
<1>3. ASSUME NEW t \in Txs, AddTransactionToBlock(t)
      PROVE  TypeOK' /\ ExecutorInv'
  BY <1>3, SameExecutor DEF AddTransactionToBlock, TypeOK, ChainState
<1>4. CASE FinalizeBlock
  <2>1. /\ chain_state \in ChainState /\ chain_state.height + 1 \in Nat
        /\ chain_state.pending \subseteq Txs
    BY Fields DEF TypeOK
  <2>2. new_chain_state' \in ChainState /\ block' \in Block /\ todo' \subseteq Txs
    BY <1>4, <2>1 DEF FinalizeBlock, ChainState, Block
  <2> QED BY <1>4, <2>2, SameExecutor DEF FinalizeBlock, TypeOK
<1>5. CASE ExecuteTransaction
  <2>1. /\ tx' \in Txs /\ todo' \subseteq Txs /\ ip' = 1
        /\ UNCHANGED <<stack, allowance_list, new_chain_state, chain_state, block, pc, db, history>>
    BY <1>5 DEF ExecuteTransaction, TypeOK
  <2>2. allowance_list' = NoAllowance
    BY <1>5, <2>1 DEF ExecuteTransaction, ExecutorInv
  <2>3. Len(operations(tx')) \in Nat /\ Len(operations(tx')) >= 1
    BY <2>1, Programs
  <2>4. ExecutorInv'
    BY <2>1, <2>2, <2>3 DEF ExecutorInv, NoAllowance, operations,
       create_deposit_transaction, create_withdrawal_transaction
  <2> QED BY <2>1, <2>4 DEF TypeOK
<1>6. CASE ExecuteStep
  <2>1. /\ tx' = tx /\ stack' \in Seq(Value) /\ allowance_list' \in [Users -> Nat]
        /\ new_chain_state' \in ChainState /\ ExecutorInv'
        /\ UNCHANGED <<actorVars, db, history>>
    BY <1>6, OpEffect DEF ExecuteStep
  <2>2. ip' \in 0..7
    <3>1. ip' \in 0..Len(operations(tx'))
      BY <2>1 DEF ExecutorInv, operations, create_deposit_transaction,
                  create_withdrawal_transaction
    <3>2. Len(operations(tx')) = 3 \/ Len(operations(tx')) = 7
      BY <2>1, Programs DEF TypeOK
    <3>3. ASSUME NEW n, n = 3 \/ n = 7, ip' \in 0..n
          PROVE  ip' \in 0..7
      BY <3>3
    <3> QED BY <3>1, <3>2, <3>3
  <2> QED BY <2>1, <2>2 DEF TypeOK, Value
<1>7. CASE ExecuteError
  <2>1. /\ stack' \in Seq(Value) /\ ip' = 0 /\ ExecutorInv' /\ todo' = {} /\ pc' = "idle"
        /\ UNCHANGED <<allowance_list, new_chain_state, tx, chain_state, block, db, history>>
    BY <1>7, FailEffect DEF ExecuteError
  <2> QED BY <2>1 DEF TypeOK, Value
<1>8. CASE Executed
  BY <1>8, SameExecutor DEF Executed, TypeOK
<1>9. CASE CreateGenesisBlock
  BY <1>9, SameExecutor DEF CreateGenesisBlock, TypeOK, Genesis, Block
<1>10. CASE PutBlock
  BY <1>10, SameExecutor DEF PutBlock, TypeOK
<1>11. CASE PutHeight
  BY <1>11, SameExecutor DEF PutHeight, TypeOK
<1>12. CASE PutTip
  BY <1>12, SameExecutor DEF PutTip, TypeOK
<1>13. CASE FlushState
  BY <1>13, SameExecutor DEF FlushState, TypeOK
<1>14. CASE PutFails
  BY <1>14, SameExecutor DEF PutFails, TypeOK
<1>15. CASE Swap
  BY <1>15, SameExecutor DEF Swap, TypeOK, ChainState
<1>16. CASE Restart
  <2>1. /\ stack' = <<>> /\ allowance_list' = NoAllowance /\ ip' = 0 /\ tx' \in Txs
        /\ chain_state' \in ChainState
    BY <1>16 DEF Restart, TypeOK
  <2> QED BY <1>16, <2>1, IdleExecutor DEF Restart, TypeOK, NoAllowance
<1>17. CASE UNCHANGED vars
  BY <1>17, SameExecutor DEF vars, TypeOK
<1> QED BY <1>1, <1>2, <1>3, <1>4, <1>5, <1>6, <1>7, <1>8, <1>9, <1>10, <1>11, <1>12,
           <1>13, <1>14, <1>15, <1>16, <1>17 DEF Next

-----------------------------------------------------------------------------
(* The copy that is being executed *)

LEMMA WorkStep ==
  ASSUME TypeOK, ExecutorInv, WorkInv, [Next]_vars
  PROVE  WorkInv'
<1> USE DEF executorVars, actorVars, history
<1>0. TypeOK' /\ ExecutorInv'
  BY TypeStep
<1>1. ASSUME NEW t \in Txs,
             InsertDepositIntent(t) \/ ConfirmDeposit(t) \/ AddTransactionToBlock(t)
      PROVE  WorkInv'
  BY <1>1 DEF InsertDepositIntent, ConfirmDeposit, AddTransactionToBlock, WorkInv, Finalizing
<1>2. CASE FinalizeBlock
  <2>1. /\ block' = [height |-> chain_state.height + 1, txs |-> chain_state.pending]
        /\ new_chain_state' = [chain_state EXCEPT !.height = @ + 1]
        /\ todo' = chain_state.pending /\ pc' = "execute" /\ ip' = 0
        /\ UNCHANGED <<chain_state, tx>>
    BY <1>2 DEF FinalizeBlock, WorkInv
  <2>2. block' # Genesis
    BY <2>1, Fields DEF Genesis
  <2>3. /\ new_chain_state'.height = chain_state.height + 1
        /\ new_chain_state'.pending = chain_state.pending
        /\ new_chain_state'.intents = chain_state.intents
        /\ new_chain_state'.applied = chain_state.applied
    BY <2>1, Fields DEF ChainState
  <2>4. \A t \in Txs : new_chain_state'.applied[t] = chain_state.applied[t] + 0
    BY <2>3, Fields
  <2> QED BY <2>1, <2>2, <2>3, <2>4 DEF WorkInv, Genesis
<1>3. CASE ExecuteTransaction
  <2>1. PICK t \in todo : tx' = t /\ todo' = todo \ {t}
    BY <1>3 DEF ExecuteTransaction
  <2>2. /\ pc = "execute" /\ ip = 0 /\ ip' = 1
        /\ UNCHANGED <<new_chain_state, chain_state, block, pc>>
    BY <1>3 DEF ExecuteTransaction
  <2>3. block # Genesis /\ Finalizing
    BY <2>2 DEF WorkInv, Finalizing
  <2>4. \A u \in Txs : (u \in block.txs \ todo /\ (ip # 0 => u # tx))
                        <=> (u \in block'.txs \ todo' /\ (ip' # 0 => u # tx'))
    BY <2>1, <2>2
  <2> QED BY <2>1, <2>2, <2>3, <2>4 DEF WorkInv, Genesis
<1>4. CASE ExecuteStep
  <2>1. /\ pc = "execute" /\ block # Genesis /\ Finalizing
        /\ UNCHANGED <<chain_state, block, todo, pc, tx>> /\ ip # 0
        /\ new_chain_state'.pending = new_chain_state.pending
        /\ new_chain_state'.intents = new_chain_state.intents
        /\ new_chain_state'.height = new_chain_state.height
    BY <1>4, OpEffect DEF ExecuteStep, WorkInv, Finalizing
  <2>2. tx \in block.txs \ todo /\ tx \in Txs
    BY <2>1 DEF WorkInv, TypeOK
  <2>3. CASE new_chain_state' = new_chain_state /\ ip' = ip + 1
    <3>1. ip' # 0
      BY <2>1, <2>3 DEF TypeOK
    <3> QED BY <2>1, <2>3, <3>1 DEF WorkInv, Finalizing, Genesis
  <2>4. CASE /\ new_chain_state'.applied = [new_chain_state.applied EXCEPT ![tx] = @ + 1]
             /\ ip' = 0
    <3>1. \A t \in Txs : new_chain_state.applied[t] = chain_state.applied[t] +
              IF t \in block.txs \ todo /\ (ip # 0 => t # tx) THEN 1 ELSE 0
      BY <2>1 DEF WorkInv
    <3>2. \A t \in Txs : new_chain_state'.applied[t] = chain_state.applied[t] +
              IF t \in block.txs \ todo THEN 1 ELSE 0
      BY <2>1, <2>2, <2>4, <3>1, Fields
    <3> QED BY <2>1, <2>4, <3>2 DEF WorkInv, Finalizing, Genesis
  <2> QED BY <1>4, <2>3, <2>4, OpEffect DEF ExecuteStep
<1>5. CASE ExecuteError
  <2>1. todo' = {} /\ pc' = "idle" /\ ip' = 0
    BY <1>5, FailEffect DEF ExecuteError
  <2> QED BY <2>1 DEF WorkInv, Finalizing
<1>6. CASE Executed
  BY <1>6 DEF Executed, WorkInv, Finalizing, Genesis
<1>7. CASE CreateGenesisBlock
  BY <1>7 DEF CreateGenesisBlock, WorkInv, Finalizing, Genesis
<1>8. CASE PutBlock \/ PutHeight \/ PutTip \/ FlushState
  BY <1>8 DEF PutBlock, PutHeight, PutTip, FlushState, WorkInv, Finalizing, Genesis
<1>9. CASE PutFails \/ Swap \/ Restart
  BY <1>9 DEF PutFails, Swap, Restart, WorkInv, Finalizing, Genesis
<1>10. CASE UNCHANGED vars
  BY <1>10 DEF vars, WorkInv, Finalizing, Genesis
<1> QED BY <1>1, <1>2, <1>3, <1>4, <1>5, <1>6, <1>7, <1>8, <1>9, <1>10 DEF Next

(* The database and the memory agree on what clients can see. *)
LEMMA DurableStep ==
  ASSUME TypeOK, ExecutorInv, WorkInv, BalancesDurable, [Next]_vars
  PROVE  BalancesDurable'
<1> USE DEF executorVars, actorVars, history
<1>1. ASSUME NEW t \in Txs,
             InsertDepositIntent(t) \/ ConfirmDeposit(t) \/ AddTransactionToBlock(t)
      PROVE  BalancesDurable'
  BY <1>1, Fields DEF InsertDepositIntent, ConfirmDeposit, AddTransactionToBlock,
     BalancesDurable, ChainState, TypeOK
<1>2. CASE FinalizeBlock \/ ExecuteTransaction \/ ExecuteStep \/ ExecuteError
           \/ Executed \/ CreateGenesisBlock \/ PutFails
  <2>1. UNCHANGED <<chain_state, db>> /\ pc # "swap" /\ pc' # "swap"
    BY <1>2 DEF FinalizeBlock, ExecuteTransaction, ExecuteStep, ExecuteError, Executed,
                CreateGenesisBlock, PutFails
  <2> QED BY <2>1 DEF BalancesDurable
<1>3. CASE PutBlock \/ PutHeight \/ PutTip
  <2>1. UNCHANGED chain_state /\ pc # "swap" /\ pc' # "swap" /\ db'.state = db.state
    BY <1>3 DEF PutBlock, PutHeight, PutTip, TypeOK
  <2> QED BY <2>1 DEF BalancesDurable
<1>4. CASE FlushState
  BY <1>4 DEF FlushState, TypeOK, BalancesDurable
<1>5. CASE Swap
  BY <1>5, Fields DEF Swap, BalancesDurable, ChainState
<1>6. CASE Restart
  BY <1>6 DEF Restart, BalancesDurable
<1>7. CASE UNCHANGED vars
  BY <1>7 DEF vars, BalancesDurable
<1> QED BY <1>1, <1>2, <1>3, <1>4, <1>5, <1>6, <1>7 DEF Next

-----------------------------------------------------------------------------
(* The block store *)

LEMMA IndexStep ==
  ASSUME TypeOK, StoreInv, IndexResolves, [Next]_vars
  PROVE  IndexResolves'
<1> USE DEF executorVars, actorVars, history
<1>1. CASE PutBlock
  BY <1>1 DEF PutBlock, IndexResolves, TypeOK
<1>2. CASE PutHeight
  BY <1>2 DEF PutHeight, IndexResolves, TypeOK, StoreInv
<1>3. CASE PutTip
  BY <1>3 DEF PutTip, IndexResolves, TypeOK, StoreInv
<1>4. CASE FlushState
  BY <1>4 DEF FlushState, IndexResolves, TypeOK
<1>5. ASSUME NEW t \in Txs,
             InsertDepositIntent(t) \/ ConfirmDeposit(t) \/ AddTransactionToBlock(t)
      PROVE  IndexResolves'
  BY <1>5 DEF InsertDepositIntent, ConfirmDeposit, AddTransactionToBlock, IndexResolves, TypeOK
<1>6. CASE UNCHANGED db
  BY <1>6 DEF IndexResolves
<1> QED BY <1>1, <1>2, <1>3, <1>4, <1>5, <1>6
        DEF Next, FinalizeBlock, ExecuteTransaction, ExecuteStep, ExecuteError, Executed,
            CreateGenesisBlock, PutFails, Swap, Restart, vars

LEMMA StoreStep ==
  ASSUME TypeOK, WorkInv, StoreInv, [Next]_vars
  PROVE  StoreInv'
<1> USE DEF executorVars, actorVars, history
<1>1. CASE PutBlock
  BY <1>1 DEF PutBlock, StoreInv, TypeOK
<1>2. CASE PutHeight
  <2>1. /\ db'.by_height = {b \in db.by_height : b.height # block.height} \cup {block}
        /\ db'.blocks = db.blocks /\ UNCHANGED block
        /\ pc = "put_height" /\ pc' = "put_tip"
    BY <1>2 DEF PutHeight, TypeOK
  <2>2. IsFiniteSet(db'.by_height)
    BY <2>1, FS_Subset, FS_AddElement DEF StoreInv
  <2>3. StoredAt(block.height)' = {block}
    BY <2>1 DEF StoredAt
  <2> QED BY <2>1, <2>2, <2>3 DEF StoreInv
<1>3. CASE PutTip
  BY <1>3 DEF PutTip, StoreInv, StoredAt, TypeOK
<1>4. CASE FlushState
  BY <1>4 DEF FlushState, StoreInv, StoredAt, TypeOK
<1>5. ASSUME NEW t \in Txs,
             InsertDepositIntent(t) \/ ConfirmDeposit(t) \/ AddTransactionToBlock(t)
      PROVE  StoreInv'
  BY <1>5 DEF InsertDepositIntent, ConfirmDeposit, AddTransactionToBlock, StoreInv, TypeOK
<1>6. CASE UNCHANGED db /\ pc' \in {"idle", "execute", "put_block"}
  BY <1>6 DEF StoreInv
<1>7. CASE UNCHANGED vars
  BY <1>7 DEF StoreInv, StoredAt, vars
<1> QED BY <1>1, <1>2, <1>3, <1>4, <1>5, <1>6, <1>7
        DEF Next, FinalizeBlock, ExecuteTransaction, ExecuteStep, ExecuteError, Executed,
            CreateGenesisBlock, PutFails, Swap, Restart

(* The blocks of the heights up to h that hold t. *)
Holding(t, h) == {b \in db.by_height : b.height \in 1..h /\ t \in b.txs}

LEMMA LedgerStep ==
  ASSUME TypeOK, WorkInv, StoreInv, BalancesDurable, LedgerMatchesBlocks, [Next]_vars
  PROVE  LedgerMatchesBlocks'
<1> USE DEF executorVars, actorVars, history
<1> DEFINE H == db.state.height
<1>0. H \in Nat /\ block.height \in Nat
  BY Fields
<1>1. CASE PutHeight
  <2>1. /\ db'.by_height = {b \in db.by_height : b.height # block.height} \cup {block}
        /\ db'.state = db.state /\ pc = "put_height"
    BY <1>1 DEF PutHeight, TypeOK
  <2>2. block.height \notin 1..H
    <3>1. CASE block = Genesis
      BY <3>1 DEF Genesis
    <3>2. CASE block # Genesis
      <4>1. block.height = H + 1
        BY <2>1, <3>2 DEF WorkInv, Finalizing, BalancesDurable
      <4> QED BY <4>1, <1>0
    <3> QED BY <3>1, <3>2
  <2>3. \A h \in 1..H : StoredAt(h)' = StoredAt(h)
    BY <2>1, <2>2 DEF StoredAt
  <2>4. \A t \in Txs : Holding(t, H)' = Holding(t, H)
    BY <2>1, <2>2 DEF Holding
  <2> QED BY <2>1, <2>3, <2>4 DEF LedgerMatchesBlocks, Holding
<1>2. CASE FlushState
  <2>1. /\ db'.by_height = db.by_height /\ db'.state = new_chain_state
        /\ pc = "flush"
    BY <1>2 DEF FlushState, TypeOK
  <2>2. /\ Finalizing /\ block.height = H + 1 /\ new_chain_state.height = H + 1
        /\ StoredAt(H + 1) = {block}
    BY <2>1 DEF WorkInv, StoreInv, BalancesDurable, Finalizing
  <2>3. block \in db.by_height /\ \A b \in db.by_height : b.height = H + 1 => b = block
    BY <2>2 DEF StoredAt
  <2>4. \A h \in 1..(H + 1) : Cardinality(StoredAt(h)') = 1
    <3>1. \A h \in 1..(H + 1) : StoredAt(h)' = StoredAt(h)
      BY <2>1 DEF StoredAt
    <3>2. Cardinality(StoredAt(H + 1)) = 1
      BY <2>2, FS_Singleton
    <3> QED BY <1>0, <3>1, <3>2 DEF LedgerMatchesBlocks
  <2>5. ASSUME NEW t \in Txs
        PROVE  new_chain_state.applied[t] = Cardinality(Holding(t, H + 1))
    <3>1. /\ db.state.applied[t] = Cardinality(Holding(t, H))
          /\ db.state.applied[t] = chain_state.applied[t]
          /\ chain_state.applied[t] \in Nat
      BY <2>1, Fields DEF LedgerMatchesBlocks, Holding, BalancesDurable
    <3>2. new_chain_state.applied[t] = chain_state.applied[t] + IF t \in block.txs THEN 1 ELSE 0
      BY <2>1, <2>2 DEF WorkInv
    <3>3. IsFiniteSet(Holding(t, H))
      BY FS_Subset DEF StoreInv, Holding
    <3>4. CASE t \in block.txs
      <4>1. Holding(t, H + 1) = Holding(t, H) \cup {block} /\ block \notin Holding(t, H)
        BY <1>0, <2>2, <2>3, <3>4 DEF Holding
      <4>2. Cardinality(Holding(t, H + 1)) = Cardinality(Holding(t, H)) + 1
        BY <3>3, <4>1, FS_AddElement
      <4>3. new_chain_state.applied[t] = chain_state.applied[t] + 1
        BY <3>2, <3>4
      <4> QED BY <3>1, <4>2, <4>3
    <3>5. CASE t \notin block.txs
      <4>1. Holding(t, H + 1) = Holding(t, H)
        BY <1>0, <2>2, <2>3, <3>5 DEF Holding
      <4>2. new_chain_state.applied[t] = chain_state.applied[t]
        BY <3>1, <3>2, <3>5
      <4> QED BY <3>1, <4>1, <4>2
    <3> QED BY <3>4, <3>5
  <2> QED BY <2>1, <2>2, <2>4, <2>5 DEF LedgerMatchesBlocks, Holding
<1>3. CASE db'.by_height = db.by_height /\ db'.state = db.state
  BY <1>3 DEF LedgerMatchesBlocks, StoredAt
<1>4. CASE ~PutHeight /\ ~FlushState
  <2>1. db'.by_height = db.by_height /\ db'.state = db.state
    BY <1>4 DEF Next, InsertDepositIntent, ConfirmDeposit, AddTransactionToBlock,
            FinalizeBlock, ExecuteTransaction, ExecuteStep, ExecuteError, Executed,
            CreateGenesisBlock, PutBlock, PutTip, PutFails, Swap, Restart, vars, TypeOK
  <2> QED BY <2>1, <1>3
<1> QED BY <1>1, <1>2, <1>4

(* No transaction is executed twice in one life of the process. *)
LEMMA ReplayStep ==
  ASSUME TypeOK, ExecutorInv, WorkInv, BalancesDurable, ReplayInv, [Next]_vars
  PROVE  ReplayInv'
<1> USE DEF executorVars, actorVars, history
<1>0. restarts \in Nat /\ seen \subseteq Txs
  BY DEF TypeOK
<1>1. ASSUME NEW t \in Txs, InsertDepositIntent(t)
      PROVE  ReplayInv'
  <2>1. /\ chain_state'.intents = chain_state.intents \cup {t}
        /\ chain_state'.pending = chain_state.pending
        /\ chain_state'.applied = chain_state.applied
        /\ db'.state = db.state /\ seen' = seen \cup {t} /\ t \notin seen /\ restarts' = restarts
    BY <1>1, Fields DEF InsertDepositIntent, ChainState, TypeOK
  <2> QED BY <1>0, <2>1 DEF ReplayInv
<1>2. ASSUME NEW t \in Txs, ConfirmDeposit(t)
      PROVE  ReplayInv'
  <2>1. /\ chain_state'.intents = chain_state.intents \ {t}
        /\ chain_state'.pending = chain_state.pending \cup {t}
        /\ chain_state'.applied = chain_state.applied
        /\ t \in chain_state.intents
        /\ db'.state = db.state /\ UNCHANGED <<seen, restarts>>
    BY <1>2, Fields DEF ConfirmDeposit, ChainState, TypeOK
  <2> QED BY <1>0, <2>1 DEF ReplayInv
<1>3. ASSUME NEW t \in Txs, AddTransactionToBlock(t)
      PROVE  ReplayInv'
  <2>1. /\ chain_state'.intents = chain_state.intents
        /\ chain_state'.pending = chain_state.pending \cup {t}
        /\ chain_state'.applied = chain_state.applied
        /\ db'.state = db.state /\ seen' = seen \cup {t} /\ t \notin seen /\ restarts' = restarts
    BY <1>3, Fields DEF AddTransactionToBlock, ChainState, TypeOK
  <2> QED BY <1>0, <2>1 DEF ReplayInv
<1>4. ASSUME Finalizing, ip = 0, todo = {}
      PROVE  \A t \in Txs : /\ new_chain_state.applied[t] <= 1 + restarts
                            /\ t \notin chain_state.pending =>
                                 new_chain_state.applied[t] = chain_state.applied[t]
  <2>1. \A t \in Txs : new_chain_state.applied[t] =
          chain_state.applied[t] + IF t \in chain_state.pending THEN 1 ELSE 0
    BY <1>4 DEF WorkInv
  <2>2. \A t \in Txs : /\ chain_state.applied[t] \in Nat
                       /\ chain_state.applied[t] <= 1 + restarts
                       /\ t \in chain_state.pending => chain_state.applied[t] <= restarts
    BY Fields DEF ReplayInv
  <2> QED BY <1>0, <2>1, <2>2
<1>5. CASE FlushState
  <2>1. /\ Finalizing /\ ip = 0 /\ todo = {}
        /\ db'.state = new_chain_state /\ UNCHANGED <<chain_state, seen, restarts>>
    BY <1>5 DEF FlushState, TypeOK, WorkInv, Finalizing
  <2>2. new_chain_state.pending = chain_state.pending /\ new_chain_state.intents = chain_state.intents
    BY <2>1 DEF WorkInv
  <2> QED BY <1>0, <1>4, <2>1, <2>2 DEF ReplayInv
<1>6. CASE Swap
  <2>1. /\ Finalizing /\ ip = 0 /\ todo = {} /\ UNCHANGED <<db, seen, restarts>>
        /\ chain_state'.intents = new_chain_state.intents /\ chain_state'.pending = {}
        /\ chain_state'.applied = new_chain_state.applied
    BY <1>6, Fields DEF Swap, WorkInv, Finalizing, ChainState
  <2>2. new_chain_state.intents = chain_state.intents
    BY <2>1 DEF WorkInv
  <2>3. \A t \in Txs : t \notin seen => t \notin chain_state.pending
    BY DEF ReplayInv
  <2> QED BY <1>0, <1>4, <2>1, <2>2, <2>3 DEF ReplayInv
<1>7. CASE Restart
  <2>1. chain_state' = db.state /\ restarts' = restarts + 1 /\ UNCHANGED <<db, seen>>
    BY <1>7 DEF Restart
  <2>2. \A t \in Txs : db.state.applied[t] \in Nat
    BY Fields
  <2> QED BY <1>0, <2>1, <2>2 DEF ReplayInv
<1>8. CASE UNCHANGED <<chain_state, seen, restarts>> /\ db'.state = db.state
  BY <1>8 DEF ReplayInv
<1>9. CASE \/ FinalizeBlock \/ ExecuteTransaction \/ ExecuteStep \/ ExecuteError \/ Executed
           \/ CreateGenesisBlock \/ PutBlock \/ PutHeight \/ PutTip \/ PutFails \/ UNCHANGED vars
  <2>1. UNCHANGED <<chain_state, seen, restarts>> /\ db'.state = db.state
    BY <1>9 DEF FinalizeBlock, ExecuteTransaction, ExecuteStep, ExecuteError, Executed,
       CreateGenesisBlock, PutBlock, PutHeight, PutTip, PutFails, vars, TypeOK
  <2> QED BY <2>1, <1>8
<1> QED BY <1>1, <1>2, <1>3, <1>5, <1>6, <1>7, <1>9 DEF Next

-----------------------------------------------------------------------------
(* What a block moves *)

(* The amounts are summed as in Sums. *)
LEMMA MovedSum ==
  ASSUME NEW S, NEW type, NEW u
  PROVE  L!Moved(S, type, u) =
           SumFunctionOnSet(Amount, {t \in S : TxType[t] = type /\ Owner[t] = u})
  BY DEF L!Moved, L!SumFunctionOnSet, L!FoldFunctionOnSet, L!MapThenFoldSet,
         SumFunctionOnSet, FoldFunctionOnSet, MapThenFoldSet

LEMMA MovedFacts ==
  ASSUME NEW S \in SUBSET Txs, IsFiniteSet(S), NEW type, NEW u
  PROVE  /\ L!Moved(S, type, u) \in Nat
         /\ L!Moved({}, type, u) = 0
         /\ \A t \in Txs \ S : L!Moved(S \cup {t}, type, u) = L!Moved(S, type, u) +
              IF TxType[t] = type /\ Owner[t] = u THEN Amount[t] ELSE 0
<1> DEFINE Mine(Q) == {t \in Q : TxType[t] = type /\ Owner[t] = u}
<1>1. IsFiniteSet(Mine(S)) /\ \A t \in Mine(S) : Amount[t] \in Nat
  BY FS_Subset, TxAssumption
<1>2. L!Moved(S, type, u) \in Nat
  BY <1>1, SumNat, MovedSum
<1>3. L!Moved({}, type, u) = 0
  <2>1. Mine({}) = {}
    OBVIOUS
  <2> QED BY <1>1, <2>1, SumFacts, MovedSum
<1>4. ASSUME NEW t \in Txs \ S
      PROVE  L!Moved(S \cup {t}, type, u) = L!Moved(S, type, u) +
              IF TxType[t] = type /\ Owner[t] = u THEN Amount[t] ELSE 0
  <2>1. CASE TxType[t] = type /\ Owner[t] = u
    <3>1. Mine(S \cup {t}) = Mine(S) \cup {t} /\ t \notin Mine(S)
      BY <2>1
    <3>2. SumFunctionOnSet(Amount, Mine(S) \cup {t}) = SumFunctionOnSet(Amount, Mine(S)) + Amount[t]
      <4> HIDE DEF Mine
      <4> QED BY <1>1, <3>1, SumAdd, TxAssumption
    <3> QED BY <2>1, <3>1, <3>2, MovedSum
  <2>2. CASE ~(TxType[t] = type /\ Owner[t] = u)
    <3>1. Mine(S \cup {t}) = Mine(S)
      BY <2>2
    <3>2. L!Moved(S \cup {t}, type, u) = L!Moved(S, type, u)
      BY <3>1, MovedSum
    <3> QED BY <1>2, <2>2, <3>2
  <2> QED BY <2>1, <2>2
<1> QED BY <1>2, <1>3, <1>4

LEMMA CopyStep ==
  ASSUME TypeOK, ExecutorInv, WorkInv, ReplayInv, CopyInv, [Next]_vars
  PROVE  CopyInv'
<1> USE DEF executorVars, actorVars, history
<1> DEFINE Balanced ==
             \A u \in Users : new_chain_state.accounts[u] = chain_state.accounts[u]
               + L!Moved(Done, "Deposit", u) - L!Moved(Done, "Withdrawal", u)
<1>0. ASSUME Finalizing
      PROVE  /\ Done \subseteq Txs /\ IsFiniteSet(Done)
             /\ Balanced
             /\ \A u \in Users : L!Moved(Done, "Deposit", u) \in Nat
                                /\ L!Moved(Done, "Withdrawal", u) \in Nat
  <2>1. Done \subseteq seen /\ Done \subseteq Txs
    BY <1>0 DEF Done, WorkInv, ReplayInv, TypeOK
  <2>2. IsFiniteSet(Done)
    BY <2>1, FS_Subset DEF CopyInv
  <2> QED BY <1>0, <2>1, <2>2, MovedFacts DEF CopyInv
<1>1. ASSUME NEW t \in Txs,
             InsertDepositIntent(t) \/ ConfirmDeposit(t) \/ AddTransactionToBlock(t)
      PROVE  CopyInv'
  <2>1. pc' = "idle" /\ (seen' = seen \/ seen' = seen \cup {t})
    BY <1>1 DEF InsertDepositIntent, ConfirmDeposit, AddTransactionToBlock
  <2> QED BY <2>1, FS_AddElement DEF CopyInv, Finalizing
<1>2. CASE FinalizeBlock
  <2>1. /\ block' = [height |-> chain_state.height + 1, txs |-> chain_state.pending]
        /\ new_chain_state' = [chain_state EXCEPT !.height = @ + 1]
        /\ todo' = chain_state.pending /\ ip' = 0 /\ UNCHANGED <<chain_state, seen>>
    BY <1>2 DEF FinalizeBlock, WorkInv
  <2>2. Done' = {} /\ new_chain_state'.accounts = chain_state.accounts
    BY <2>1, Fields DEF Done, ChainState
  <2>3. \A u \in Users : chain_state.accounts[u] \in Nat
    BY Fields
  <2>4. \A u \in Users : L!Moved({}, "Deposit", u) = 0 /\ L!Moved({}, "Withdrawal", u) = 0
    BY MovedFacts, FS_EmptySet
  <2>5. \A u \in Users : new_chain_state'.accounts[u] = chain_state.accounts[u]
               + L!Moved({}, "Deposit", u) - L!Moved({}, "Withdrawal", u)
    BY <2>2, <2>3, <2>4
  <2> QED BY <2>1, <2>2, <2>5 DEF CopyInv
<1>3. CASE ExecuteTransaction
  <2>1. PICK t \in todo : tx' = t /\ todo' = todo \ {t}
    BY <1>3 DEF ExecuteTransaction
  <2>2. /\ pc = "execute" /\ ip = 0 /\ ip' = 1
        /\ UNCHANGED <<new_chain_state, chain_state, block, pc, seen>>
    BY <1>3 DEF ExecuteTransaction
  <2>3. Finalizing
    BY <2>2 DEF WorkInv, Finalizing
  <2>4. Done' = Done
    BY <2>1, <2>2, <2>3 DEF Done
  <2> QED BY <1>0, <2>2, <2>3, <2>4 DEF CopyInv
<1>4. CASE ExecuteStep
  <2>1. /\ pc = "execute" /\ Finalizing /\ ip # 0
        /\ UNCHANGED <<chain_state, block, todo, pc, tx, seen>>
    BY <1>4, OpEffect DEF ExecuteStep, WorkInv, Finalizing
  <2>2. tx \in block.txs \ todo /\ tx \in Txs
    BY <2>1 DEF WorkInv, TypeOK
  <2>3. CASE new_chain_state' = new_chain_state /\ ip' = ip + 1
    <3>1. ip' # 0
      BY <2>1, <2>3 DEF TypeOK
    <3>2. Done' = Done
      BY <2>1, <3>1 DEF Done
    <3> QED BY <1>0, <2>1, <2>3, <3>2 DEF CopyInv
  <2>4. CASE /\ ip' = 0
             /\ \/ /\ TxType[tx] = "Deposit"
                   /\ new_chain_state'.accounts =
                        [new_chain_state.accounts EXCEPT ![Owner[tx]] = @ + Amount[tx]]
                \/ /\ TxType[tx] = "Withdrawal"
                   /\ new_chain_state'.accounts =
                        [new_chain_state.accounts EXCEPT ![Owner[tx]] = @ - Amount[tx]]
    <3>1. Done' = Done \cup {tx} /\ tx \in Txs \ Done
      BY <2>1, <2>2, <2>4 DEF Done
    <3>2. new_chain_state.accounts \in [Users -> Nat] /\ chain_state.accounts \in [Users -> Nat]
      BY Fields
    <3>3. Amount[tx] \in Nat
      BY <2>2, TxAssumption
    <3>4. ASSUME NEW u \in Users
          PROVE  new_chain_state'.accounts[u] = chain_state.accounts[u]
                   + L!Moved(Done \cup {tx}, "Deposit", u)
                   - L!Moved(Done \cup {tx}, "Withdrawal", u)
      <4> DEFINE d == L!Moved(Done, "Deposit", u)
                 w == L!Moved(Done, "Withdrawal", u)
      <4>1. d \in Nat /\ w \in Nat /\ new_chain_state.accounts[u] = chain_state.accounts[u] + d - w
        BY <1>0, <2>1
      <4>2. /\ L!Moved(Done \cup {tx}, "Deposit", u) = d +
                 IF TxType[tx] = "Deposit" /\ Owner[tx] = u THEN Amount[tx] ELSE 0
            /\ L!Moved(Done \cup {tx}, "Withdrawal", u) = w +
                 IF TxType[tx] = "Withdrawal" /\ Owner[tx] = u THEN Amount[tx] ELSE 0
        BY <1>0, <2>1, <3>1, MovedFacts
      <4>3. new_chain_state'.accounts[u] = new_chain_state.accounts[u] +
              (IF Owner[tx] # u THEN 0 ELSE IF TxType[tx] = "Deposit" THEN Amount[tx] ELSE 0 - Amount[tx])
        BY <2>4, <3>2, <3>3
      <4> HIDE DEF d, w
      <4> QED BY <2>4, <3>2, <3>3, <4>1, <4>2, <4>3
    <3> QED BY <2>1, <3>1, <3>4 DEF CopyInv
  <2> QED BY <1>4, <2>3, <2>4, OpEffect DEF ExecuteStep
<1>5. CASE ExecuteError \/ PutFails \/ Swap \/ Restart
  BY <1>5 DEF ExecuteError, PutFails, Swap, Restart, CopyInv, Finalizing
<1>6. CASE CreateGenesisBlock
  BY <1>6 DEF CreateGenesisBlock, CopyInv, Finalizing, Genesis
<1>7. CASE Executed \/ PutBlock \/ PutHeight \/ PutTip \/ FlushState \/ UNCHANGED vars
  <2>1. /\ UNCHANGED <<chain_state, new_chain_state, block, todo, tx, ip, seen>>
        /\ pc' # "idle" => pc # "idle"
    BY <1>7 DEF Executed, PutBlock, PutHeight, PutTip, FlushState, vars
  <2>2. Done' = Done /\ (Finalizing' => Finalizing)
    BY <2>1 DEF Done, Finalizing, Genesis
  <2> QED BY <2>1, <2>2 DEF CopyInv
<1> QED BY <1>1, <1>2, <1>3, <1>4, <1>5, <1>6, <1>7 DEF Next

(* Until the first restart nothing is lost between intents, pending        *)
(* transactions and balances.                                              *)
LEMMA PlaceStep ==
  ASSUME TypeOK, ExecutorInv, WorkInv, ReplayInv, DepositInOnePlace, [Next]_vars
  PROVE  DepositInOnePlace'
<1> USE DEF executorVars, actorVars, history
<1>0. /\ restarts \in Nat /\ seen \subseteq Txs
      /\ \A t \in Txs : chain_state.applied[t] \in Nat
      /\ \A t \in Txs : t \notin seen => t \notin chain_state.intents \cup chain_state.pending
      /\ chain_state.intents \cap chain_state.pending = {}
  BY Fields DEF TypeOK, ReplayInv
<1>1. ASSUME NEW t \in Txs, InsertDepositIntent(t)
      PROVE  DepositInOnePlace'
  <2>1. /\ chain_state'.intents = chain_state.intents \cup {t}
        /\ chain_state'.pending = chain_state.pending
        /\ chain_state'.applied = chain_state.applied
        /\ seen' = seen \cup {t} /\ t \notin seen /\ restarts' = restarts
    BY <1>1, Fields DEF InsertDepositIntent, ChainState, TypeOK
  <2>2. restarts = 0 => chain_state.applied[t] = 0
    BY <1>0, <2>1 DEF ReplayInv
  <2> QED BY <1>0, <2>1, <2>2 DEF DepositInOnePlace
<1>2. ASSUME NEW t \in Txs, ConfirmDeposit(t)
      PROVE  DepositInOnePlace'
  <2>1. /\ chain_state'.intents = chain_state.intents \ {t}
        /\ chain_state'.pending = chain_state.pending \cup {t}
        /\ chain_state'.applied = chain_state.applied
        /\ t \in chain_state.intents /\ UNCHANGED <<seen, restarts>>
    BY <1>2, Fields DEF ConfirmDeposit, ChainState, TypeOK
  <2> QED BY <1>0, <2>1 DEF DepositInOnePlace
<1>3. ASSUME NEW t \in Txs, AddTransactionToBlock(t)
      PROVE  DepositInOnePlace'
  <2>1. /\ chain_state'.intents = chain_state.intents
        /\ chain_state'.pending = chain_state.pending \cup {t}
        /\ chain_state'.applied = chain_state.applied
        /\ seen' = seen \cup {t} /\ t \notin seen /\ restarts' = restarts
    BY <1>3, Fields DEF AddTransactionToBlock, ChainState, TypeOK
  <2>2. restarts = 0 => chain_state.applied[t] = 0
    BY <1>0, <2>1 DEF ReplayInv
  <2> QED BY <1>0, <2>1, <2>2 DEF DepositInOnePlace
<1>4. CASE Swap
  <2>1. /\ Finalizing /\ ip = 0 /\ todo = {} /\ UNCHANGED <<seen, restarts>>
        /\ chain_state'.intents = new_chain_state.intents /\ chain_state'.pending = {}
        /\ chain_state'.applied = new_chain_state.applied
    BY <1>4, Fields DEF Swap, WorkInv, Finalizing, ChainState
  <2>2. /\ new_chain_state.intents = chain_state.intents
        /\ \A t \in Txs : new_chain_state.applied[t] =
             chain_state.applied[t] + IF t \in chain_state.pending THEN 1 ELSE 0
    BY <2>1 DEF WorkInv
  <2> QED BY <1>0, <2>1, <2>2 DEF DepositInOnePlace
<1>5. CASE Restart
  BY <1>0, <1>5 DEF Restart, DepositInOnePlace
<1>6. CASE UNCHANGED <<chain_state, seen, restarts>>
  BY <1>6 DEF DepositInOnePlace
<1> QED BY <1>1, <1>2, <1>3, <1>4, <1>5, <1>6
        DEF Next, FinalizeBlock, ExecuteTransaction, ExecuteStep, ExecuteError, Executed,
            CreateGenesisBlock, PutBlock, PutHeight, PutTip, FlushState, PutFails, vars

-----------------------------------------------------------------------------
(* The theorems *)

LEMMA ChainInit == Init => ChainInv
<1> SUFFICES ASSUME Init PROVE ChainInv
  OBVIOUS
<1>1. /\ stack = <<>> /\ allowance_list = NoAllowance /\ ip = 0
      /\ new_chain_state = EmptyState /\ chain_state = EmptyState
      /\ block = Genesis /\ todo = {} /\ pc = "idle"
      /\ seen = {} /\ attempts = 0 /\ restarts = 0
  BY DEF Init
<1>2. tx \in Txs
  <2>1. (CHOOSE t \in Txs : TRUE) \in Txs
    BY TxAssumption
  <2> QED BY <2>1 DEF Init
<1>3. /\ db.state = EmptyState /\ db.blocks = {} /\ db.by_height = {}
      /\ db.tip = {} /\ db.intents = {}
  BY DEF Init
<1>4. /\ EmptyState \in ChainState /\ EmptyState.height = 0
      /\ EmptyState.intents = {} /\ EmptyState.pending = {}
      /\ \A t \in Txs : EmptyState.applied[t] = 0
  BY DEF EmptyState, ChainState
<1> HIDE DEF EmptyState, ChainState
<1>5. TypeOK
  <2>1. db \in [state : ChainState, blocks : SUBSET Block, by_height : SUBSET Block,
                tip : SUBSET Block, intents : SUBSET Txs]
    BY <1>4 DEF Init
  <2>2. Genesis \in Block /\ NoAllowance \in [Users -> Nat]
    BY DEF Genesis, Block, NoAllowance
  <2> QED BY <1>1, <1>2, <1>4, <2>1, <2>2 DEF TypeOK
<1>6. ExecutorInv
  <2>1. Len(operations(tx)) \in {3, 7}
    BY <1>2, Programs
  <2> QED BY <1>1, <2>1 DEF ExecutorInv
<1>7. WorkInv
  BY <1>1 DEF WorkInv, Finalizing
<1>8. StoreInv
  BY <1>1, <1>3, FS_EmptySet DEF StoreInv
<1>9. ReplayInv
  BY <1>1, <1>3, <1>4 DEF ReplayInv
<1>10. BalancesDurable /\ IndexResolves
  BY <1>1, <1>3 DEF BalancesDurable, IndexResolves
<1>11. LedgerMatchesBlocks
  <2>1. \A t \in Txs : {b \in db.by_height : b.height \in 1..db.state.height /\ t \in b.txs} = {}
    BY <1>3
  <2> QED BY <2>1, <1>3, <1>4, FS_EmptySet DEF LedgerMatchesBlocks
<1>12. CopyInv /\ DepositInOnePlace
  BY <1>1, FS_EmptySet DEF CopyInv, Finalizing, DepositInOnePlace
<1> QED BY <1>5, <1>6, <1>7, <1>8, <1>9, <1>10, <1>11, <1>12 DEF ChainInv

(* Every step of the chain actor, a crash at any point included, preserves *)
(* the inductive invariant.                                                *)
THEOREM Inductive == Spec => []ChainInv
<1>1. ChainInv /\ [Next]_vars => ChainInv'
  BY TypeStep, WorkStep, DurableStep, IndexStep, StoreStep, LedgerStep, ReplayStep,
     CopyStep, PlaceStep DEF ChainInv
<1> QED BY ChainInit, <1>1, PTL DEF Spec

(* The state of the actor, its copy and the database keep their types, the *)
(* balances never becoming negative among them.                            *)
THEOREM TypeCorrect == Spec => []TypeOK
<1>1. ChainInv => TypeOK
  BY DEF ChainInv
<1> QED BY Inductive, <1>1, PTL

(* Until the first restart a deposit is in one place exactly.              *)
THEOREM OnePlace == Spec => []DepositInOnePlace
<1>1. ChainInv => DepositInOnePlace
  BY DEF ChainInv
<1> QED BY Inductive, <1>1, PTL

(* The flushed state is the outcome of the blocks stored for its heights.  *)
THEOREM LedgerSound == Spec => []LedgerMatchesBlocks
<1>1. ChainInv => LedgerMatchesBlocks
  BY DEF ChainInv
<1> QED BY Inductive, <1>1, PTL

(* A restart loads the balances that clients could read.                   *)
THEOREM Durable == Spec => []BalancesDurable
<1>1. ChainInv => BalancesDurable
  BY DEF ChainInv
<1> QED BY Inductive, <1>1, PTL

(* What the height index and the tip refer to is stored.                   *)
THEOREM Resolves == Spec => []IndexResolves
<1>1. ChainInv => IndexResolves
  BY DEF ChainInv
<1> QED BY Inductive, <1>1, PTL

(* The stack never hands a value of another transaction to an operation.   *)
THEOREM OwnArgs == Spec => []ArgumentsAreOwn
<1>1. ChainInv => ArgumentsAreOwn
  BY OwnArguments DEF ChainInv
<1> QED BY Inductive, <1>1, PTL

(* No allowance is left over when a transaction ends or fails.             *)
THEOREM NoLeftover == Spec => []AllowanceSpent
<1>1. ChainInv => AllowanceSpent
  BY DEF ChainInv, ExecutorInv, AllowanceSpent
<1> QED BY Inductive, <1>1, PTL

(* A transaction is executed at most once per life of the process.         *)
THEOREM OncePerLife == Spec => []AppliedOncePerLife
<1>1. ChainInv => AppliedOncePerLife
  BY DEF ChainInv, ReplayInv, AppliedOncePerLife
<1> QED BY Inductive, <1>1, PTL

(* The height of the chain never goes back, not even across a restart.     *)
THEOREM HeightMonotone == Spec => HeightNeverDecreases
<1>1. ASSUME ChainInv, [Next]_vars
      PROVE  chain_state'.height >= chain_state.height
  <2> USE DEF executorVars, actorVars, history
  <2>0. chain_state.height \in Nat /\ db.state.height \in Nat
    BY <1>1, Fields DEF ChainInv
  <2>1. CASE Swap
    <3>1. new_chain_state.height = chain_state.height + 1
      BY <1>1, <2>1 DEF Swap, ChainInv, WorkInv, Finalizing
    <3>2. chain_state'.height = new_chain_state.height
      BY <1>1, <2>1, Fields DEF Swap, ChainInv, ChainState
    <3> QED BY <2>0, <3>1, <3>2
  <2>2. CASE Restart
    <3>1. chain_state'.height = db.state.height
      BY <2>2 DEF Restart
    <3>2. pc = "swap" => new_chain_state.height = chain_state.height + 1
      BY <1>1 DEF ChainInv, WorkInv, Finalizing
    <3> QED BY <1>1, <2>0, <3>1, <3>2 DEF ChainInv, BalancesDurable
  <2>3. ASSUME NEW t \in Txs,
               InsertDepositIntent(t) \/ ConfirmDeposit(t) \/ AddTransactionToBlock(t)
        PROVE  chain_state'.height = chain_state.height
    BY <1>1, <2>3, Fields
       DEF InsertDepositIntent, ConfirmDeposit, AddTransactionToBlock, ChainInv, ChainState
  <2>4. CASE UNCHANGED chain_state
    BY <2>0, <2>4
  <2> QED BY <1>1, <2>0, <2>1, <2>2, <2>3, <2>4
          DEF Next, FinalizeBlock, ExecuteTransaction, ExecuteStep, ExecuteError, Executed,
              CreateGenesisBlock, PutBlock, PutHeight, PutTip, FlushState, PutFails, vars
<1>2. ChainInv /\ [Next]_vars => [chain_state'.height >= chain_state.height]_vars
  BY <1>1
<1> QED BY Inductive, <1>2, PTL DEF Spec, HeightNeverDecreases

(* The flushed balances implement the ledger: they change by whole blocks  *)
(* only, each adding its deposits and taking its withdrawals, whatever the *)
(* order of the operations, the failed attempts and the crashes.           *)
THEOREM ImplementsLedger == Spec => LedgerSpec
<1>1. Init => L!Init
  BY DEF Init, L!Init, EmptyState
<1>2. ASSUME ChainInv, [Next]_vars
      PROVE  [L!Next]_<<db.state.accounts, db.state.height, db.state.applied>>
  <2> USE DEF executorVars, actorVars, history
  <2>1. CASE FlushState
    <3>1. /\ db'.state = new_chain_state /\ pc = "flush"
      BY <1>2, <2>1 DEF FlushState, ChainInv, TypeOK
    <3>2. Finalizing /\ ip = 0 /\ todo = {}
      BY <1>2, <3>1 DEF ChainInv, WorkInv, Finalizing
    <3>3. Done = block.txs
      BY <3>2 DEF Done
    <3>4. /\ db.state.accounts = chain_state.accounts /\ db.state.height = chain_state.height
          /\ db.state.applied = chain_state.applied
      BY <1>2, <3>1 DEF ChainInv, BalancesDurable
    <3>5. /\ new_chain_state.accounts \in [Users -> Nat]
          /\ new_chain_state.applied \in [Txs -> Nat]
          /\ block.txs \in SUBSET Txs
      BY <1>2, Fields DEF ChainInv
    <3>6. \A u \in Users : new_chain_state.accounts[u] = db.state.accounts[u]
            + L!Moved(block.txs, "Deposit", u) - L!Moved(block.txs, "Withdrawal", u)
      BY <1>2, <3>2, <3>3, <3>4 DEF ChainInv, CopyInv
    <3>7. new_chain_state.accounts = [u \in Users |-> db.state.accounts[u]
            + L!Moved(block.txs, "Deposit", u) - L!Moved(block.txs, "Withdrawal", u)]
      BY <3>5, <3>6
    <3>8. new_chain_state.height = db.state.height + 1
      BY <1>2, <3>2, <3>4 DEF ChainInv, WorkInv
    <3>9. \A t \in Txs : new_chain_state.applied[t] =
            db.state.applied[t] + (IF t \in block.txs THEN 1 ELSE 0)
      BY <1>2, <3>2, <3>4 DEF ChainInv, WorkInv
    <3>10. new_chain_state.applied =
             [t \in Txs |-> db.state.applied[t] + (IF t \in block.txs THEN 1 ELSE 0)]
      BY <3>5, <3>9
    <3>11. \A u \in Users : new_chain_state.accounts[u] >= 0
      BY <3>5
    <3>12. L!ApplyBlock(block.txs)
      BY <3>1, <3>7, <3>8, <3>10, <3>11 DEF L!ApplyBlock
    <3> QED BY <3>5, <3>12 DEF L!Next
  <2>2. CASE ~FlushState
    <3>1. db'.state = db.state
      BY <1>2, <2>2 DEF ChainInv, TypeOK, Next, InsertDepositIntent, ConfirmDeposit,
         AddTransactionToBlock, FinalizeBlock, ExecuteTransaction, ExecuteStep, ExecuteError,
         Executed, CreateGenesisBlock, PutBlock, PutHeight, PutTip, PutFails, Swap, Restart, vars
    <3> QED BY <3>1
  <2> QED BY <2>1, <2>2
<1>3. ChainInv /\ [Next]_vars =>
        [L!Next]_<<db.state.accounts, db.state.height, db.state.applied>>
  BY <1>2
<1> QED BY Inductive, <1>1, <1>3, PTL DEF Spec, LedgerSpec, L!Spec

=============================================================================
