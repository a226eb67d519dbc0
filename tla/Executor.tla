------------------------------ MODULE Executor ------------------------------
(***************************************************************************)
(* The stack machine that executes chain transactions                      *)
(* (crates/abci/src/executor.rs).                                          *)
(*                                                                         *)
(* A transaction is a short program.  Its operations pop their arguments   *)
(* from a stack and push a result; the stack and the allowance list belong *)
(* to the executor, not to a transaction, and are never cleared: not after *)
(* a transaction, and not after an error.                                  *)
(***************************************************************************)
EXTENDS Integers, Sequences

CONSTANTS
    Users,    \* user public keys, the keys of ChainState.accounts
    Txs,      \* chain transactions, as integers: their ids sort a block
    TxType,   \* the type of each transaction, "Deposit" or "Withdrawal"
    Owner,    \* the user_pubkey of each transaction
    Amount    \* the amount_sat of each transaction

ASSUME TxAssumption ==
    /\ Txs \subseteq Int /\ Txs # {}
    /\ TxType \in [Txs -> {"Deposit", "Withdrawal"}]
    /\ Owner \in [Txs -> Users]
    /\ Amount \in [Txs -> Nat]

VARIABLES
    stack,            \* TransactionExecutorImpl.stack
    allowance_list,   \* TransactionExecutorImpl.allowance_list
    new_chain_state,  \* TransactionExecutorImpl.new_chain_state
    tx,               \* the transaction in execution
    ip                \* the index of its next operation, 0 outside a transaction

executorVars == <<stack, allowance_list, new_chain_state, tx, ip>>

-----------------------------------------------------------------------------
(* Programs *)

Push(value) == [op |-> "OpPush", value |-> value]

Op(name) == [op |-> name, value |-> <<>>]

(* Variant of create_deposit_transaction: OpIncrementBalance is taken to   *)
(* find the arguments of OpCheckOracle still on the stack.                 *)
DepositPushedOnce(t) ==
    << Push(Amount[t]), Push(Owner[t]), Push(t), Op("OpCheckOracle"),
       Op("OpIncrementBalance") >>

create_deposit_transaction(t) ==
    << Push(Amount[t]), Push(Owner[t]), Push(t), Op("OpCheckOracle"),
       Push(Amount[t]), Push(Owner[t]), Op("OpIncrementBalance") >>

create_withdrawal_transaction(t) ==
    << Push(Amount[t]), Push(Owner[t]), Op("OpDecrementBalance") >>

operations(t) ==
    IF TxType[t] = "Deposit" THEN create_deposit_transaction(t)
                             ELSE create_withdrawal_transaction(t)

NoAllowance == [u \in Users |-> 0]

-----------------------------------------------------------------------------
(* Operations *)

(* The i-th value below the top of the stack, from 0. *)
Arg(i) == stack[Len(stack) - i]

(* The stack without its k topmost values. *)
Popped(k) == SubSeq(stack, 1, Len(stack) - k)

At(name) == ip # 0 /\ operations(tx)[ip].op = name

Advance == ip' = IF ip = Len(operations(tx)) THEN 0 ELSE ip + 1

OpPush ==
    /\ At("OpPush")
    /\ Advance
    /\ stack' = Append(stack, operations(tx)[ip].value)
    /\ UNCHANGED <<allowance_list, new_chain_state, tx>>

(* The oracle has looked up the Bitcoin transaction; an amount it confirms *)
(* may be credited to the address from now on.                             *)
op_check_oracle(verified) ==
    /\ At("OpCheckOracle")
    /\ Advance
    /\ allowance_list' = IF verified
                         THEN [allowance_list EXCEPT ![Arg(1)] = @ + Arg(2)]
                         ELSE allowance_list
    /\ stack' = Append(Popped(3), IF verified THEN 1 ELSE 0)
    /\ UNCHANGED <<new_chain_state, tx>>

(* Variant of op_increment_balance: the allowance is not deducted.         *)
IncrementKeepAllowance ==
    /\ At("OpIncrementBalance")
    /\ Advance
    /\ allowance_list[Arg(0)] >= Arg(1)
    /\ new_chain_state' = [new_chain_state EXCEPT !.accounts[Arg(0)] = @ + Arg(1),
                                                  !.applied[tx] = @ + 1]
    /\ stack' = Append(Popped(2), 1)
    /\ UNCHANGED <<allowance_list, tx>>

op_increment_balance ==
    /\ At("OpIncrementBalance")
    /\ Advance
    /\ allowance_list[Arg(0)] >= Arg(1)
    /\ allowance_list' = [allowance_list EXCEPT ![Arg(0)] = @ - Arg(1)]
    /\ new_chain_state' = [new_chain_state EXCEPT !.accounts[Arg(0)] = @ + Arg(1),
                                                  !.applied[tx] = @ + 1]
    /\ stack' = Append(Popped(2), 1)
    /\ UNCHANGED tx

(* Variant of op_decrement_balance: no balance check, so that              *)
(* Account::decrement_balance saturates at zero.                           *)
DecrementSaturating ==
    /\ At("OpDecrementBalance")
    /\ Advance
    /\ new_chain_state' = [new_chain_state EXCEPT
         !.accounts[Arg(0)] = IF @ >= Arg(1) THEN @ - Arg(1) ELSE 0,
         !.applied[tx] = @ + 1]
    /\ stack' = Append(Popped(2), 1)
    /\ UNCHANGED <<allowance_list, tx>>

(* Variant of op_decrement_balance: no balance check, plain subtraction.   *)
DecrementUnchecked ==
    /\ At("OpDecrementBalance")
    /\ Advance
    /\ new_chain_state' = [new_chain_state EXCEPT !.accounts[Arg(0)] = @ - Arg(1),
                                                  !.applied[tx] = @ + 1]
    /\ stack' = Append(Popped(2), 1)
    /\ UNCHANGED <<allowance_list, tx>>

op_decrement_balance ==
    /\ At("OpDecrementBalance")
    /\ Advance
    /\ new_chain_state.accounts[Arg(0)] >= Arg(1)
    /\ new_chain_state' = [new_chain_state EXCEPT !.accounts[Arg(0)] = @ - Arg(1),
                                                  !.applied[tx] = @ + 1]
    /\ stack' = Append(Popped(2), 1)
    /\ UNCHANGED <<allowance_list, tx>>

(* An operation that returns normally. *)
ExecuteOp ==
    \/ OpPush
    \/ \E verified \in BOOLEAN : op_check_oracle(verified)
    \/ op_increment_balance
    \/ op_decrement_balance

(* An operation that returns an error after it popped its arguments: the   *)
(* oracle could not confirm the transaction, the allowance is too small,   *)
(* or the balance is.                                                      *)
OpFails ==
    /\ \/ At("OpCheckOracle") /\ stack' = Popped(3)
       \/ At("OpIncrementBalance") /\ allowance_list[Arg(0)] < Arg(1) /\ stack' = Popped(2)
       \/ /\ At("OpDecrementBalance")
          /\ new_chain_state.accounts[Arg(0)] < Arg(1)
          /\ stack' = Popped(2)
    /\ ip' = 0
    /\ UNCHANGED <<allowance_list, new_chain_state, tx>>

-----------------------------------------------------------------------------
(* Properties *)

(* What an operation is about to pop is what its own transaction pushed:   *)
(* results and arguments that earlier transactions, or earlier failed      *)
(* attempts, left on the stack are never taken for arguments.              *)
ArgumentsAreOwn ==
    /\ At("OpCheckOracle") =>
         Len(stack) >= 3 /\ <<Arg(2), Arg(1), Arg(0)>> = <<Amount[tx], Owner[tx], tx>>
    /\ At("OpIncrementBalance") \/ At("OpDecrementBalance") =>
         Len(stack) >= 2 /\ <<Arg(1), Arg(0)>> = <<Amount[tx], Owner[tx]>>

(* The strengthening of ArgumentsAreOwn that every operation preserves: at *)
(* each index, what the program has pushed and not yet popped is on top of *)
(* the stack, and only a verified deposit has an allowance, its own.       *)
ExecutorInv ==
    /\ ip \in 0..Len(operations(tx))
    /\ ip \in {2, 6} => Len(stack) >= 1 /\ Arg(0) = Amount[tx]
    /\ ip \in {3, 7} => Len(stack) >= 2 /\ Arg(1) = Amount[tx] /\ Arg(0) = Owner[tx]
    /\ ip = 4 => Len(stack) >= 3 /\ Arg(2) = Amount[tx] /\ Arg(1) = Owner[tx] /\ Arg(0) = tx
    /\ \/ allowance_list = NoAllowance
       \/ /\ TxType[tx] = "Deposit" /\ ip \in 5..7
          /\ allowance_list = [NoAllowance EXCEPT ![Owner[tx]] = Amount[tx]]

=============================================================================
