------------------------------- MODULE Ledger -------------------------------
(***************************************************************************)
(* What the chain of one node promises: balances that only change by whole *)
(* blocks, each of which adds its deposits and takes its withdrawals, and  *)
(* that a crash never changes.                                             *)
(***************************************************************************)
EXTENDS Integers, Functions

CONSTANTS Users, Txs, TxType, Owner, Amount

VARIABLES
    balance,  \* the satoshis of each user
    height,   \* the number of blocks
    applied   \* how often each transaction was in a block

(* The satoshis that the transactions in S of the given type move for u.   *)
Moved(S, type, u) ==
    SumFunctionOnSet(Amount, {t \in S : TxType[t] = type /\ Owner[t] = u})

Init == balance = [u \in Users |-> 0] /\ height = 0 /\ applied = [t \in Txs |-> 0]

ApplyBlock(S) ==
    /\ balance' = [u \in Users |-> balance[u] + Moved(S, "Deposit", u)
                                              - Moved(S, "Withdrawal", u)]
    /\ \A u \in Users : balance'[u] >= 0
    /\ height' = height + 1
    /\ applied' = [t \in Txs |-> applied[t] + (IF t \in S THEN 1 ELSE 0)]

Next == \E S \in SUBSET Txs : ApplyBlock(S)

Spec == Init /\ [][Next]_<<balance, height, applied>>

=============================================================================
