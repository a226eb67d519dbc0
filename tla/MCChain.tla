------------------------------- MODULE MCChain ------------------------------
(* Two deposits and a withdrawal that the first of them covers.            *)
EXTENDS Chain

MCTxs == 1..3
MCTxType == <<"Deposit", "Withdrawal", "Deposit">>
MCAmount == <<2, 1, 1>>
CONSTANTS alice, bob
MCUsers == {alice, bob}
MCOwner == <<alice, alice, bob>>

=============================================================================
