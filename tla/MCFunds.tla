------------------------------ MODULE MCFunds -------------------------------
(* Two deposits, of different users, and two withdrawals of one of them at *)
(* one node; the second withdrawal is one that a check or the network may  *)
(* refuse.  The first one is either equal to it, or it exceeds with its    *)
(* fee what the user paid in.                                              *)
EXTENDS Funds

PaidValue == [d \in Deposits |-> IF d = 1 THEN 5 ELSE 3]

AmountValues == {[w \in Withdrawals |-> IF w = 11 THEN a ELSE 2] : a \in {2, 3}}
=============================================================================
