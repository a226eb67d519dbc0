----------------------------- MODULE MCSigning ------------------------------
(* Three requests on two of four signers: two spends on the first, and a  *)
(* bare signing request on the second.                                     *)
EXTENDS Signing

CONSTANTS n1, n2, n3, n4

MCNodes == {n1, n2, n3, n4}
MCCoordinator == [id \in 1 .. 3 |-> IF id = 2 THEN n2 ELSE n1]
=============================================================================
