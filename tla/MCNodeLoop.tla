----------------------------- MODULE MCNodeLoop -----------------------------
(* The instance of NodeLoop that is checked: one call that asks the chain  *)
(* actor and one that does not.                                            *)
EXTENDS NodeLoop

CONSTANTS c1, c2

MCKinds ==
    [c \in {c1, c2} |->
       IF c = c1 THEN {"CheckBalance", "ProposeWithdrawal"}
       ELSE {"ConfirmWithdrawal", "StartSigningSession", "TriggerConsensusRound"}]
=============================================================================
