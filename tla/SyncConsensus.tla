--------------------------- MODULE SyncConsensus ---------------------------
(***************************************************************************)
(* Consensus under the best scheduling its deployment can hope for.        *)
(*                                                                         *)
(* The round interval is 10 s and gossip takes milliseconds, so here every *)
(* message is delivered, in the order announcement, proposal, prevotes,    *)
(* precommits, before the next timer fires.  The timers of the nodes are   *)
(* tokio intervals: they fire periodically in one fixed order, which       *)
(* depends on when the nodes were started.  Every such order is explored.  *)
(***************************************************************************)
EXTENDS Consensus, Functions

VARIABLES
    order,  \* the order in which the nodes' intervals fire
    turn    \* whose interval fires next, as an index of order

syncVars == <<vars, order, turn>>

N == Cardinality(Validators)

Stage(m) == CASE m.type = "Transaction"        -> 0
              [] m.type = "LeaderAnnouncement" -> 1
              [] m.type = "BlockProposal"      -> 2
              [] m.type = "Prevote"            -> 3
              [] m.type = "Precommit"          -> 4

InFlight == UNION {inbox[n] : n \in Validators}
Quiet == InFlight = {}

(* The first turn of a node is its first peer's subscription, which starts *)
(* round 1; all later ones are its round interval.                         *)
Tick ==
    /\ Quiet
    /\ LET n == order[turn]
       IN  \/ /\ current_round[n] = 0
              /\ \E p \in Validators \ {n} : Subscribed(n, p)
           \/ RoundTimer(n)
    /\ turn' = (turn % N) + 1
    /\ UNCHANGED order

Deliver ==
    /\ \E n \in Validators : \E m \in inbox[n] :
         /\ \A k \in InFlight : Stage(m) <= Stage(k)
         /\ Receive(n, m)
    /\ UNCHANGED <<order, turn>>

SyncInit == Init /\ turn = 1 /\ order \in Bijection(1..N, Validators)

SyncNext == Tick \/ Deliver

(* The interval keeps firing and the network keeps delivering. *)
SyncSpec == SyncInit /\ [][SyncNext]_syncVars /\ WF_syncVars(Tick) /\ WF_syncVars(Deliver)

-----------------------------------------------------------------------------
(* Whatever the order of the timers, every node stores a first block, and  *)
(* does so before round MaxRound: floor(2n/3) votes of the other nodes are *)
(* within reach although the leader never prevotes.                        *)
FirstBlockEverywhere == <>(\A n \in Validators : blocks[n] # <<>>)

(* What verify_chain_state_consistency of the integration tests expects:   *)
(* when the network is quiet all nodes report the same height.             *)
SameHeightWhenQuiet ==
    Quiet => \A n, p \in Validators : Height(n) = Height(p)
=============================================================================
