------------------------------- MODULE MCDkg --------------------------------
(* Key generation, cut off after a few runs per node, for TLC: a failed    *)
(* part3 resets the state, and the packages of the next run may again meet *)
(* those of an older one.                                                  *)
EXTENDS Dkg, TLC

CONSTANT MaxRuns  \* bound: calls of part1 by one node

ASSUME MaxRunsAssumption == MaxRuns \in Nat

RunBound == \A n \in Nodes : runs[n] <= MaxRuns

(* Nodes that the constants do not tell apart.                             *)
Alike == Permutations(Nodes \ (SaveFails \cup Unsaved))
=============================================================================
