----------------------------- MODULE MCPosSync -----------------------------
(* Instances of PosSync for TLC: two workers are enough for a stale owner   *)
(* and its successor, two runs for a closed run and the one after it.       *)
EXTENDS PosSync, TLC

Symmetry == Permutations(Workers) \cup Permutations(Runs)
              \cup Permutations(Records)
=============================================================================
