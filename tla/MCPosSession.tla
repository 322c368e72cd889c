---------------------------- MODULE MCPosSession ---------------------------
(* Instances of PosSession for TLC.                                         *)
EXTENDS PosSession, TLC

Symmetry == Permutations(Orders)
=============================================================================
