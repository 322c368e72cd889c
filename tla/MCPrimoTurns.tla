---------------------------- MODULE MCPrimoTurns ----------------------------
(* An instance of PrimoTurns for TLC. *)
EXTENDS PrimoTurns, TLC

Symmetry == Permutations(Windows) \cup Permutations(Chats) \cup Permutations(Texts)
=============================================================================
