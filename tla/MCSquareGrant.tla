--------------------------- MODULE MCSquareGrant ---------------------------
(* Instances of SquareGrant for TLC.                                        *)
EXTENDS SquareGrant, TLC

Symmetry == Permutations(Workers) \cup Permutations(Callbacks)
              \cup Permutations(Disconnects)
=============================================================================
