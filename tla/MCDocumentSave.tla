--------------------------- MODULE MCDocumentSave ---------------------------
(* Instances of DocumentSave for TLC: two windows are enough for a save      *)
(* that meets another's, two rows for a record created twice.                *)
EXTENDS DocumentSave, TLC

Symmetry == Permutations(Windows)
=============================================================================
