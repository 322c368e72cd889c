-------------------------- MODULE MCRecordEditing --------------------------
(* An instance of RecordEditing for TLC.  One window is enough: what it      *)
(* meets here is the tab.                                                    *)
EXTENDS RecordEditing
=============================================================================
