---------------------------- MODULE MCCommitQueue ----------------------------
(* An instance of CommitQueue for TLC: one domain may have a value on its    *)
(* way, one waiting and one replaced while the other writes.                 *)
EXTENDS CommitQueue
=============================================================================
