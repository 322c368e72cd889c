----------------------------- MODULE MCDriveWatch -----------------------------
(* DriveWatch on a small installation: see DriveWatch.cfg.                  *)
EXTENDS DriveWatch, TLC

Symmetry ==
    Permutations(Workspaces) \cup Permutations(Files)
        \cup Permutations(Folders) \cup Permutations(Pollers)
=============================================================================
