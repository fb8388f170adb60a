--------------------------- MODULE MCDiskManager ---------------------------
(* Small instances of DiskManager.                                         *)
EXTENDS DiskManager, TLC

Symmetric == Permutations(Repos) \cup Permutations(Ids)
=============================================================================
