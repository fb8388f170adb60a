------------------------ MODULE MCUpdateCoordinator ------------------------
(* Small instances of UpdateCoordinator.                                   *)
EXTENDS UpdateCoordinator, TLC

CONSTANTS main, topic, r1

\* Two targets of one repository.
SameRepo == (main :> r1) @@ (topic :> r1)
=============================================================================
