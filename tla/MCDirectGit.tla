---------------------------- MODULE MCDirectGit ----------------------------
(***************************************************************************)
(* Instances of DirectGit.  main is c1 <- c2 <- c3, dev is c1 <- d2.       *)
(***************************************************************************)
EXTENDS DirectGit, TLC

CONSTANTS c1, c2, c3, d2, main, dev

MCParents == c1 :> {} @@ c2 :> {c1} @@ c3 :> {c2} @@ d2 :> {c1}
MCTips == main :> c3 @@ dev :> d2

\* The generation of c2 does not hold its parent.
MCManifest == c1 :> {} @@ c2 :> {c2} @@ c3 :> {c1, c2, c3} @@ d2 :> {}

Clone == [wants |-> {c3, d2}, blobs |-> {}, blobless |-> FALSE, depth |-> 0,
          from |-> {}, proof |-> MCTips]
OldProof == [Clone EXCEPT !.wants = {c2, d2}, !.proof = [MCTips EXCEPT ![main] = c2]]
Blobless == [Clone EXCEPT !.wants = {d2}, !.blobless = TRUE]
BlobStorm == [Blobless EXCEPT !.wants = {}, !.blobs = {d2}]
Shallow == [Clone EXCEPT !.wants = {c3}, !.depth = 1]
Checkout == [Shallow EXCEPT !.wants = {c2}]
Depth2 == [Clone EXCEPT !.wants = {c3}, !.depth = 2]
Deepen == [Clone EXCEPT !.depth = 2, !.from = {c3}]

\* What Blobless leaves, and what Shallow leaves where a full clone was made
\* before c3 was pushed.
AfterBlobless == [exists |-> TRUE, commits |-> {c1, d2}, blobs |-> {}, refs |-> {d2},
                  shallow |-> {}, partial |-> TRUE, suspect |-> FALSE]
AfterPush == [exists |-> TRUE, commits |-> {c1, c2, c3, d2}, blobs |-> {c1, c2, c3, d2},
              refs |-> {c2, c3, d2}, shallow |-> {c3}, partial |-> FALSE, suspect |-> FALSE]
MCWarmed == {AfterBlobless, AfterPush}
MCCold == {}

\* Full clones of every branch, and the rest.
MirrorIntents == {Clone, OldProof, Blobless, BlobStorm, Shallow, Checkout, Depth2, Deepen}

\* Clones of one branch.
BranchIntents == {[Clone EXCEPT !.wants = {c3}], [Clone EXCEPT !.wants = {d2}], Blobless}
=============================================================================
