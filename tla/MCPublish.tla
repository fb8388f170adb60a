----------------------------- MODULE MCPublish -----------------------------
(* Small instances of Publish.                                             *)
EXTENDS Publish, TLC

CONSTANTS c1, c2, b1, n1, n2, w1, w2

\* One branch, whose only push is a fast-forward.
ShortCommits == {c1, c2}
ShortAnc == (c1 :> {c1}) @@ (c2 :> {c1, c2})
OneBranch == b1 :> c1

OwnNode == (w1 :> n1) @@ (w2 :> n2)
SharedNode == (w1 :> n1) @@ (w2 :> n1)
=============================================================================
