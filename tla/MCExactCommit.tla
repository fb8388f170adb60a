--------------------------- MODULE MCExactCommit ---------------------------
(* A small instance of ExactCommit.                                        *)
EXTENDS ExactCommit, TLC

CONSTANTS c1, c2, b1, n1, n2, w1, w2

\* A branch that grows from c1 to c2, so that c1 never has to be a tip.
LineAnc == (c1 :> {c1}) @@ (c2 :> {c1, c2})
OneBranch == b1 :> c1
OwnNode == (w1 :> n1) @@ (w2 :> n2)
SwapNodes == {(w1 :> w2) @@ (w2 :> w1) @@ (n1 :> n2) @@ (n2 :> n1)}
=============================================================================
