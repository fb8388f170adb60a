---------------------------- MODULE DurableCache ----------------------------
(***************************************************************************)
(* What the cache promises of one repository, whatever nodes and requests  *)
(* do: a commit that was made durable stays durable, a materialize request *)
(* is answered with success only for a durable commit, and the head names  *)
(* only durable commits as tips.                                           *)
(***************************************************************************)
CONSTANT Commits

VARIABLES
    durable,     \* commits a node with an empty cache can restore from the store
    answered,    \* commits that were reported as materialized
    tips         \* the tip commits of the generation head

Init == durable = {} /\ answered = {} /\ tips = {}

MakeDurable ==
    /\ \E c \in Commits \ durable : durable' = durable \cup {c}
    /\ UNCHANGED <<answered, tips>>

Answer ==
    /\ \E c \in durable : answered' = answered \cup {c}
    /\ UNCHANGED <<durable, tips>>

MoveHead ==
    /\ tips' \in SUBSET durable
    /\ UNCHANGED <<durable, answered>>

\* An index written by the request that it answers, and a head moved by one.
MakeDurableAndAnswer ==
    /\ \E c \in Commits : durable' = durable \cup {c} /\ answered' = answered \cup {c}
    /\ UNCHANGED tips

MoveHeadAndAnswer ==
    /\ tips' \in SUBSET durable
    /\ \E c \in durable : answered' = answered \cup {c}
    /\ UNCHANGED durable

Next == MakeDurable \/ Answer \/ MoveHead \/ MakeDurableAndAnswer \/ MoveHeadAndAnswer

Spec == Init /\ [][Next]_<<durable, answered, tips>>

=============================================================================
