---------------------------- MODULE MCCompaction ----------------------------
(* Small instances of Compaction.                                          *)
EXTENDS Compaction, TLC

CONSTANTS c1, c2, c3, c4, b1, n1, n2, w1, k1

ChainAnc == (c1 :> {c1}) @@ (c2 :> {c1, c2}) @@ (c3 :> {c1, c2, c3})
LongAnc == ChainAnc @@ (c4 :> {c1, c2, c3, c4})
OneBranch == b1 :> c1

\* The publisher runs on n1; the compaction job has a scratch disk, n2.
ApiNode == w1 :> n1
ScratchDisk == k1 :> n2

\* The state at time 3 after two publishes, of c1 at time 1 and of c2 at time 2:
\* the head generation carries two packs, enough for Threshold = 1.
Warm ==
    LET at(c) == [NoRefs EXCEPT ![b1] = c] IN
    /\ packAt = [p \in Pack |-> IF p = {c1} THEN 1 ELSE IF p = {c2} THEN 2 ELSE 0]
    /\ gens = [g \in Gens |->
            CASE g = 1 -> [at |-> 1, packs |-> {{c1}}, refs |-> at(c1), commits |-> {c1}]
              [] g = 2 -> [at |-> 2, packs |-> {{c1}, {c2}}, refs |-> at(c2), commits |-> {c2}]
              [] OTHER -> NoManifest]
    /\ commitGen = [c \in Commits |-> IF c = c1 THEN 1 ELSE IF c = c2 THEN 2 ELSE 0]
    /\ refGen = [b \in Branches |-> [commit |-> c2, gen |-> 2]]
    /\ head = [gen |-> 2, tips |-> {c1, c2}, at |-> 2]
    /\ nextGen = 3
    /\ clock = 3
    /\ upstream = [b \in Branches |-> c2]
    /\ objs = [n \in Nodes |-> IF n = n1 THEN {c1, c2} ELSE {}]
    /\ refs = [n \in Nodes |-> IF n = n1 THEN at(c2) ELSE NoRefs]
    /\ req = [w \in Workers |-> Idle]
    /\ faults = 0
    /\ comp = [k \in Compactors |-> IdleRun]
    /\ started = [a \in Workers \cup Compactors |-> 0]

WarmSpec == Warm /\ [][CompactionNext]_allVars

\* A state reached from Warm without a failure: at time 3 c3 was published while a
\* compaction of generation 2 ran, and at time 4 that compaction lost its CAS and
\* left generation 4 behind, newer than the head.  Nothing happened since.
Stranded ==
    LET at(c) == [NoRefs EXCEPT ![b1] = c] IN
    /\ packAt = [p \in Pack |-> CASE p = {c1} -> 1 [] p = {c2} -> 2 [] p = {c3} -> 3
                                  [] p = {c1, c2} -> 4 [] OTHER -> 0]
    /\ gens = [g \in Gens |->
            CASE g = 1 -> [at |-> 1, packs |-> {{c1}}, refs |-> at(c1), commits |-> {c1}]
              [] g = 2 -> [at |-> 2, packs |-> {{c1}, {c2}}, refs |-> at(c2), commits |-> {c2}]
              [] g = 3 -> [at |-> 3, packs |-> {{c1}, {c2}, {c3}}, refs |-> at(c3), commits |-> {c3}]
              [] g = 4 -> [at |-> 4, packs |-> {{c1, c2}}, refs |-> at(c2), commits |-> {c1, c2}]
              [] OTHER -> NoManifest]
    /\ commitGen = [c \in Commits |-> CASE c = c1 -> 1 [] c = c2 -> 2 [] c = c3 -> 3 [] OTHER -> 0]
    /\ refGen = [b \in Branches |-> [commit |-> c3, gen |-> 3]]
    /\ head = [gen |-> 3, tips |-> {c1, c2, c3}, at |-> 3]
    /\ nextGen = 5
    /\ clock = 7
    /\ upstream = [b \in Branches |-> c3]
    /\ objs = [n \in Nodes |-> IF n = n1 THEN {c1, c2, c3} ELSE {c1, c2}]
    /\ refs = [n \in Nodes |-> IF n = n1 THEN at(c3) ELSE at(c2)]
    /\ req = [w \in Workers |-> Idle]
    /\ faults = 0
    /\ comp = [k \in Compactors |-> IdleRun]
    /\ started = [a \in Workers \cup Compactors |-> 0]

StrandedSpec == Stranded /\ [][CompactionNext]_allVars
=============================================================================
