\* A publish, a compaction and its sweep over a generation left behind by an
\* earlier compaction that lost its head CAS; nothing fails.
SPECIFICATION StrandedSpec
CONSTANTS
    c1 = c1  c2 = c2  c3 = c3  c4 = c4  b1 = b1  n1 = n1  n2 = n2  w1 = w1  k1 = k1
    Commits = {c1, c2, c3, c4}
    Anc <- LongAnc
    Branches = {b1}
    NoCommit = NoCommit
    FirstCommit <- OneBranch
    Nodes = {n1, n2}
    Workers = {w1}
    NodeOf <- ApiNode
    Compactors = {k1}
    ScratchOf <- ScratchDisk
    ForcePush = FALSE
    HeadCasMaxAttempts = 2
    Threshold = 1
    Retention = 2
    OpDeadline = 1
    MaxGen = 6
    MaxTime = 8
    MaxFaults = 0
\* Generation ids run out: a bound of the model, not of the code.
CHECK_DEADLOCK FALSE
INVARIANT HeadRestorable
