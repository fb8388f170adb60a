\* A publisher and the compaction job with its sweep, each operation within
\* OpDeadline, the retention window twice as long, one failure at any point.
SPECIFICATION WarmSpec
CONSTANTS
    c1 = c1  c2 = c2  c3 = c3  c4 = c4  b1 = b1  n1 = n1  n2 = n2  w1 = w1  k1 = k1
    Commits = {c1, c2, c3}
    Anc <- ChainAnc
    Branches = {b1}
    NoCommit = NoCommit
    FirstCommit <- OneBranch
    Nodes = {n1, n2}
    Workers = {w1}
    NodeOf <- ApiNode
    Compactors = {k1}
    ScratchOf <- ScratchDisk
    ForcePush = FALSE
    HeadCasMaxAttempts = 2
    Threshold = 1
    Retention = 2
    OpDeadline = 1
    MaxGen = 4
    MaxTime = 6
    MaxFaults = 1
\* Generation ids run out: a bound of the model, not of the code.
CHECK_DEADLOCK FALSE
INVARIANT CompactionTypeOK HeadKept TipsCovered SnapshotsApply
PROPERTY HeadAdvancesAlways
