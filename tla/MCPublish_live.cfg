\* Two requests on two nodes, one of which may fail or lose its repository:
\* a generation id for either, so that they race for the head.
SPECIFICATION FairSpec
CONSTANTS
    c1 = c1  c2 = c2  b1 = b1  n1 = n1  n2 = n2  w1 = w1  w2 = w2
    Commits <- ShortCommits
    Anc <- ShortAnc
    Branches = {b1}
    NoCommit = NoCommit
    FirstCommit <- OneBranch
    Nodes = {n1, n2}
    Workers = {w1, w2}
    NodeOf <- OwnNode
    ForcePush = FALSE
    HeadCasMaxAttempts = 2
    MaxGen = 2
    MaxTime = 2
    MaxFaults = 1
\* Generation ids run out: a bound of the model, not of the code.
CHECK_DEADLOCK FALSE
INVARIANT TypeOK DurablePointers
PROPERTY HeadAdvances RequestsEnd
