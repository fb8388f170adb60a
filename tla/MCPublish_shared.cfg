\* Two requests share the bare repository of one node.
SPECIFICATION Spec
CONSTANTS
    c1 = c1  c2 = c2  b1 = b1  n1 = n1  n2 = n2  w1 = w1  w2 = w2
    Commits <- ShortCommits
    Anc <- ShortAnc
    Branches = {b1}
    NoCommit = NoCommit
    FirstCommit <- OneBranch
    Nodes = {n1}
    Workers = {w1, w2}
    NodeOf <- SharedNode
    ForcePush = FALSE
    HeadCasMaxAttempts = 2
    MaxGen = 3
    MaxTime = 2
    MaxFaults = 0
\* Generation ids run out: a bound of the model, not of the code.
CHECK_DEADLOCK FALSE
INVARIANT CompleteManifests
