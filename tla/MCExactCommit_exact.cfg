\* Requests for a branch, its commits and short commits on two nodes, one of
\* which may fail or lose its repository: a commit is indexed in one generation
\* while another one becomes the head.
SPECIFICATION ExactSpec
CONSTANTS
    c1 = c1  c2 = c2  b1 = b1  n1 = n1  n2 = n2  w1 = w1  w2 = w2
    Commits = {c1, c2}
    Anc <- LineAnc
    Branches = {b1}
    NoCommit = NoCommit
    FirstCommit <- OneBranch
    Nodes = {n1, n2}
    Workers = {w1, w2}
    NodeOf <- OwnNode
    ForcePush = FALSE
    HeadCasMaxAttempts = 1
    MaxGen = 2
    MaxTime = 1
    MaxFaults = 1
\* Generation ids run out: a bound of the model, not of the code.
CHECK_DEADLOCK FALSE
SYMMETRY SwapNodes
INVARIANT CompleteManifests TipsCovered
PROPERTY ImplementsDurableCache
