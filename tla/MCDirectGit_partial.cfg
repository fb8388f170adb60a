\* Three clones of single branches, one after the other, no fault.
SPECIFICATION Spec
CONSTANTS
    c1 = c1  c2 = c2  c3 = c3  d2 = d2
    main = main  dev = dev
    Commits = {c1, c2, c3, d2}
    Branches = {main, dev}
    Parents <- MCParents
    Tips <- MCTips
    Manifest <- MCManifest
    Workers = {w1}
    Warmed <- MCCold
    Intents <- BranchIntents
    MaxLocalDepth = 2
    CommitReadThrough = TRUE
    MaxRequests = 3
    MaxFaults = 0
INVARIANTS
    FullClonesWhole
\* Every request has been answered.
CHECK_DEADLOCK FALSE
