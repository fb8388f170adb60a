\* Two overlapping requests of any kind and one fault, on a cold repository and on
\* two that earlier requests left.
SPECIFICATION Spec
CONSTANTS
    c1 = c1  c2 = c2  c3 = c3  d2 = d2
    main = main  dev = dev
    Commits = {c1, c2, c3, d2}
    Branches = {main, dev}
    Parents <- MCParents
    Tips <- MCTips
    Manifest <- MCManifest
    Workers = {w1, w2}
    Warmed <- MCWarmed
    Intents <- MirrorIntents
    MaxLocalDepth = 2
    CommitReadThrough = TRUE
    MaxRequests = 2
    MaxFaults = 1
INVARIANTS
    DirectTypeOK
    FullClonesWhole
    DepthServed
    FetchedKept
    LockHolderProceeds
PROPERTIES
    RefetchedWantsWhole
\* Every request has been answered.
CHECK_DEADLOCK FALSE
