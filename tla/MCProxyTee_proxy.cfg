\* One response of any kind, cut into any chunks, a push, an asynchronous request
\* and an import of another repository competing with its follow-up.
SPECIFICATION Spec
CONSTANTS
    r1 = r1  c1 = c1  c2 = c2  main = main
    Responses = {r1}
    Branches = {main}
    Commits = {c1, c2}
    FirstTips <- MCFirst
    LaterTips <- MCLater
    Kinds <- MCKinds
    ChunkSizes = {1, 3}
    MaxBytes = 9
    MaxBuffer = 4
    Capacity = 2
    ImportPermits = 1
    JobPermits = 1
    MaxAsync = 1
    MaxPanics = 1
INVARIANTS
    ProxyTypeOK
    SpoolFaithful
    OneFollowUp
PROPERTIES
    FollowUpEnds
    ReservationsReturned
    ServedWantPublished
\* Everything has been answered.
CHECK_DEADLOCK FALSE
