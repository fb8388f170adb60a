\* Two repositories, two scratch ids, two usable units and two instants: space is
\* contended by reservations and repositories while accesses are buffered.
SPECIFICATION DiskSpec
CONSTANTS
    Repos = {r1, r2}
    Ids = {i1, i2}
    MaxUsable = 2
    MaxReserve = 1
    MaxLocks = 1
    MaxBuffered = 2
    MaxFailed = 1
    MaxTime = 2
SYMMETRY Symmetric
INVARIANTS
    DiskTypeOK
    NoOverAllocation
    NoOrphanScratch
    AccessesKept
PROPERTIES
    PinnedKept
\* Every id may be in use and the clock stops at MaxTime.
CHECK_DEADLOCK FALSE
