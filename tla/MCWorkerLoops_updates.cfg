\* The cron loop, the event intake and a read-through caller that may go away, with
\* two targets of one repository.
SPECIFICATION LoopSpec
CONSTANTS
    main = main
    topic = topic
    r1 = r1
    Callers = {cronLoop, intakeLoop, reader}
    Cron = cronLoop
    Intake = intakeLoop
    CronJobs <- BothJobs
    UpdateKeys = {main, topic}
    LeaseRepos = {r1}
    RepoOfKey <- SameRepo
    HintKeys = {topic}
    HintCapacity = 1
    MaxTicks = 1
    MaxHints = 1
    MaxReads = 1
    MaxEntries = 4
INVARIANTS
    CoordinatorTypeOK
    LeaseHeldByTask
    OneUpdatePerKey
PROPERTIES
    JoinersAnsweredUnlessAbandoned
    KeysFreedUnlessAbandoned
    LoopsStop
    HintsTaken
\* The loops have ended and the readers have been answered.
CHECK_DEADLOCK FALSE
