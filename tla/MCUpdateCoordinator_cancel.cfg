\* The owner of an update goes away while others wait for it.
SPECIFICATION FairCoordinatorSpec
CONSTANTS
    main = main
    topic = topic
    r1 = r1
    Callers = {a, b, c}
    UpdateKeys = {main, topic}
    LeaseRepos = {r1}
    RepoOfKey <- SameRepo
    MaxEntries = 1
PROPERTIES
    JoinersAnswered
CHECK_DEADLOCK FALSE
