SPECIFICATION FairSpec
CONSTANTS
    main = main
    fork = fork
    Main = main
    Branches <- OneFork
    ForkHeight <- OneForkHeights
    Offset = 3
    MaxHeight = 4
    Threads = {t1, t2}
    FaultKinds = {"disconnect", "crash", "subscribe"}
    MaxFaults = 1
PROPERTY FollowsTip
CHECK_DEADLOCK FALSE
