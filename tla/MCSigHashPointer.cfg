SPECIFICATION SigHashSpec
CONSTANTS
    main = main
    fork = fork
    Main = main
    Branches <- OneFork
    ForkHeight <- OneForkHeights
    Offset = 3
    MaxHeight = 4
    Threads = {t1, t2}
    FaultKinds = {"disconnect", "crash", "subscribe", "ready", "register", "getHeaders"}
    MaxFaults = 1
    Readers = {r1}
    Torn = Torn
INVARIANTS TypeOK WindowIsAncestry SigHashIsBuried PointeeBuildsOnGiven
PROPERTIES OnlyReorgOverwrites WindowStaysFilled
SYMMETRY ThreadSymmetry
CHECK_DEADLOCK FALSE
