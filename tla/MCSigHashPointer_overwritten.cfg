SPECIFICATION SigHashSpec
CONSTANTS
    main = main
    fork = fork
    Main = main
    Branches <- OneFork
    ForkHeight <- OneForkHeights
    Offset = 3
    MaxHeight = 4
    Threads = {t1}
    FaultKinds = {}
    MaxFaults = 0
    Readers = {r1}
    Torn = Torn
INVARIANT ReturnedHashIsSigned
CHECK_DEADLOCK FALSE
