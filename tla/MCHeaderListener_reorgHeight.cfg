SPECIFICATION Spec
CONSTANTS
    main = main
    fork = fork
    Main = main
    Branches <- OneFork
    ForkHeight <- OneForkHeights
    Offset = 3
    MaxHeight = 5
    Threads = {t1}
    FaultKinds = {}
    MaxFaults = 0
INVARIANT SigHashAtTipOffset
CHECK_DEADLOCK FALSE
