SPECIFICATION Spec
CONSTANTS
    main = main
    vars_tf = vars_tf
    p1 = p1
    p2 = p2
    None = None
    Proc <- Procs
    Version <- Versions
    Pin <- Pins
    File <- Files
    Scenarios <- AllScenarios
    MaxTries = 2
    MaxRuns = 2
INVARIANTS TypeOK WholeUnlessShared SharedSettles NewestThatFits PinHonoured
CHECK_DEADLOCK FALSE
