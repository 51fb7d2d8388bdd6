SPECIFICATION Spec
CONSTANTS
    main = main
    vars_tf = vars_tf
    p1 = p1
    p2 = p2
    None = None
    Proc <- Procs
    Version <- Versions
    Pin <- Pins
    File <- Files
    Scenarios <- Constraints
    MaxTries = 2
    MaxRuns = 2
INVARIANTS PinRespected
CHECK_DEADLOCK FALSE
