SPECIFICATION FairSpec
CONSTANTS
    a = a
    b = b
    c = c
    l1 = l1
    l2 = l2
    r = r
    in = in
    None = None
    Mod <- Mods
    Order <- Abc
    Local <- Locals
    Rsrc <- Rsrcs
    Input <- Inputs
    Dirs <- AllDirs
INVARIANTS TypeOK RunningOnce SettledAll DirectSeen Coherent FixpointComplete
PROPERTIES EvaluatedOnce Terminates
CHECK_DEADLOCK FALSE
