SPECIFICATION LoadSpec
CONSTANTS
    p1 = p1
    p2 = p2
    i1 = i1
    i2 = i2
    i3 = i3
    f = f
    g = g
    a = a
    b = b
    u = u
    w = w
    None = None
    Err = Err
    Proc <- Procs
    Inode <- Inodes
    Field <- Fields
    Indexed <- OneField
    Scenarios <- AllScenarios
    TTL = 1
INVARIANTS TypeOK DamageNeedsSharing LiveAgrees
PROPERTIES StaleBeatsFailure OneStepLoads
SYMMETRY Symmetry
