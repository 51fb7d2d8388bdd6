SPECIFICATION FairCheckedSpec
CONSTANTS
    A = A
    B = B
    C = C
    x = x
    y = y
    None = None
    Res <- Three
    Attr <- TwoAttrs
    Ranks <- SmallRanks
    Dirs <- AllDirs
INVARIANTS TypeOK AcyclicExact SoundValues VerifyExact
PROPERTIES Implements Terminates
