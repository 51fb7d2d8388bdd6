SPECIFICATION CheckedSpec
CONSTANTS
    A = A
    B = B
    C = C
    x = x
    y = y
    None = None
    Res <- Three
    Attr <- TwoAttrs
    Ranks <- SmallRanks
    Dirs <- TwoByTwo
INVARIANTS CycleDegrades
