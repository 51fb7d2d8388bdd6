SPECIFICATION Spec
CONSTANTS
    p1 = p1
    p2 = p2
    k1 = k1
    None = None
    Proc <- TwoProcs
    Key <- OneKey
    Catalog <- KeyOne
    Indexed <- KeyOne
    Flags <- AllFlags
    TTL = 1
    MaxRun = 2
    MaxTime = 5
    Flaky = TRUE
INVARIANTS TypeOK DiskProvenance BoundedStaleness FirstHandDisclosed
PROPERTY StableWithinRun
SYMMETRY ProcSymmetry
CONSTRAINT OverlapBound
