SPECIFICATION Spec
CONSTANTS
    p1 = p1
    p2 = p2
    k1 = k1
    None = None
    Proc <- OneProc
    Key <- OneKey
    Catalog <- KeyOne
    Indexed <- KeyOne
    Flags <- AllFlags
    TTL = 1
    MaxRun = 2
    MaxTime = 2
    Flaky = FALSE
INVARIANT CatalogDisclosed
