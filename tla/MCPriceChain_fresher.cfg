SPECIFICATION Spec
CONSTANTS
    p1 = p1
    p2 = p2
    k1 = k1
    None = None
    Proc <- OneProc
    Key <- OneKey
    Catalog <- KeyOne
    Indexed <- NoKey
    Flags <- DiskOnly
    TTL = 1
    MaxRun = 2
    MaxTime = 2
    Flaky = FALSE
PROPERTY LiveBeatsCatalog
