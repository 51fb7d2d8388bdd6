SPECIFICATION Spec
CONSTANTS
    a1 = a1
    a2 = a2
    None = None
    Addr <- Addrs
    Item <- Items
    Inputs <- AllPairs
    MaxItems = 3
INVARIANTS TypeOK PairingOK EqualSpecsFirst EachItemOnce ReorderedSilent DeltaAddsUp
CHECK_DEADLOCK FALSE
