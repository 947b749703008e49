SPECIFICATION Spec
CONSTANTS
    t1 = t1
    t2 = t2
    v = v
    p1 = p1
    p2 = p2
    None = None
    Names <- MCNames
    Fold <- MCFold
    Tsgs <- MCTsgs
    Vals <- MCVals
    MaxTenants = 2
    Sources <- MCSources
    Procs <- MCProcs
    Stores <- MCStores
    MaxStarts = 2
    MaxFaults = 3
SYMMETRY Symmetry
INVARIANTS TypeOK TenantsUsable
PROPERTIES ReportHonest ActsAtOnce
CHECK_DEADLOCK FALSE
