SPECIFICATION Spec
CONSTANTS
    Ids = {1, 2, 3, 4, 5}
    n1 = n1
    n2 = n2
    n3 = n3
    n4 = n4
    Names = {n1, n2, n3, n4}
    Addrs = {a1}
    Zero = {4}
    None = None
    InitNets <- MCInitNets
    MaxChanges = 2
    MaxCalls = 2
CHECK_DEADLOCK FALSE
INVARIANTS
    TypeOK
    Faithful
    Fresh
    OverflowNeedsChange
PROPERTIES
    CallReturns
