SPECIFICATION Spec
CONSTANTS
    None = None
    Empty = Empty
    Macs = {"m0", "m1", "m2"}
    Names <- AllNames
    MacOf <- NicMacs
    Docs <- NamedDocs
    Stores <- TestStores
    MaxFailures = 1
    MaxForeign = 1
INVARIANTS
    TypeOK
    Fit
    ListsTopLevel
PROPERTIES
    DefineEffect
    UndefineEffect
    DescribesDefined
