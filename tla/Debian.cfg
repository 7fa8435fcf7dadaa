SPECIFICATION Spec
CONSTANTS
    None = None
    Empty = Empty
    Names <- AllNames
    MacOf <- NicMacs
    Docs <- AllDocs
    Files <- AllFiles
    MaxCalls = 3
    MaxFailures = 1
    MaxForeign = 1
INVARIANTS
    TypeOK
PROPERTIES
    DefineEffect
    UndefineEffect
    StartsAtBoot
    ReadsBack
