SPECIFICATION FairSpec
CONSTANTS
    Statuses = {0, 1, 199}
    PipeSize = 2
    MaxOutput = 3
INVARIANTS
    TypeOK
    CompleteOnSuccess
PROPERTIES
    Returns
