SPECIFICATION Spec
CONSTANTS
    Files = {1}
    Contents = {a}
    Absent = Absent
    Torn = Torn
    Clients = {c1, c2}
    Boot = Boot
    Keep = 0
    MaxClock = 2
    MaxCrashes = 0
    MaxFailures = 0
SYMMETRY Symmetry
INVARIANTS
    ArchiveBound
