SPECIFICATION FairSpec
CONSTANTS
    Files = {1, 2}
    Contents = {a, b}
    Absent = Absent
    Torn = Torn
    Clients = {c1}
    Boot = Boot
    Keep = 1
    MaxClock = 1
    MaxCrashes = 0
    MaxFailures = 0
INVARIANTS
    TypeOK
PROPERTIES
    RefinesAbstract
    Terminates
