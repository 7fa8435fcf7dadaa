SPECIFICATION Spec
CONSTANTS
    Files = {1, 2}
    Contents = {a, b}
    Absent = Absent
    Torn = Torn
    Clients = {c1}
    Boot = Boot
    Keep = 1
    MaxClock = 1
    MaxCrashes = 0
    MaxFailures = 1
PROPERTIES
    RollbackReverts
