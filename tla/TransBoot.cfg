SPECIFICATION Spec
CONSTANTS
    Files = {1, 2}
    Contents = {a, b}
    Absent = Absent
    Torn = Torn
    Clients = {c1}
    Boot = Boot
    Keep = 1
    MaxClock = 1
    MaxCrashes = 1
    MaxFailures = 0
PROPERTIES
    BootReverts
