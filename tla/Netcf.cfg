SPECIFICATION Spec
CONSTANTS
    Drivers = {"redhat", "freebsd"}
    Handles = {h1, h2, h3}
    NULL = NULL
    MaxIfaces = 2
    MaxRefs = 5
INVARIANTS
    TypeOK
    RefExact
    NoDangling
    NothingLeaks
