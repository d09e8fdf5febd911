\* The repository's migrations and two logins from one address, limit two.
CONSTANTS
    tables = tables
    machine = machine
    key = key
    index = index
    path = path
    c1 = c1
    c2 = c2
    a1 = a1
    NoCall = NoCall
    Addresses = {a1}
    Calls = {c1, c2}
    Limit = 2
    Window = 1
    MaxTime = 5
    Last = 3
    Statements <- Files
    Tolerant = {tables, index}
    Shipped = 1
    SeedDevData = TRUE
SPECIFICATION Spec
SYMMETRY Alike
INVARIANTS TypeOK AttemptsAreBounded RecordedIsMade ListensOnSchema OnlyCutOnesFail
