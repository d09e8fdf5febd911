\* Two devices ask each other; one of them loses messages and replies.
CONSTANTS
    da = da
    db = db
    r1 = r1
    r2 = r2
    None = None
    Devices = {da, db}
    Requests = {r1, r2}
    From <- Askers
    To <- Asked
    MaxSessions = 2
    Unlucky = {da}
    Screens = {db}
    MaxStarts = 1
SPECIFICATION Spec
INVARIANTS TypeOK ShownIsConsented InputFollowsRole StraysAreOverlaps StaleWasTold
CONSTRAINT OneTrouble
CHECK_DEADLOCK FALSE
