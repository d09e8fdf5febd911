\* service.go:125 refuses to answer a request that is not pending.
CONSTANTS
    alice = alice
    bob = bob
    carol = carol
    da = da
    db = db
    h1 = h1
    h2 = h2
    s1 = s1
    s2 = s2
    None = None
    Users = {alice, bob}
    Devices = {da, db}
    OwnerOf <- TwoOwners
    RequestIds = {r1}
    SessionIds = {s1}
    Handlers = {h1, h2}
    TTL = 0
    MaxTime = 1
    Statuses = {TRUE}
    Droppable = {}
SPECIFICATION Spec
PROPERTIES AnswerIsFinal
