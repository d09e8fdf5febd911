\* One call at a time, one request that is started more than once.
CONSTANTS
    alice = alice
    bob = bob
    carol = carol
    da = da
    db = db
    h1 = h1
    h2 = h2
    None = None
    s1 = s1
    s2 = s2
    Users = {alice, bob, carol}
    Devices = {da, db}
    OwnerOf <- TwoOwners
    RequestIds = {r1}
    SessionIds = {s1, s2}
    Handlers = {h1}
    TTL = 0
    MaxTime = 0
    Statuses = {TRUE, FALSE}
    Droppable = {}
SPECIFICATION Spec
SYMMETRY SerialSymmetry
INVARIANTS TokenConfined
PROPERTIES SerialImplementsLifecycle
