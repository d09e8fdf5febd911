\* One upload of two attempts that overlap at the server.
CONSTANTS
    alice = alice
    bob = bob
    nell = nell
    da = da
    db = db
    dn = dn
    s1 = s1
    u1 = u1
    Users = {alice, bob, nell}
    Devices = {da, db, dn}
    OwnerOf <- Owners
    Sessions = {s1}
    Ends <- BothEnds
    Uploads = {u1}
    From <- Senders
    To <- Targets
    Via <- Within
    Renewed <- NewId
    Sizes = {1, 2}
    MaxFile = 1
    Attempts = 2
SPECIFICATION Spec
INVARIANTS TypeOK RowHasFile SuccessIsStored SentInSession ServedToEnds
PROPERTIES UploadEnds
CHECK_DEADLOCK FALSE
