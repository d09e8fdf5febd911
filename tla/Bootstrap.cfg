\* Two chains of calls at a time.
CONSTANTS
    Identities = {1, 2, 3, 4}
    Limit = 2
    t1 = t1
    t2 = t2
    Tasks = {t1, t2}
    None = None
SPECIFICATION FairSpec
INVARIANTS TypeOK DeviceHasToken ChainsAreShort MismatchIsSkipped
PROPERTIES TasksEnd Reconnects
