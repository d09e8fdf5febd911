\* A device that reconnects while a heartbeat is being handled.
CONSTANTS
    da = da
    db = db
    c1 = c1
    c2 = c2
    c3 = c3
    None = None
    Devices = {da}
    Conns = {c1, c2}
    DeviceOf <- OneDevice
    Notifiers = {}
    Capacity = 1
    MessageKinds = {"heartbeat"}
    MayStop = FALSE
    MayFail = FALSE
SPECIFICATION FairSpec
CHECK_DEADLOCK FALSE
PROPERTIES DisconnectedIsOffline
