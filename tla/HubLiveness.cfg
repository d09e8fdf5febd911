\* One device that reconnects, with the messages the client sends, failing writes, restarts.
CONSTANTS
    da = da
    db = db
    c1 = c1
    c2 = c2
    c3 = c3
    None = None
    Devices = {da}
    Conns = {c1, c2}
    DeviceOf <- OneDevice
    Notifiers = {"n1"}
    Capacity = 1
    MessageKinds = {"heartbeat"}
    MayStop = TRUE
    MayFail = TRUE
SPECIFICATION FairSpec
CHECK_DEADLOCK FALSE
 
PROPERTIES LostIsCleanedUp ConnectedIsOnline
