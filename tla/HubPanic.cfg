\* A signal is relayed to a device that disconnects.
CONSTANTS
    da = da
    db = db
    c1 = c1
    c2 = c2
    c3 = c3
    None = None
    Devices = {da, db}
    Conns = {c1, c2}
    DeviceOf <- TwoDevices
    Notifiers = {}
    Capacity = 1
    MessageKinds = {"session_signal"}
    MayStop = FALSE
    MayFail = FALSE
SPECIFICATION Spec
CHECK_DEADLOCK FALSE
INVARIANTS NoUnrecoveredPanic
