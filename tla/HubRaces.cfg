\* Two devices, one of which reconnects, every kind of message, restarts.
CONSTANTS
    da = da
    db = db
    c1 = c1
    c2 = c2
    c3 = c3
    None = None
    Devices = {da, db}
    Conns = {c1, c2, c3}
    DeviceOf <- Reconnects
    Notifiers = {}
    Capacity = 1
    MessageKinds = {"ping", "heartbeat", "session_signal", "other"}
    MayStop = TRUE
    MayFail = FALSE
SPECIFICATION Spec
SYMMETRY SameDevice
CHECK_DEADLOCK FALSE
INVARIANTS TypeOK EntriesAreLive ReplacedAreClosed
