CONSTANTS
    Tickets = {t1}
    Devices = {d1}
    NoDevice = NoDevice
    Scanners = {s1, s2}
    Staff = {}
    NoTask = NoTask
    Done = Done
    MaxNonce = 1
    MaxFailures = 1
SPECIFICATION Spec
INVARIANT
    ReplayMeansUsed
CHECK_DEADLOCK FALSE
