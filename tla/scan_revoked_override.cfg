CONSTANTS
    Tickets = {t1}
    Devices = {d1}
    NoDevice = NoDevice
    Scanners = {s1}
    Staff = {p1, p2}
    NoTask = NoTask
    Done = Done
    MaxNonce = 1
    MaxFailures = 0
SPECIFICATION Spec
PROPERTY
    RevokedNotOverridden
CHECK_DEADLOCK FALSE
