CONSTANTS
    Tickets = {t1}
    Devices = {d1, d2}
    NoDevice = NoDevice
    Requests = {r1, r2}
    Staff = {}
    NoTask = NoTask
SPECIFICATION Spec
PROPERTY
    BindingImmutable
