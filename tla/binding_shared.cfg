CONSTANTS
    Tickets = {t1, t2}
    Devices = {d1}
    NoDevice = NoDevice
    Requests = {r1, r2}
    Staff = {}
    NoTask = NoTask
SPECIFICATION Spec
INVARIANT
    SiblingsUnbound
