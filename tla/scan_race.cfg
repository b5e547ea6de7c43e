CONSTANTS
    Tickets = {t1}
    Devices = {d1}
    NoDevice = NoDevice
    Scanners = {s1, s2}
    Staff = {p1, p2}
    NoTask = NoTask
    Done = Done
    MaxNonce = 2
    MaxFailures = 0
SPECIFICATION Spec
SYMMETRY Symmetry
INVARIANTS
    AcceptedOnceInOrder
    AtMostOneLateAccept
    EntriesAndExitsAlternate
    InsideWasCheckedIn
    NoTokenAhead
PROPERTIES
    CheckInKept
    LateOverridesRunOut
    ImplementsAdmission
CHECK_DEADLOCK FALSE
