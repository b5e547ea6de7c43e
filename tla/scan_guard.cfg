CONSTANTS
    Tickets = {t1}
    Devices = {d1, d2}
    NoDevice = NoDevice
    Scanners = {s1, s2}
    Staff = {}
    NoTask = NoTask
    Done = Done
    MaxNonce = 1
    MaxFailures = 11
SPECIFICATION Spec
SYMMETRY Symmetry
INVARIANTS
    TypeOK
    AutoRevokeEarned
    PolicyRejectionsCauseNoReplay
PROPERTY RevocationIsFinal
CHECK_DEADLOCK FALSE
