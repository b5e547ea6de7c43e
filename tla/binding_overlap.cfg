CONSTANTS
    Tickets = {t1, t2, t3}
    Devices = {d1, d2}
    NoDevice = NoDevice
    Requests = {r1, r2}
    Staff = {p1}
    NoTask = NoTask
SPECIFICATION Spec
SYMMETRY Symmetry
INVARIANTS
    TypeOK
    SharedOnlyByOverlap
PROPERTIES
    RebindOnlyByOverlap
    ActivationAloneIsExclusive
    ImplementsRegistry
