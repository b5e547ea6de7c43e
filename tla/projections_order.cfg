CONSTANTS
    Users = {u1, u2}
    NoUser = NoUser
    Handlers = {h1, h2}
    NoMessage = NoMessage
    MaxClock = 4
    MaxMessages = 2
    MaxSkew = 1
SPECIFICATION Spec
SYMMETRY Symmetry
INVARIANTS
    TypeOK
    AccessNotLost
PROPERTIES
    NeverBack
CHECK_DEADLOCK FALSE
