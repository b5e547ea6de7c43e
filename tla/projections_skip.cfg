CONSTANTS
    Users = {u1}
    NoUser = NoUser
    Handlers = {h1}
    NoMessage = NoMessage
    MaxClock = 3
    MaxMessages = 3
    MaxSkew = 0
SPECIFICATION Spec
INVARIANT
    SkippedIsStale
CHECK_DEADLOCK FALSE
