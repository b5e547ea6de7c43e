CONSTANTS
    i1 = i1
    i2 = i2
    g1 = g1
    g2 = g2
    s1 = s1
    s2 = s2
    Messages <- MCMessages
    Guests <- MCGuests
    Handlers = {h1, h2}
    NoMessage = NoMessage
    NoTicket = NoTicket
    MaxTickets = 3
    MaxDeletions = 1
SPECIFICATION Spec
SYMMETRY Symmetry
INVARIANTS
    TypeOK
    FinishedMeansAnnounced
    OneTicketAtATime
    LinkedGuestsHadTheTicket
    DeletionLasts
    FewLateMilestones
PROPERTY
    ImplementsLedger
CHECK_DEADLOCK FALSE
