CONSTANTS
    Scans = {s1}
    Writers = {w1, w2}
    Queries = {q1}
    Tickets = {t1, t2}
    PoolSize = 3
    MaxQueue = 2
    Nobody = Nobody
SPECIFICATION FairSpec
INVARIANTS
    TypeOK
    GridlockNeedsCrowd
PROPERTIES
    EveryRequestAnswered
    EveryQueryServed
