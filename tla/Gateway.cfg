SPECIFICATION FairSpec
CONSTANTS
    r1 = r1  r2 = r2  r3 = r3
    Req = {r1, r2, r3}
    Worker = {w1, w2}
    Size = 1
    Overflow = 1
    Kinds <- Sent
    Mortal = {w1}
    Nowhere = Nowhere
    Nobody = Nobody
INVARIANTS
    IInv
    GaugeExact
    CountersAgree
    CallsAreCharged
    PoolExact
    WaitersHaveHope
PROPERTIES
    FreshConnections
    StepsRunOut
    EveryCallEnds
CHECK_DEADLOCK FALSE
