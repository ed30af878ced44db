SPECIFICATION Spec
CONSTANTS
    User = {u1, u2}
    Pair = {p1, p2}
    Mail = {m1}
    Req = {r1}
    AccessLife = 1
    RefreshLife = 2
    MailLife = 2
    ListTtl = 1
    Zones <- Offsets
    Super = {u1}
    Fickle = {u1}
    Horizon = 3
    Nobody = Nobody
    NoToken = NoToken
SYMMETRY Symmetric
INVARIANTS
    IInv
    OneDoorPerToken
    ServedAreCharged
    LockoutEnds
PROPERTIES
    RefreshOutlivesAccess
    LedgerSpec
CHECK_DEADLOCK FALSE
