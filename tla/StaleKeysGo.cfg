SPECIFICATION Spec
CONSTANTS
    ip = ip  user = user
    Ip = {ip}
    User = {}
    Req = {r1, r2}
    IpLimit = 1
    UserLimit = 2
    W = 1
    Delay = 1
    Evictions <- NoEviction
    Busy = {0, 1}
    Horizon = 5
INVARIANTS
    StaleKeysGo
CHECK_DEADLOCK FALSE
