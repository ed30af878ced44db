SPECIFICATION Spec
CONSTANTS
    ip = ip  user = user
    Ip = {ip}
    User = {user}
    Req = {r1, r2, r3}
    IpLimit = 1
    UserLimit = 2
    W = 2
    Delay = 1
    Evictions <- OneEviction
    Busy = {0, 1, 2}
    Horizon = 4
SYMMETRY Alike
INVARIANTS
    IInv
    WindowQuota
    IntervalQuota
    RefusalsEarned
    OnlyFailuresLeakKeys
PROPERTIES
    RetryAfterHonest
    CounterSpec
CHECK_DEADLOCK FALSE
