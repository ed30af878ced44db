SPECIFICATION Spec
CONSTANTS
    u1 = u1  u2 = u2  s1 = s1  s2 = s2  s3 = s3  r1 = r1  r2 = r2  r3 = r3
    User = {u1}
    Req = {r1, r2, r3}
    Seed = {s1}
    Held <- OneHolder
    Rank <- Ranks
    Aging = {}
    NoUser = NoUser
    NoToken = NoToken
INVARIANTS
    TypeOK
    RefreshNeedsLiveToken
    AnswersAreDurable
    RotationKillsParent
    LogoutTakesHold
CHECK_DEADLOCK FALSE
