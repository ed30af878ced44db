SPECIFICATION Spec
CONSTANTS
    Req = {r1, r2, r3, r4}
    Email = {e1, e2}
    Name = {n1, n2}
    None = None
SYMMETRY Alike
INVARIANTS
    IInv
    RefusalsHaveCause
    AnswersMatchRows
    VerifiedHasTrail
    NoWaitCycle
PROPERTIES
    BookSpec
CHECK_DEADLOCK FALSE
