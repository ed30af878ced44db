SPECIFICATION Spec
CONSTANTS
    Req = {r1, r2}
    Email = {e1, e2}
    Name = {n1, n2}
    None = None
INVARIANTS
    SameErrorForDuplicates
CHECK_DEADLOCK FALSE
