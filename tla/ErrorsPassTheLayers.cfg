SPECIFICATION Spec
CONSTANTS
    r1 = r1  r2 = r2  r3 = r3
    Req = {r1, r2}
    Worker = {w1}
    Size = 1
    Overflow = 1
    Kinds <- Calls
    Mortal = {}
    Nowhere = Nowhere
    Nobody = Nobody
INVARIANTS
    ErrorsPassTheLayers
CHECK_DEADLOCK FALSE
