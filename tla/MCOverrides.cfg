SPECIFICATION Spec
CONSTANTS
    r1 = r1
    r2 = r2
    r3 = r3
    v1 = v1
    Request = {r1, r2, r3}
    Version = {v1}
    MaxTime = 3
    Stores = {"d1", "postgres"}
SYMMETRY MCSymmetry
CHECK_DEADLOCK FALSE
INVARIANTS
    Consistent
    AcknowledgedTakesEffect
    EndsAtExpiry
    NewestDecides
