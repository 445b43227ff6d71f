SPECIFICATION FairSpec
CONSTANTS
    artifact = artifact
    sidecar = sidecar
    b1 = b1
    b2 = b2
    r1 = r1
    r2 = r2
    here = here
    there = there
    None = none
    Key = {artifact, sidecar}
    Body = {b1, b2}
    Published <- MCPublished
    Request = {r1, r2}
    Replica = {here, there}
    Stores = {"file", "blob", "r2"}
CHECK_DEADLOCK FALSE
INVARIANTS NothingUnverified FilledOnce NoPartsLeft
PROPERTY RequestsEnd
