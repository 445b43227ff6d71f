SPECIFICATION FairSpec
CONSTANTS
    app = app
    lib = lib
    u1 = u1
    u2 = u2
    d1 = d1
    d2 = d2
    pypi = pypi
    mirror = mirror
    Name <- MCName
    File <- MCFile
    FileName <- MCFileName
    PublicName = {lib}
    Digest = {d1, d2}
    Index = {pypi, mirror}
    Upload = {u1, u2}
CHECK_DEADLOCK FALSE
INVARIANTS
    Consistent
    StorageSafe
    PublicNameNeedsApproval
    ToldTheTruth
PROPERTY UploadsEnd
