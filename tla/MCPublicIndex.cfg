SPECIFICATION Spec
CONSTANTS
    l1 = l1
    l2 = l2
    r1 = r1
    d1 = d1
    d2 = d2
    NoTime = NoTime
    MinimumAge = 2
    FallbackAge = 1
    AllowMissing = FALSE
    MetadataTTL = 0
    AdvisoryTTL = 1
    ActiveWindow = 1
    Version = {1, 2}
    Listing = {l1}
    Refresh = {r1}
    Download = {d1}
    InitialFiles <- MCInitialFiles
    MaxTime = 2
    Overridable = {2}
    MayClaim = TRUE
CHECK_DEADLOCK FALSE
INVARIANTS
    ExposureBounded
    ListingMarks
    LastResort
    OwnedNeverPublic
    TargetKept
