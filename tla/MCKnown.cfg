SPECIFICATION Spec
CONSTANTS
    l1 = l1
    l2 = l2
    r1 = r1
    d1 = d1
    d2 = d2
    NoTime = NoTime
    MinimumAge = 1
    FallbackAge = 1
    AllowMissing = FALSE
    MetadataTTL = 0
    AdvisoryTTL = 2
    ActiveWindow = 1
    Version = {1}
    Listing = {l1, l2}
    Refresh = {}
    Download = {d1, d2}
    InitialFiles <- MCInitialFiles
    MaxTime = 1
    Overridable = {}
    MayClaim = FALSE
CHECK_DEADLOCK FALSE
SYMMETRY MCSymmetry
INVARIANT KnownStaysDenied
