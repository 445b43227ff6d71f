SPECIFICATION Spec
CONSTANTS
    r1 = r1
    p1 = p1
    p2 = p2
    d1 = d1
    NoTime = NoTime
    MinimumAge = 2
    FallbackAge = 1
    AllowMissing = FALSE
    MetadataTTL = 0
    Version = {1, 2}
    Replica = {r1}
    Page = {p1, p2}
    Download = {d1}
    On <- MCOn
    Settings <- MCSettings
    Default <- MCDefault
    InitialFiles <- MCInitialFiles
    Exposed = {1}
    Overridable = {2}
    MaxTime = 2
    Quiet = 2
    MaxChanges = 1
SYMMETRY MCSymmetry
CHECK_DEADLOCK FALSE
INVARIANTS
    Consistent
    AdmittedWithCause
    PageMarks
    PageLastResort
PROPERTIES
    MetadataCurrent

