SPECIFICATION Spec
CONSTANTS
    NoTime = NoTime
    MinimumAge = 3
    FallbackAge = 1
    AllowMissing = FALSE
    Version = {1, 2, 3}
    MaxTime = 6
    Files <- MCFiles
CHECK_DEADLOCK FALSE
INVARIANTS
    FallbackIsLastResort
    TimedFallbackAdmits
PROPERTIES
    OnlyFallbacksDisappear
    NeverGoesDark
