\* doc/features.txt:14 against two requests for the page at once.
SPECIFICATION Spec
CONSTANTS
    Names = {a}
    None = none
    Readers = {r1, r2}
    Counts = {0, 1, 2}
    Quotas = {0, 1}
    Hours = {1}
    DefaultHours = 1
    TicksPerHour = 1
    MaxTime = 4
    MaxClimb = 3
SYMMETRY Symmetry
PROPERTY
    OncePerPeriod
