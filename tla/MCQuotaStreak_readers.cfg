\* Two stats, two requests for the page, half hours, periods of one and two hours.
SPECIFICATION Spec
CONSTANTS
    Names = {a, b}
    None = none
    Readers = {r1, r2}
    Counts = {0, 1}
    Quotas = {1}
    Hours = {1, 2}
    DefaultHours = 1
    TicksPerHour = 2
    MaxTime = 5
    MaxClimb = 2
SYMMETRY Symmetry
CONSTRAINT Explored
INVARIANTS
    TypeOK
    CreditBacked
    StreakBound
PROPERTIES
    OncePerPeriodAlone
