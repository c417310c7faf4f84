\* One page, two stats of two names, two requests under way.
SPECIFICATION FairSpec
CONSTANTS
    Names = {a, b}
    None = none
    Slots = {q1, q2}
    Counts = {0, 1}
    MaxStats = 2
    MaxEdits = 3
CONSTRAINT
    Explored
INVARIANTS
    TypeOK
    PageMatches
    NothingLost
PROPERTIES
    FieldKeepsItsMeaning
    CountArrives
