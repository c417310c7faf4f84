SPECIFICATION PageSpec
CONSTANTS
    Tabs = {t1, t2}
    None = none
    MaxToken = 3
CONSTRAINT
    Explored
INVARIANTS
    TypeOK
    CookiesMatch
    CalmSession
    PageTypeOK
PROPERTIES
    RefusedForGood
    SoloLogin
    Settles
