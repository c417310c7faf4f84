SPECIFICATION Spec
CONSTANTS
    Tabs = {t1, t2}
    None = none
    MaxToken = 4
SYMMETRY Symmetry
INVARIANT
    LogoutEnds
