\* README.md:13 against HandleCreateStat.
SPECIFICATION Spec
CONSTANTS
    Users = {u1}
    Nobody = nobody
    PathNames = {pn}
    StatNames = {a, b}
    Counts = {0}
    Settings = {dflt, other}
    DefaultSettings = dflt
    MaxPathId = 1
    Requests = {r1, r2}
SYMMETRY Symmetry
INVARIANT
    EveryStatHasQuota
