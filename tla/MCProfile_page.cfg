SPECIFICATION AllSpec
CONSTANTS
    None = none
    Users = {u1, u2}
    Names = {n1, n2, n3}
    Tabs = {t1, t2}
    Requests = {r1, r2}
    NoPool = nil
    Pools = {p1, p2, p3, p4}
    Statements = {s1, s2}
    NoPicture = nothing
    short = short
    long = long
    Owners = {o1, o2}
    Pictures <- MCPictures
    Length <- MCLength
    Uploads = {v1, v2}
SYMMETRY Symmetry
INVARIANTS
    TypeOK
    SavedShown
    ClientTypeOK
    OnePool
    AvatarKept
PROPERTIES
    ServesAgain
