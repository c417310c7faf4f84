\* Two users, two paths, two stats, two requests in flight: creations, renames, reads
\* and deletions that meet between the two statements of a handler.
SPECIFICATION Spec
CONSTANTS
    Users = {u1, u2}
    Nobody = nobody
    PathNames = {pn, qn}
    StatNames = {a, b}
    Counts = {0, 1}
    Settings = {dflt, other}
    DefaultSettings = dflt
    MaxPathId = 2
    Requests = {r1, r2}
SYMMETRY Symmetry
CONSTRAINT
    Small
INVARIANTS
    TypeOK
    ForeignKeys
    UniqueKeys
    PendingOwned
PROPERTIES
    EditsByOwner
    QuotalessPaid
    BookKept
    SeenAllowed
