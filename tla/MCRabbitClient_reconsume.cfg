SPECIFICATION FairSpec
CONSTANTS
    Requests = {r1}
    MaxMails = 1
    MaxLosses = 1
CHECK_DEADLOCK FALSE
PROPERTIES
    ReConsumes
