SPECIFICATION FairSpec
CONSTANTS
    Requests = {r1, r2}
    MaxMails = 2
    MaxLosses = 2
CHECK_DEADLOCK FALSE
INVARIANTS
    TypeOK
    SentInOrder
PROPERTIES
    QueueKept
    Reconnects
    MailsMove
