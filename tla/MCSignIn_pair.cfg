\* Two requests in flight, three codes.
SPECIFICATION Spec
CONSTANTS
    ann = ann
    bob = bob
    e1 = e1
    e2 = e2
    f1 = f1
    People <- MCPeople
    Emails <- MCEmails
    MailboxOf <- MCMailboxOf
    NoCode = none
    MaxCode = 3
    Requests = {r1, r2}
SYMMETRY Symmetry
INVARIANTS
    TypeOK
    SignedInAsSelf
    OtpReuseBound
