SPECIFICATION FairSpec
CONSTANTS
    e1 = e1
    e2 = e2
    alice = alice
    phone = phone
    page = page
    closing = closing
    Events = {e1, e2}
    Flushes = {page, closing}
    Closing = closing
    Stop = Stop
    Users = {alice}
    Keys = {phone}
    Holder <- AlicesPhone
    Caller <- AliceAndNobody
    Via <- PhoneAndNone
    Nobody = Nobody
    QueueLimit = 2
    BatchLimit = 2
INVARIANTS
    TypeOK
    EachEventOnce
    FlushSeesEarlier
    NoDeletedNames
PROPERTIES
    ImplementsLedger
    EventuallyCounted
CHECK_DEADLOCK FALSE
