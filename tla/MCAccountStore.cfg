SPECIFICATION FairSpec
CONSTANTS
    ada = ada
    oauth8 = oauth8
    oauth12 = oauth12
    r1 = r1
    r2 = r2
    r3 = r3
    sub = sub
    Requests = {r1, r2, r3}
    Names = {ada, oauth8, oauth12}
    Registrable = {ada}
    Emails = {"mail"}
    NoEmail = NoEmail
    Subs = {sub}
    NoSub = NoSub
    Short <- ShortNames
    Long <- LongNames
    Nobody = Nobody
    Free = Free
    Threshold = 2
    MaxRequests = 4
INVARIANTS
    TypeOK
    IndexesAgree
    ThresholdLocks
PROPERTY
    RequestsEnd
CHECK_DEADLOCK FALSE
