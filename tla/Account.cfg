SPECIFICATION Spec
CONSTANTS
    cust = cust
    p = p
    q = q
    Nil = Nil
    Keep = Keep
    me = cust
    stored = p
    DocId <- OneKey
    KeyOrder <- OneOrder
    Profile <- TwoProfiles
    Value <- TwoProfiles
    Field = {"profile"}
    Requester = {"page", "form"}
    Waiter = {"update", "left form", "left page"}
    Resend = TRUE
    Rejects = TRUE
    MaxWrites = 2
    MaxCalls = 2
INVARIANTS
    SavedIsStored
    PageShowsProfile
