SPECIFICATION FairSpec
CONSTANTS
    c1 = c1
    c2 = c2
    c3 = c3
    Nil = Nil
    Keep = Keep
    DocId <- ThreeKeys
    KeyOrder <- ThreeOrder
    Value <- ThreeKeys
    Field = {"contractor"}
    Requester = {"list"}
    Waiter = {"form", "closed form"}
    Existing = {c1}
    Resend = TRUE
    Rejects = TRUE
    MaxWrites = 2
    MaxBlanks = 1
INVARIANTS
    StackMatchesArray
    ConfirmedContractorIsListed
PROPERTIES
    SavedFormCloses
