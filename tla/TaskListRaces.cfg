SPECIFICATION Spec
CONSTANTS
    t1 = t1
    p1 = p1
    p2 = p2
    Nil = Nil
    Keep = Keep
    DocId <- OneKey
    KeyOrder <- OneOrder
    Value <- AllValues
    Field = {"projectID", "taskType", "taskResolvedDate", "taskDueDate", "taskID"}
    Existing = {}
    Project = {p1, p2}
    project = p1
    Resend = TRUE
    Rejects = TRUE
    Swipable = TRUE
    MaxWrites = 2
    MaxLoads = 2
INVARIANTS
    TypeOK
    SingleLoadsListOnce
    ShownMatchesModel
    TrapsOnlyOnClearedList
    UserDeletesStick
    ConfirmedTaskIsFound
    ResolvedDateTellsStatus
PROPERTIES
    DeliveryIsInvisible
    AcknowledgementIsInvisible
