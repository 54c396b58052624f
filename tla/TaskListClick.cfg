SPECIFICATION Spec
CONSTANTS
    t1 = t1
    p1 = p1
    p2 = p2
    Nil = Nil
    Keep = Keep
    DocId <- OneKey
    KeyOrder <- OneOrder
    Value <- AllValues
    Field = {"projectID", "taskType", "taskResolvedDate", "taskDueDate", "taskID"}
    Existing = {t1}
    Project = {p1}
    project = p1
    Resend = FALSE
    Rejects = FALSE
    Swipable = FALSE
    MaxWrites = 1
    MaxLoads = 1
INVARIANTS
    ClickNeverTraps
