SPECIFICATION FairSpec
CONSTANTS
    t1 = t1
    p1 = p1
    p2 = p2
    Nil = Nil
    Keep = Keep
    DocId <- OneKey
    KeyOrder <- OneOrder
    Value <- AllValues
    Field = {"projectID", "taskType", "taskResolvedDate", "taskDueDate", "taskID"}
    Existing = {}
    Project = {p1}
    project = p1
    Resend = FALSE
    Rejects = FALSE
    Swipable = TRUE
    MaxWrites = 3
    MaxLoads = 1
INVARIANTS
    CheckboxTellsFinalState
PROPERTIES
    CreateIsAnswered
    CreateSurvives
    ServerFollowsLedger
