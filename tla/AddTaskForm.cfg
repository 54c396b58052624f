SPECIFICATION FormSpec
CONSTANTS
    today = today
    tomorrow = tomorrow
    Date = {today, tomorrow}
    Nil = Nil
    Limit = 2
    MaxInsert = 2
    MaxText = 4
INVARIANTS
    StoredDateIsShown
