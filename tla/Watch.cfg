CONSTANTS
    c1 = c1
    c2 = c2
    c3 = c3
    c4 = c4
    tasks = tasks
    invoices = invoices
    account = account
    Call = {c1, c2, c3, c4}
    Query = {tasks, invoices, account}
    QueryOf <- MCQueryOf
    kMaxWatchStreamFailures = 1

SPECIFICATION FairSpec
INVARIANTS
    CallbacksMeetTheirStream
    NobodyWaitsOffline
    WaitIsTimed
PROPERTY CallIsAnswered
