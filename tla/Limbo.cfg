CONSTANTS
    View = {tasks, invoices}
    Key = {d1, d2, d3}
    MaxResolutions = 2
    MaxEnqueued = 3
    MaxTargets = 2

SPECIFICATION LimboSpec
INVARIANTS
    NoLimboIsForgotten
    RoomIsUsed
    EntriesHaveTargets
