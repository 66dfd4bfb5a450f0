SPECIFICATION Spec
CONSTANTS
    Channels = {"ebike", "garmin"}
    Limit = 2
    MaxCount = 3
    MaxPending = 3
    OpQueueSize = 10
INVARIANTS ClosedIsUsedUp UnseenSearchIsSpent LedIsTimed
PROPERTY SearchLedEnds
