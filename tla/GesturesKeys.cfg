SPECIFICATION Spec
CONSTANTS
    Buttons = {"PLUS", "MINUS", "ENTER", "STANDBY"}
    Features = {"ebike"}
    OpQueueSize = 10
    MaxMoves = 3
INVARIANTS TypeOK LongNeedsKey
PROPERTIES DfuOnGesture KeysSpec DeepSleepOnGesture FlashEnds
CHECK_DEADLOCK FALSE
