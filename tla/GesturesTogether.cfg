SPECIFICATION Spec
CONSTANTS
    Buttons = {"PLUS", "STANDBY"}
    Features = {"ebike"}
    OpQueueSize = 10
    MaxMoves = 2
PROPERTY BluetoothOnGesture
CHECK_DEADLOCK FALSE
