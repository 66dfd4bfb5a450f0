SPECIFICATION Spec
CONSTANTS
    Step = 8
    Top = 24
    Byte = 256
    Wrap = 4
    MaxMissed = 5
    Strays = {250}
    Configurations = {{"ebike"}, {"garmin"}}
INVARIANTS MessagesInv
PROPERTIES OneLevelPerPress NeverTakenForRepeat
