SPECIFICATION Spec
CONSTANTS
    MaxUpdates = 3
    MaxEvents = 4
    OpQueueSize = 10
INVARIANT LinkInv
PROPERTIES DisconnectIsHarmless NoResetOnHealthyLink NegotiationEnds
