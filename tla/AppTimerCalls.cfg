SPECIFICATION Spec
CONSTANTS
    poll = poll
    hour = hour
    search = search
    Timers = {poll, hour, search}
    Repeating = {search}
    OpQueueSize = 4
INVARIANTS TypeOK StartedIsRunning StoppedIsSilent ListedOnce
PROPERTY StartedExpires
