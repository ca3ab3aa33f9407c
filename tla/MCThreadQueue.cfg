CONSTANTS
    QuPusher = {"a", "b"}
    QuPopper = {"x"}
    QuControl = "ctl"
    QuThrower = {"b"}
    QuCap = 2
    QuGens = 4
    QuStart = 7
    QuFill = 1
    QuMaxOps = 3
SPECIFICATION MCSpec
INVARIANT NoMissedWakeup
PROPERTY IsBoundedQueue
CHECK_DEADLOCK FALSE
