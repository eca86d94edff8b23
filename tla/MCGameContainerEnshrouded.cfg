\* Enshrouded, without faults.
CONSTANTS
    Games = {"enshrouded"}
    PollLimit = 10
    Faults = {}
SPECIFICATION Spec
CHECK_DEADLOCK FALSE
INVARIANT EnshroudedFlushes
