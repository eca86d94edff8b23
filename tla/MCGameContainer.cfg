\* The three games, Enshrouded's search cut to three turns, every fault.
CONSTANTS
    Games = {"valheim", "enshrouded", "windrose"}
    PollLimit = 3
    Faults = {"script", "game", "proton", "grace", "job_timeout"}
SPECIFICATION Spec
CHECK_DEADLOCK FALSE
INVARIANTS
    CInv
    StopMeansEnded
    AwaitedGamesFlush
