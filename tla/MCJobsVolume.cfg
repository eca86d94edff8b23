\* Three fair workers, one game with an install volume (Windrose).
CONSTANTS
    w1 = w1
    w2 = w2
    w3 = w3
    Games = {"windrose"}
    VolumeGames <- MCVolumeGames
    SigintGames <- MCSigintGames
    Workers = {w1, w2, w3}
    Faults = {"crash", "lock_wait", "redis", "config", "dns", "cloud", "rollback"}
SPECIFICATION FairSpec
INVARIANTS
    IInv
    KnowsInv
    MutualExclusion
    ServerIsFirewalled
    CleanStartServes
    QuietStartMeansServing
    RollbackComplete
    FinishedMeansTornDown
    StopIsRepeatable
PROPERTIES
    DetachesOnlyWhenOff
    StartNeverDisturbsLive
    EveryJobEnds
