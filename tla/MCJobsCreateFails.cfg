\* A start whose server fails after it was created.
CONSTANTS
    w1 = w1
    w2 = w2
    Games = {"valheim"}
    VolumeGames <- MCVolumeGames
    SigintGames <- MCSigintGames
    Workers = {w1, w2}
    Faults = {"crash", "lock_wait", "redis", "config", "dns", "cloud", "rollback"}
SPECIFICATION Spec
SYMMETRY Symmetry
INVARIANT FailureAfterCreateRollsBack
