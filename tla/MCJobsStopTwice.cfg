\* A stop after one that stopped the container and then failed (Valheim).
CONSTANTS
    w1 = w1
    w2 = w2
    Games = {"valheim"}
    VolumeGames <- MCVolumeGames
    SigintGames <- MCSigintGames
    Workers = {w1, w2}
    Faults = {"crash", "lock_wait", "redis", "config", "dns", "cloud", "rollback"}
SPECIFICATION Spec
SYMMETRY Symmetry
INVARIANT StopResumesAfterContainerStop
