\* A stop after one that shut the guest down and then failed (Windrose).
CONSTANTS
    w1 = w1
    w2 = w2
    Games = {"windrose"}
    VolumeGames <- MCVolumeGames
    SigintGames <- MCSigintGames
    Workers = {w1, w2}
    Faults = {"crash", "lock_wait", "redis", "config", "dns", "cloud", "rollback"}
SPECIFICATION Spec
SYMMETRY Symmetry
INVARIANT StopResumesAfterPowerOff
