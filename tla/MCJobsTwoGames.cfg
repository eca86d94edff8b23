\* Two workers, two games: one stopped with SIGINT, one with an install volume.
CONSTANTS
    w1 = w1
    w2 = w2
    Games = {"valheim", "windrose"}
    VolumeGames <- MCVolumeGames
    SigintGames <- MCSigintGames
    Workers = {w1, w2}
    Faults = {"crash", "redis", "cloud"}
SPECIFICATION Spec
SYMMETRY Symmetry
PROPERTIES
    NeverDeletesUnsaved
    ImplementsSession
