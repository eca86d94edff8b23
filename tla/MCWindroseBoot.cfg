\* Two steamcmd attempts, every fault.
CONSTANTS
    Islands = {a, b, c}
    NoIsland = NoIsland
    MaxAttempts = 2
    Faults = {"mount", "restore", "docker", "install", "generate", "game", "watcher", "backup", "vm", "volume"}
SPECIFICATION FairSpec
INVARIANTS
    BootInv
    ReadyMeansServing
PROPERTIES
    RestoredWorldIsPlayed
    SnapshotsKeepWorlds
    SnapshotNamesPlayedWorld
    BootBecomesReady
    ImplementsLineage
