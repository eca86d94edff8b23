\* Three invocations of two commands, with every fault.
CONSTANTS
    Commands = {start, stop}
    Handlers = {h1, h2, h3}
    Workers = 1
    Cooldown = 2
    Faults = {"discord", "redis", "crash"}
SPECIFICATION FairSpec
INVARIANTS
    BInv
PROPERTIES
    CooldownSpacing
    DeniedHasNoEffect
    CooldownEnds
