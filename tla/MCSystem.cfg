\* Enshrouded's two commands, one worker (the Dockerfile starts one), which
\* may die and is restarted, every fault of the bot.
CONSTANTS
    Games = {"enshrouded"}
    VolumeGames = {}
    SigintGames = {}
    Workers = {w1}
    Faults = {"config", "cloud", "crash", "lock_wait", "redis"}
    Handlers = {h1, h2}
    NoHandler = NoHandler
    Cooldown = 1
    BotFaults = {"discord", "redis", "crash"}
SPECIFICATION SysFairSpec
INVARIANT SysInv
PROPERTIES
    ImplementsBot
    QueuedIsAnswered
    LockComesFree
