\* Three sessions' servers, one of them without IPv6, every fault.
CONSTANTS
    Servers = {s1, s2, s3}
    Ipv6Servers = {s1, s2}
    None = None
    Attempts = 3
    Faults = {"refused", "throttled", "error", "no_answer"}
SPECIFICATION FairSpec
INVARIANTS
    DInv
    SameServer
    QuietMeansWritten
PROPERTIES
    EveryCallEnds
