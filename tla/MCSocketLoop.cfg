SPECIFICATION FairSpec
CONSTANTS
    Clients = {c1}
    Servers = {s1}
    Listener = Listener
    Process = Process
    None = None
    MaxFd = 3
    MaxOpens <- TwiceAndOnce
    MaxCloses = 1
INVARIANTS
    NothingFreedIsUsed
    OwnDescriptors
PROPERTY
    Noticed
CHECK_DEADLOCK FALSE
