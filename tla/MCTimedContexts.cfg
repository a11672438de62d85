SPECIFICATION FairSpec
CONSTANTS
    c1 = c1
    c2 = c2
    precise = precise
    idle = idle
    Contexts = {c1, c2}
    Timers = {precise, idle}
    EndpointTimers = {precise}
    ContextOf <- OnFirst
    TypeOf <- PreciseAndIdle
    Duration <- TwoAndOne
    MaxCalls = 2
    MaxPending <- ThreeForIdle
INVARIANTS
    NotEarly
    FollowsEndpoint
PROPERTIES
    KeepsRunning
    JoinReturns
