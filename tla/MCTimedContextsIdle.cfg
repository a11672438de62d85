SPECIFICATION Spec
CONSTANTS
    c1 = c1
    c2 = c2
    precise = precise
    idle = idle
    Contexts = {c1}
    Timers = {idle}
    EndpointTimers = {}
    ContextOf <- OnFirst
    TypeOf <- PreciseAndIdle
    Duration <- TwoAndOne
    MaxCalls = 1
    MaxPending <- ThreeForIdle
INVARIANT IdleNotEarly
