SPECIFICATION FairDuplexSpec
CONSTANTS
    Clients = {k1, k2}
    k1 = k1
    k2 = k2
    MaxClients = 2
    Capacity = 1
    MaxRequests <- TwoAndOne
    MaxFaults = 2
INVARIANTS
    RequestsOnce
    RepliesRouted
PROPERTY
    Answered
CHECK_DEADLOCK FALSE
