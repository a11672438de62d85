SPECIFICATION FairSpec
CONSTANTS
  p1 = p1
  p2 = p2
  Producers <- MCProducers
  Workloads <- MCWorkloads
  Capacity = 1
  MaxPosts = 3
  MaxTime = 1
  PollCounts = {0, 1}
  LoopThread = LoopThread
  NoPost = NoPost
  NoEvent = NoEvent
INVARIANTS
  Conservation
  ServedInTurn
  PostOrder
  IdleOnlyWhenQuiet
PROPERTIES
  ProducerServed
  StopReturns
