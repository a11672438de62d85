SPECIFICATION Spec
CONSTANTS
  producer = producer
  Producers <- MCProducers
  LoopThread = LoopThread
  N = 2
  Width = 2
  MaxObjects = 4
  MaxPosts = 4
  None = None
INVARIANTS
  PayloadIntact
  DestroyedOnce
