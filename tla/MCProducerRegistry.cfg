SPECIFICATION RegistrySpec
CONSTANTS
  t1 = t1
  t2 = t2
  t3 = t3
  wide = wide
  narrow = narrow
  NoThread = NoThread
  NoIndex = NoIndex
  Refused = Refused
  Threads <- MCThreads
  Queues <- MCQueues
  MaxProducers <- MCMaxProducers
SYMMETRY MCSymmetry
INVARIANTS
  SlotUnique
  EntryIsOwn
  NoOverrunWithinLimit
  RefusedOnlyWhenFull
