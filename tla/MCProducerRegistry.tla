------------------------- MODULE MCProducerRegistry -------------------------
(* Three posting threads and two event queues that share the thread_local   *)
(* index: one queue admits two producers, the other only one.               *)
EXTENDS ProducerRegistry, TLC

CONSTANTS t1, t2, t3, wide, narrow

MCThreads == {t1, t2, t3}
MCQueues == {wide, narrow}
MCMaxProducers == [q \in MCQueues |-> IF q = wide THEN 2 ELSE 1]
MCSymmetry == Permutations(MCThreads)
=============================================================================
