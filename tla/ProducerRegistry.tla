-------------------------- MODULE ProducerRegistry --------------------------
(***************************************************************************)
(* EventQueue::getThreadProducerQueueEntry (event_queue/EventQueue.hpp):   *)
(* how a thread that posts to a running event queue gets the single        *)
(* producer queue it pushes to, and how the loop thread walks the table    *)
(* of producer queues at the same time.                                    *)
(*                                                                         *)
(* Nothing here is locked.  The table is a vector of fixed size, the       *)
(* number of used entries is an atomic counter, an entry is claimed by     *)
(* fetch_add, and the claim is undone by fetch_sub when the table turns    *)
(* out to be full.  The index a thread found last is kept in a             *)
(* thread_local that all queues of one type share, so it may come from     *)
(* another queue.  Each atomic access is a step of its own.                *)
(***************************************************************************)
EXTENDS Integers, FiniteSets

CONSTANTS
    Threads,        \* the threads that post from outside the loop thread
    Queues,         \* the event queues of one template instantiation
    MaxProducers,   \* [Queues -> Nat \ {0}], maxProducerThreads of each queue
    NoThread,       \* the default std::thread::id of an unused entry
    NoIndex,        \* an empty std::optional<size_t>, also "nothing returned yet"
    Refused         \* the error a call returns when the table is full

ASSUME RegistryAssumption ==
    /\ IsFiniteSet(Threads)
    /\ MaxProducers \in [Queues -> Nat \ {0}]
    /\ NoThread \notin Threads
    /\ NoIndex \notin Nat
    /\ Refused \notin Nat \union {NoIndex}

VARIABLES
    activeProducers,   \* [Queues -> Nat], the atomic counter
    slotThread,        \* the threadId of every table entry
    cachedIndex,       \* [Threads -> index or NoIndex], the thread_local
    pc,                \* where each thread is in the function
    callee,            \* the queue of a thread's current or last call
    target,            \* the index a thread's fetch_add returned
    returned,          \* what a thread's last call returned
    scanIndex,         \* the loop thread's queueIndex, per queue
    overrun,           \* history: queues whose table was read out of bounds
    callers            \* history: the threads that ever called, per queue

tableVars == <<activeProducers, slotThread>>
threadVars == <<cachedIndex, pc, callee, target, returned>>
scanVars == <<scanIndex>>
registryVars == <<tableVars, threadVars, scanVars, overrun, callers>>

Slots(q) == 0 .. (MaxProducers[q] - 1)
Steps == {"idle", "check", "search", "full", "claim", "undo", "assign", "undefined"}

RegistryInit ==
    /\ activeProducers = [q \in Queues |-> 0]
    /\ slotThread = [q \in Queues |-> [i \in Slots(q) |-> NoThread]]
    /\ cachedIndex = [t \in Threads |-> NoIndex]
    /\ pc = [t \in Threads |-> "idle"]
    /\ callee \in [Threads -> Queues]
    /\ target = [t \in Threads |-> NoIndex]
    /\ returned = [t \in Threads |-> NoIndex]
    /\ scanIndex = [q \in Queues |-> 0]
    /\ overrun = {}
    /\ callers = [q \in Queues |-> {}]

-----------------------------------------------------------------------------
(* Mutated: the search passes over the first entry. *)
M_OwnSlots(q, t) == {i \in Slots(q) \ {0} : slotThread[q][i] = t}

(* The entries of q that bear t's id.  Only t writes its own id, so the    *)
(* linear search sees the same entries whatever the other threads do.      *)
OwnSlots(q, t) == {i \in Slots(q) : slotThread[q][i] = t}

Goto(t, step) == pc' = [pc EXCEPT ![t] = step]
Return(t, outcome) ==
    /\ Goto(t, "idle")
    /\ returned' = [returned EXCEPT ![t] = outcome]

(* The call, up to the comparison of the cached index with the counter. A  *)
(* cached index that the counter does not cover is dropped.                *)
Enter(t, q) ==
    /\ pc[t] = "idle"
    /\ callee' = [callee EXCEPT ![t] = q]
    /\ callers' = [callers EXCEPT ![q] = @ \union {t}]
    /\ returned' = [returned EXCEPT ![t] = NoIndex]
    /\ target' = [target EXCEPT ![t] = NoIndex]
    /\ IF cachedIndex[t] # NoIndex /\ cachedIndex[t] < activeProducers[q]
         THEN /\ Goto(t, "check")
              /\ UNCHANGED cachedIndex
         ELSE /\ Goto(t, "search")
              /\ cachedIndex' = [cachedIndex EXCEPT ![t] = NoIndex]
    /\ UNCHANGED <<tableVars, scanVars, overrun>>

(* Mutated: the cached entry is not compared with the caller's id. *)
M_CheckCache(t) ==
    /\ pc[t] = "check"
    /\ IF cachedIndex[t] \in Slots(callee[t])
         THEN Return(t, cachedIndex[t]) /\ UNCHANGED overrun
         ELSE Goto(t, "undefined") /\ overrun' = overrun \union {callee[t]} /\ UNCHANGED returned
    /\ UNCHANGED <<tableVars, cachedIndex, callee, target, scanVars, callers>>

(* The cached entry is used if it bears the caller's id.  The index was    *)
(* compared with the counter and not with the size of the table: behind    *)
(* the last entry the read is undefined and the thread is not followed.    *)
CheckCache(t) ==
    LET q == callee[t]
        i == cachedIndex[t]
    IN  /\ pc[t] = "check"
        /\ \/ /\ i \in Slots(q)
              /\ slotThread[q][i] = t
              /\ Return(t, i)
              /\ UNCHANGED <<cachedIndex, overrun>>
           \/ /\ i \in Slots(q)
              /\ slotThread[q][i] # t
              /\ cachedIndex' = [cachedIndex EXCEPT ![t] = NoIndex]
              /\ Goto(t, "search")
              /\ UNCHANGED <<returned, overrun>>
           \/ /\ i \notin Slots(q)
              /\ overrun' = overrun \union {q}
              /\ Goto(t, "undefined")
              /\ UNCHANGED <<cachedIndex, returned>>
        /\ UNCHANGED <<tableVars, callee, target, scanVars, callers>>

(* std::ranges::find_if over the whole table. *)
Search(t) ==
    LET own == OwnSlots(callee[t], t)
    IN  /\ pc[t] = "search"
        /\ \/ /\ own # {}
              /\ LET first == CHOOSE i \in own : \A j \in own : i <= j
                 IN  /\ cachedIndex' = [cachedIndex EXCEPT ![t] = first]
                     /\ Return(t, first)
           \/ /\ own = {}
              /\ Goto(t, "full")
              /\ UNCHANGED <<cachedIndex, returned>>
        /\ UNCHANGED <<tableVars, callee, target, scanVars, overrun, callers>>

(* Mutated: the table counts as full one entry early. *)
M_CheckFull(t) ==
    /\ pc[t] = "full"
    /\ IF activeProducers[callee[t]] >= MaxProducers[callee[t]] - 1
         THEN Return(t, Refused)
         ELSE Goto(t, "claim") /\ UNCHANGED returned
    /\ UNCHANGED <<tableVars, cachedIndex, callee, target, scanVars, overrun, callers>>

(* size() == _activeProducers: an equality, not an order. *)
CheckFull(t) ==
    LET q == callee[t]
    IN  /\ pc[t] = "full"
        /\ \/ /\ activeProducers[q] = MaxProducers[q]
              /\ Return(t, Refused)
           \/ /\ activeProducers[q] # MaxProducers[q]
              /\ Goto(t, "claim")
              /\ UNCHANGED returned
        /\ UNCHANGED <<tableVars, cachedIndex, callee, target, scanVars, overrun, callers>>

(* The fetch_add, whose result decides between the last two steps. *)
Claim(t) ==
    LET q == callee[t]
    IN  /\ pc[t] = "claim"
        /\ activeProducers' = [activeProducers EXCEPT ![q] = @ + 1]
        /\ target' = [target EXCEPT ![t] = activeProducers[q]]
        /\ Goto(t, IF activeProducers[q] >= MaxProducers[q] THEN "undo" ELSE "assign")
        /\ UNCHANGED <<slotThread, cachedIndex, callee, returned, scanVars, overrun, callers>>

(* The fetch_sub of a claim behind the end of the table. *)
Undo(t) ==
    /\ pc[t] = "undo"
    /\ activeProducers' = [activeProducers EXCEPT ![callee[t]] = @ - 1]
    /\ Return(t, Refused)
    /\ UNCHANGED <<slotThread, cachedIndex, callee, target, scanVars, overrun, callers>>

(* The id is stored in the claimed entry, then the index is cached. *)
Assign(t) ==
    /\ pc[t] = "assign"
    /\ slotThread' = [slotThread EXCEPT ![callee[t]][target[t]] = t]
    /\ cachedIndex' = [cachedIndex EXCEPT ![t] = target[t]]
    /\ Return(t, target[t])
    /\ UNCHANGED <<activeProducers, callee, target, scanVars, overrun, callers>>

-----------------------------------------------------------------------------
(* Mutated: the bound of the walk is inclusive. *)
M_Scan(q) ==
    /\ q \notin overrun
    /\ IF scanIndex[q] <= activeProducers[q]
         THEN IF scanIndex[q] \in Slots(q)
                THEN scanIndex' = [scanIndex EXCEPT ![q] = @ + 1] /\ UNCHANGED overrun
                ELSE overrun' = overrun \union {q} /\ UNCHANGED scanIndex
         ELSE scanIndex' = [scanIndex EXCEPT ![q] = 0] /\ UNCHANGED overrun
    /\ UNCHANGED <<tableVars, threadVars, callers>>

(* One iteration of the loop over the producer queues in runEventCycle:    *)
(* the counter is loaded again for every index and the entry at that index *)
(* is accessed.  Behind the end the access is undefined; the loop thread   *)
(* of that queue is not followed any further.                              *)
Scan(q) ==
    /\ q \notin overrun
    /\ \/ /\ scanIndex[q] < activeProducers[q]
          /\ \/ /\ scanIndex[q] \in Slots(q)
                /\ scanIndex' = [scanIndex EXCEPT ![q] = @ + 1]
                /\ UNCHANGED overrun
             \/ /\ scanIndex[q] \notin Slots(q)
                /\ overrun' = overrun \union {q}
                /\ UNCHANGED scanIndex
       \/ /\ scanIndex[q] >= activeProducers[q]
          /\ scanIndex' = [scanIndex EXCEPT ![q] = 0]
          /\ UNCHANGED overrun
    /\ UNCHANGED <<tableVars, threadVars, callers>>

RegistryNext ==
    \/ \E t \in Threads :
         \/ \E q \in Queues : Enter(t, q)
         \/ CheckCache(t)
         \/ Search(t)
         \/ CheckFull(t)
         \/ Claim(t)
         \/ Undo(t)
         \/ Assign(t)
    \/ \E q \in Queues : Scan(q)

RegistrySpec == RegistryInit /\ [][RegistryNext]_registryVars

-----------------------------------------------------------------------------
(* The claims on q in flight: between fetch_add and the store of the id,   *)
(* and between fetch_add and fetch_sub.                                    *)
Assigning(q) == {t \in Threads : pc[t] = "assign" /\ callee[t] = q}
Undoing(q) == {t \in Threads : pc[t] = "undo" /\ callee[t] = q}
Owned(q) == {i \in Slots(q) : slotThread[q][i] # NoThread}
Claimed(q) == Owned(q) \union {target[t] : t \in Assigning(q)}

RegistryTypeOK ==
    /\ activeProducers \in [Queues -> Nat]
    /\ slotThread \in [Queues -> UNION {[Slots(r) -> Threads \union {NoThread}] : r \in Queues}]
    /\ \A q \in Queues : slotThread[q] \in [Slots(q) -> Threads \union {NoThread}]
    /\ cachedIndex \in [Threads -> Nat \union {NoIndex}]
    /\ pc \in [Threads -> Steps]
    /\ callee \in [Threads -> Queues]
    /\ target \in [Threads -> Nat \union {NoIndex}]
    /\ returned \in [Threads -> Nat \union {NoIndex, Refused}]
    /\ scanIndex \in [Queues -> Nat]
    /\ overrun \subseteq Queues
    /\ callers \in [Queues -> SUBSET Threads]

(* A thread owns at most one producer queue of an event queue, however its *)
(* calls to several queues and their shared cached index interleave: two   *)
(* entries would let one thread's actions overtake each other.             *)
SlotUnique ==
    \A q \in Queues : \A i, j \in Slots(q) :
        slotThread[q][i] # NoThread /\ slotThread[q][i] = slotThread[q][j] => i = j

(* The entry a call returned is the caller's own, although the index may   *)
(* have been cached for another queue: the queue behind it admits a single *)
(* producer.                                                               *)
EntryIsOwn ==
    \A t \in Threads :
        returned[t] \in Nat =>
            /\ returned[t] \in Slots(callee[t])
            /\ slotThread[callee[t]][returned[t]] = t

(* The counter is the number of claimed entries and of claims that are     *)
(* about to be undone; the claims fill the table from its start.           *)
CountAccounting ==
    \A q \in Queues :
        /\ activeProducers[q] = Cardinality(Claimed(q)) + Cardinality(Undoing(q))
        /\ \E n \in 0 .. MaxProducers[q] : Claimed(q) = 0 .. (n - 1)

(* The table is never accessed out of bounds while no more than            *)
(* maxProducerThreads threads post to the queue.  (With more, a claim that *)
(* is about to be undone is visible to the loop thread, which then walks   *)
(* past the last entry.)                                                   *)
NoOverrunWithinLimit ==
    \A q \in overrun : Cardinality(callers[q]) > MaxProducers[q]

(* An entry keeps its owner for good. *)
SlotOwnerStable ==
    [][\A q \in Queues : \A i \in Owned(q) : slotThread'[q][i] = slotThread[q][i]]_registryVars

(* A thread is refused only if it owns no entry and every entry has been   *)
(* claimed by others.                                                      *)
RefusedOnlyWhenFull ==
    \A t \in Threads :
        returned[t] = Refused =>
            /\ OwnSlots(callee[t], t) = {}
            /\ Claimed(callee[t]) = Slots(callee[t])
=============================================================================
