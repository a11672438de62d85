---------------------------- MODULE PayloadStore ----------------------------
(***************************************************************************)
(* Action payloads (event_queue/EventQueue.hpp, getNextActionPayload and   *)
(* getNextActionObject): a thread is handed the next place of a ring of    *)
(* buffers, builds an object there, and posts an action that uses it.  The *)
(* entry that is posted next destroys the object after its action has run. *)
(*                                                                         *)
(* Every producer has its own ring beside its own queue (class             *)
(* ThreadSpecificQueue).  The loop thread has the ring and the prepared    *)
(* entry of the event queue itself, which some of the posting functions    *)
(* also look at, and even reset, on behalf of other threads.  The loop is  *)
(* active until an action fails because it cannot be posted again.         *)
(***************************************************************************)
EXTENDS Integers, Sequences, FiniteSets

CONSTANTS
    Producers,      \* the posting threads other than the loop thread
    LoopThread,
    N,              \* MaxProducerQueueSize: places of a ring, and of a producer queue
    Width,          \* bits of _activeAsyncStoreEntries (32 in the code)
    MaxObjects,     \* bound: how many objects are allocated
    MaxPosts,       \* bound: how many actions are posted
    None            \* no object, no prepared entry, nobody

Owners == Producers \union {LoopThread}
Objects == 1 .. MaxObjects
Places == 0 .. (N - 1)

ASSUME PayloadAssumption ==
    /\ IsFiniteSet(Producers) /\ LoopThread \notin Producers
    /\ None \notin Owners \union Objects
    /\ N \in Nat \ {0} /\ Width \in Nat /\ N < 2 ^ Width
    /\ MaxObjects \in Nat /\ MaxPosts \in Nat

VARIABLES
    cursor,         \* _nextActionPayload of each ring
    ring,           \* the object that lives in each place
    home,           \* where each object was built: its owner and its place
    prepared,       \* _preparedEntry: the object the next post is to destroy
    holding,        \* the pointer a thread has and will use in its next action
    queue,          \* the posted entries of each owner, the loop's local queue too
    timed,          \* the objects used by the pending timed actions
    entries,        \* _activeAsyncStoreEntries
    serving,        \* the owner of the entry the loop thread is working at
    step,           \* what the loop thread is doing with it
    allocated, posts,   \* counters of the bounds
    destroyed,      \* history: how often each object was destroyed
    abandoned,      \* history: objects whose prepared entry was dropped
    outlived,       \* history: objects destroyed with the first of several entries
    disturbed       \* history: the rings whose places may be reused too early

ringVars == <<cursor, ring, home, prepared, holding, entries>>
workVars == <<queue, timed, serving, step>>
historyVars == <<destroyed, abandoned, outlived, disturbed>>
vars == <<ringVars, workVars, historyVars, allocated, posts>>

Ops == {"plain", "async", "timed"}
(* What an entry's action uses, and what is destroyed after it has run. *)
EntryType == [op : Ops, uses : Objects \union {None}, frees : Objects \union {None}]

Init ==
    /\ cursor = [o \in Owners |-> 0]
    /\ ring = [o \in Owners |-> [k \in Places |-> None]]
    /\ home = [i \in Objects |-> None]
    /\ prepared = [o \in Owners |-> None]
    /\ holding = [o \in Owners |-> None]
    /\ queue = [o \in Owners |-> <<>>]
    /\ timed = {}
    /\ entries = 0
    /\ serving = None /\ step = "between"
    /\ allocated = 0 /\ posts = 0
    /\ destroyed = [i \in Objects |-> 0]
    /\ abandoned = {} /\ outlived = {} /\ disturbed = {}

(* The loop thread posts between entries and inside an action; the other    *)
(* threads at any time.                                                     *)
MayCall(o) == o = LoopThread => step \notin {"pop", "abort"}

-----------------------------------------------------------------------------
(* Allocation. *)

(* The objects of o that are still to be destroyed by some entry. *)
Outstanding(o) ==
    {i \in Objects : prepared[o] = i \/ \E n \in DOMAIN queue[o] : queue[o][n].frees = i}

(* A new object in the next place of the ring, whatever is there. *)
TakePlace(o) ==
    LET i == allocated + 1
    IN  /\ allocated < MaxObjects
        /\ allocated' = i
        /\ ring' = [ring EXCEPT ![o][cursor[o]] = i]
        /\ home' = [home EXCEPT ![i] = <<o, cursor[o]>>]
        /\ cursor' = [cursor EXCEPT ![o] = (@ + 1) % N]
        /\ prepared' = [prepared EXCEPT ![o] = i]
        /\ holding' = [holding EXCEPT ![o] = i]
        /\ disturbed' = IF o = LoopThread /\ Cardinality(Outstanding(o)) >= N
                          THEN disturbed \union {o} ELSE disturbed
        /\ UNCHANGED <<entries, workVars, destroyed, abandoned, outlived, posts>>

(* The prepared entry of o is dropped: its object stays where it is, but    *)
(* no entry will destroy it and the ring does not count it any more.        *)
DropPrepared(o) ==
    /\ prepared' = [prepared EXCEPT ![o] = None]
    /\ abandoned' = abandoned \union {prepared[o]}
    /\ disturbed' = disturbed \union {o}

(* Mutated: the producer does not wait for a free place of its queue. *)
M_GetPayload(p) == prepared[p] = None /\ TakePlace(p)

(* ThreadSpecificQueue: the call spins while the queue is full; with an     *)
(* entry prepared already it fails, and drops that entry.                   *)
GetPayload(p) ==
    /\ Len(queue[p]) < N
    /\ \/ /\ prepared[p] = None
          /\ TakePlace(p)
       \/ /\ prepared[p] # None
          /\ DropPrepared(p)
          /\ UNCHANGED <<cursor, ring, home, holding, entries, workVars, destroyed, outlived,
                         allocated, posts>>

(* The local version fails without dropping the entry; it compares the      *)
(* counter with the size of the ring and waits for nothing.                 *)
GetLocalPayload ==
    /\ MayCall(LoopThread)
    /\ prepared[LoopThread] = None
    /\ entries # N
    /\ TakePlace(LoopThread)

-----------------------------------------------------------------------------
(* Posting. *)

EntryOf(o, op) == [op |-> op, uses |-> holding[o], frees |-> prepared[o]]

(* The prepared entry of the thread, if any, becomes the entry; a producer  *)
(* spins while its queue is full.                                           *)
Push(o, op) ==
    /\ o \in Producers => Len(queue[o]) < N
    /\ queue' = [queue EXCEPT ![o] = Append(@, EntryOf(o, op))]
    /\ prepared' = [prepared EXCEPT ![o] = None]
    /\ holding' = [holding EXCEPT ![o] = None]
    /\ UNCHANGED <<cursor, ring, home, entries, serving, step>>

Counted == posts < MaxPosts /\ posts' = posts + 1

Post(o) ==
    /\ MayCall(o) /\ Counted
    /\ Push(o, "plain")
    /\ UNCHANGED <<timed, historyVars, allocated>>

(* Refused when the loop thread has an entry prepared, whoever posts. *)
PostAsync(o) ==
    /\ MayCall(o) /\ Counted
    /\ prepared[LoopThread] = None
    /\ Push(o, "async")
    /\ UNCHANGED <<timed, historyVars, allocated>>

(* postPrecisionTimedAction: refused too, and the loop thread's entry is    *)
(* dropped, whoever posts.  Otherwise the loop thread stores the event and  *)
(* a producer pushes an action that will store it.                          *)
PostTimed(o) ==
    /\ MayCall(o) /\ Counted
    /\ \/ /\ prepared[LoopThread] # None
          /\ DropPrepared(LoopThread)
          /\ UNCHANGED <<cursor, ring, home, holding, entries, workVars, destroyed, outlived>>
       \/ /\ prepared[LoopThread] = None /\ o = LoopThread
          /\ timed' = timed \union ({holding[o]} \ {None})
          /\ holding' = [holding EXCEPT ![o] = None]
          /\ UNCHANGED <<cursor, ring, home, prepared, entries, queue, serving, step, historyVars>>
       \/ /\ prepared[LoopThread] = None /\ o # LoopThread
          /\ Push(o, "timed")
          /\ UNCHANGED <<timed, historyVars>>
    /\ UNCHANGED allocated

(* postIdleTimedAction looks at no prepared entry.  On the loop thread it   *)
(* stores the event and, for want of a return, pushes an action that will   *)
(* store it again, with the prepared entry, if any.                         *)
PostIdleTimed(o) ==
    /\ MayCall(o) /\ Counted
    /\ timed' = IF o = LoopThread THEN timed \union ({holding[o]} \ {None}) ELSE timed
    /\ Push(o, "timed")
    /\ UNCHANGED <<historyVars, allocated>>

-----------------------------------------------------------------------------
(* The loop thread. *)

Begin(o) ==
    /\ step = "between" /\ queue[o] # <<>>
    /\ serving' = o /\ step' = "action"
    /\ UNCHANGED <<ringVars, queue, timed, historyVars, allocated, posts>>

(* destroy_at(object): whatever lives at the object's place is destroyed.   *)
Destroy(i) ==
    LET o == home[i][1]
        k == home[i][2]
        victim == IF ring[o][k] = None THEN i ELSE ring[o][k]
    IN  /\ destroyed' = [destroyed EXCEPT ![victim] = @ + 1]
        /\ ring' = [ring EXCEPT ![o][k] = None]

(* Mutated: the object of an async action that is retried is kept. *)
M_Release(entry) ==
    \/ /\ entry.frees # None /\ entry.op # "async"
       /\ Destroy(entry.frees)
    \/ /\ entry.frees = None \/ entry.op = "async"
       /\ UNCHANGED <<destroyed, ring>>

Release(entry) ==
    \/ /\ entry.frees # None
       /\ Destroy(entry.frees)
    \/ /\ entry.frees = None
       /\ UNCHANGED <<destroyed, ring>>

(* The counter of the local store is only ever decremented, modulo 2^Width. *)
Uncount(entry) ==
    entries' = IF serving = LoopThread /\ entry.frees # None
                 THEN (entries + 2 ^ Width - 1) % 2 ^ Width ELSE entries

(* The object of the entry is still used after it: by the action posted     *)
(* again, or by the timed event the action stored.                          *)
Outlives(entry) ==
    outlived' = IF entry.frees # None THEN outlived \union {entry.uses} ELSE outlived

(* The action has run.  An async one may not be done: it has posted itself  *)
(* again, to the local queue, which is refused, and is the end of the loop, *)
(* when it left an entry prepared.  A forwarding one has stored its timed   *)
(* event.  Then the object of the entry is destroyed and the entry disarmed.*)
Finish ==
    LET entry == Head(queue[serving])
        rest == [queue EXCEPT ![serving][1].frees = None]
    IN  /\ step = "action"
        /\ Release(entry)
        /\ Uncount(entry)
        /\ \/ /\ entry.op = "async" /\ prepared[LoopThread] = None
              /\ queue' = [rest EXCEPT ![LoopThread] =
                             Append(@, [op |-> "async", uses |-> entry.uses, frees |-> None])]
              /\ Outlives(entry)
              /\ step' = "pop"
              /\ UNCHANGED timed
           \/ /\ entry.op = "async" /\ prepared[LoopThread] # None
              /\ queue' = rest
              /\ step' = "abort"
              /\ UNCHANGED <<timed, outlived>>
           \/ /\ entry.op # "timed"
              /\ queue' = rest
              /\ step' = "pop"
              /\ UNCHANGED <<timed, outlived>>
           \/ /\ entry.op = "timed"
              /\ queue' = rest
              /\ timed' = timed \union ({entry.uses} \ {None})
              /\ Outlives(entry)
              /\ step' = "pop"
        /\ UNCHANGED <<cursor, home, prepared, holding, serving, abandoned, disturbed, allocated, posts>>

(* pop_front: only now is there room for the producer.  After an error the  *)
(* loop returns.                                                            *)
Pop ==
    /\ step \in {"pop", "abort"}
    /\ queue' = [queue EXCEPT ![serving] = Tail(@)]
    /\ serving' = None
    /\ step' = IF step = "abort" THEN "ended" ELSE "between"
    /\ UNCHANGED <<ringVars, timed, historyVars, allocated, posts>>

FireTimed ==
    /\ step = "between"
    /\ \E i \in timed : timed' = timed \ {i}
    /\ UNCHANGED <<ringVars, queue, serving, step, historyVars, allocated, posts>>

(* A cycle that finds nothing to do, or a loop that has returned. *)
EmptyCycle ==
    /\ \/ step = "ended"
       \/ step = "between" /\ timed = {} /\ \A o \in Owners : queue[o] = <<>>
    /\ UNCHANGED vars

Next ==
    \/ \E p \in Producers : GetPayload(p)
    \/ GetLocalPayload
    \/ \E o \in Owners : Post(o) \/ PostAsync(o) \/ PostTimed(o) \/ PostIdleTimed(o) \/ Begin(o)
    \/ Finish \/ Pop \/ FireTimed \/ EmptyCycle

Spec == Init /\ [][Next]_vars

-----------------------------------------------------------------------------
Stages == {"between", "action", "pop", "abort", "ended"}

TypeOK ==
    /\ cursor \in [Owners -> Places]
    /\ ring \in [Owners -> [Places -> Objects \union {None}]]
    /\ home \in [Objects -> (Owners \X Places) \union {None}]
    /\ prepared \in [Owners -> Objects \union {None}]
    /\ holding \in [Owners -> Objects \union {None}]
    /\ queue \in [Owners -> Seq(EntryType)]
    /\ timed \subseteq Objects /\ entries \in 0 .. (2 ^ Width - 1)
    /\ serving \in Owners \union {None} /\ step \in Stages
    /\ allocated \in 0 .. MaxObjects /\ posts \in 0 .. MaxPosts
    /\ destroyed \in [Objects -> Nat]
    /\ abandoned \subseteq Objects /\ outlived \subseteq Objects /\ disturbed \subseteq Owners

Live(i) == destroyed[i] = 0 /\ ring[home[i][1]][home[i][2]] = i

(* The entries of o whose action has not returned. *)
Waiting(o) == {n \in DOMAIN queue[o] : ~(n = 1 /\ serving = o /\ step \in {"pop", "abort"})}

(* What is in a ring keeps its place, or the ring gives out places that are *)
(* in use: it dropped a prepared entry or, on the loop thread, gave out all *)
(* of its places.                                                           *)
Kept(i) == home[i][1] \in disturbed \/ Live(i)

(* An entry destroys the object its own action used and no other, however   *)
(* calls that fail are mixed with posts of several threads.  And whatever a *)
(* posted action or a stored timed event is going to use is in its place,   *)
(* alive, although the ring is reused as soon as the queue has room and     *)
(* entries without an object share the queue.  The exception: an action     *)
(* that is posted again after a try, or whose timed event is stored by a    *)
(* forwarding action, goes on with an object that was destroyed with the    *)
(* entry it was first posted in (`outlived', finding 10 of the README).     *)
PayloadIntact ==
    /\ \A o \in Owners : \A n \in Waiting(o) :
          LET entry == queue[o][n] IN
          /\ entry.frees # None => entry.frees = entry.uses
          /\ entry.uses \notin outlived \union {None} => Kept(entry.uses)
    /\ \A i \in timed \ outlived : Kept(i)

(* The posted entries, each named by its owner and its place in the queue.  *)
Entries == UNION {{o} \X DOMAIN queue[o] : o \in Owners}

(* Every object awaits its destruction in exactly one prepared or posted    *)
(* entry, or was destroyed exactly once, or its entry was dropped.          *)
DestroyedOnce ==
    disturbed = {} =>
        \A i \in 1 .. allocated :
            destroyed[i] + Cardinality({o \in Owners : prepared[o] = i})
              + Cardinality({on \in Entries : queue[on[1]][on[2]].frees = i}) = 1

-----------------------------------------------------------------------------
(* "Local Async store on event queue[{}] has reached capacity Next action   *)
(* payload cannot be allocated": no more objects are outstanding on the     *)
(* local ring than it has places.  The code does not keep it: the guard of   *)
(* line 152 looks at a counter that is only decremented.                    *)
WithinLocalCapacity == Cardinality(Outstanding(LoopThread)) <= N

(* "Thread local payloads are not supported for timed events!!": a timed    *)
(* action never has an object that is gone before it fires.  The code does  *)
(* not keep it: line 273 looks at the loop thread's prepared entry only.    *)
TimedUsesLive == \A i \in timed : Live(i)
=============================================================================
